--------------------------- MODULE EscalationProofs ---------------------------
(***************************************************************************)
(* Proofs about the phone's own switch: a tap never leaves the dashboard   *)
(* without a running loop, and the progress mirror runs ahead of the chain *)
(* only where a transaction of the same run has landed and failed.         *)
(***************************************************************************)
EXTENDS Escalation, FiniteSetTheorems, TLAPS

------------------------------------------------------------------------------
(* Stages and services.                                                    *)

\* The history gives one of the five stages, or none without a row
\* (calculateStage, getStatus).
LEMMA StatusRange ==
  ASSUME NEW age \in Nat \cup {NoBeat}
  PROVE  getStatus(age) \in Stages \cup {NoBeat}
<1> DEFINE overdue == secondsOverdue(age)
           ended == {k \in 1..3 : StageEnds[k] <= overdue}
<1>1. IsFiniteSet(1..3) /\ Cardinality(1..3) = 3
  <2>1. 1 \in Int /\ 3 \in Int /\ 3 - 1 + 1 = 3 /\ ~(1 > 3)
    OBVIOUS
  <2> QED
    BY ONLY <2>1, FS_Interval
<1>2. IsFiniteSet(ended) /\ Cardinality(ended) <= 3
  BY <1>1, FS_Subset
<1>3. Cardinality(ended) \in Nat
  BY <1>2, FS_CardinalityType
<1>4. calculateStage(overdue) = IF overdue = 0 THEN 0 ELSE 1 + Cardinality(ended)
  BY DEF calculateStage
<1> HIDE DEF ended, overdue
<1>5. calculateStage(overdue) \in 0..4
  BY <1>2, <1>3, <1>4
<1> QED
  BY <1>5 DEF getStatus, Stages, overdue

\* A heartbeat just recorded is no alarm (getStatus).
LEMMA FreshStatus == getStatus(0) = 0
BY EscalationAssumption DEF getStatus, NoBeat, calculateStage, secondsOverdue

\* A fresh read is no newer than any read that is held (confirmHeartbeat, the
\* new history of a vault).
LEMMA FreshIsLast ==
  ASSUME NEW seen \in Stages \cup {NoBeat, Idle}, seen # Idle
  PROVE  ReadBefore(seen, getStatus(0))
BY FreshStatus DEF ReadBefore, Stages, NoBeat, Idle

\* The fields of a service.
LEMMA ServiceFields ==
  ASSUME NEW s \in Service
  PROVE  /\ s.stage \in Stages /\ s.loop \in BOOLEAN /\ s.seen \in Stages \cup {NoBeat, Idle}
         /\ s # NoService
         /\ [s EXCEPT !.loop = FALSE] \in Service
         /\ [s EXCEPT !.loop = FALSE].seen = s.seen
         /\ \A n \in Stages : [s EXCEPT !.stage = n] \in Service
<1>1. s.stage \in Stages
  BY DEF Service
<1>2. s # NoService
  BY <1>1 DEF NoService, Stages
<1> QED
  BY <1>1, <1>2 DEF Service

\* The constructor gives a running service that has read the history
\* (EscalationService, start).
LEMMA NewServiceType ==
  ASSUME NEW st \in [stage : Stages, started : BOOLEAN], NEW age \in Nat \cup {NoBeat}
  PROVE  /\ NewService(st, age) \in Service
         /\ NewService(st, age).loop /\ NewService(st, age).seen = getStatus(age)
<1>1. getStatus(age) \in Stages \cup {NoBeat}
  BY StatusRange
<1> QED
  BY <1>1 DEF NewService, Service

\* What an evaluation leaves: the service has no read any more, the store is
\* of its type, and the loop goes on unless the stage is 4 (evaluate).
LEMMA EvaluateType ==
  ASSUME ServiceTypeOK, NEW s \in Service, Holding(s)
  PROVE  /\ evaluate(s).svc \in Service /\ evaluate(s).svc.seen = Idle
         /\ evaluate(s).store \in [stage : Stages, started : BOOLEAN]
         /\ ~evaluate(s).svc.loop => ~s.loop \/ (s.seen = 4 /\ evaluate(s).store.stage = 4)
         /\ s.seen = 4 => evaluate(s).store.stage = 4 \/ evaluate(s).store = store
         /\ s.seen = NoBeat => evaluate(s).store = store
<1>1. s.stage \in Stages /\ s.loop \in BOOLEAN /\ s.seen \in Stages \cup {NoBeat}
      /\ store \in [stage : Stages, started : BOOLEAN]
  BY ServiceFields DEF Holding, ServiceTypeOK
<1>2. Unread(s) \in Service /\ Unread(s).seen = Idle /\ Unread(s).loop = s.loop
  BY DEF Unread, Service
<1>3. CASE s.seen \in {NoBeat, s.stage}
  <2>1. evaluate(s) = [svc |-> Unread(s), store |-> store, fires |-> FALSE]
    BY <1>3 DEF evaluate
  <2> QED
    BY <1>1, <1>2, <2>1
<1>4. CASE s.seen \notin {NoBeat, s.stage} /\ s.seen = 0
  <2> DEFINE svc == [Unread(s) EXCEPT !.stage = 0]
  <2>1. evaluate(s).svc = svc /\ evaluate(s).store = initialState
    BY <1>4 DEF evaluate, resetEscalation
  <2>2. svc \in Service /\ svc.seen = Idle /\ svc.loop = s.loop
    BY <1>2 DEF Service, Stages
  <2>3. initialState \in [stage : Stages, started : BOOLEAN]
    BY DEF initialState, Stages
  <2>4. s.seen # 4 /\ s.seen # NoBeat
    BY <1>4 DEF NoBeat
  <2> HIDE DEF svc
  <2> QED
    BY <1>1, <2>1, <2>2, <2>3, <2>4
<1>5. CASE s.seen \notin {NoBeat, s.stage} /\ s.seen # 0
  <2>1. evaluate(s) = transitionTo(s, s.seen)
    BY <1>5 DEF evaluate
  <2>2. s.seen \in Stages
    BY <1>1, <1>5
  <2>3. PICK goes \in BOOLEAN : goes = (s.loop /\ s.seen # 4)
    OBVIOUS
  <2>4. PICK started \in BOOLEAN : started = (store.started \/ s.seen = 4)
    OBVIOUS
  <2> DEFINE svc == [Unread(s) EXCEPT !.stage = s.seen, !.loop = goes]
             st == [stage |-> s.seen, started |-> started]
  <2>5. evaluate(s).svc = svc /\ evaluate(s).store = st
    BY <2>1, <2>3, <2>4 DEF transitionTo
  <2>6. svc \in Service /\ svc.seen = Idle /\ svc.loop = goes
    BY <1>2, <2>2 DEF Service
  <2>7. st \in [stage : Stages, started : BOOLEAN] /\ st.stage = s.seen
    BY <2>2
  <2> HIDE DEF svc, st
  <2> QED
    BY <1>1, <1>5, <2>3, <2>5, <2>6, <2>7
<1> QED
  BY <1>3, <1>4, <1>5

------------------------------------------------------------------------------
(* The services through every step.                                        *)

\* A new configuration replaces the service: what it had read joins the
\* stale evaluations, and the new one has read after all of them (useHeartbeat).
LEMMA HookOrders ==
  ASSUME ServiceTypeOK, EvaluationsOrdered,
         beat' = beat \/ beat' = 0, store' \in [stage : Stages, started : BOOLEAN],
         NEW active, Hook(active, store')
  PROVE  ServiceInv'
<1>1. beat' \in Nat \cup {NoBeat} /\ cur \in Service \cup {NoService} /\ stale \in SUBSET Service
  BY DEF ServiceTypeOK
<1> DEFINE fresh == NewService(store', beat')
           now == getStatus(beat')
<1>2. fresh \in Service /\ fresh.loop /\ fresh.seen = now
  BY <1>1, NewServiceType
<1> HIDE DEF fresh
<1>3. cur' = IF active THEN fresh ELSE NoService
  BY DEF Hook, fresh
<1>4. cur' \in Service \cup {NoService} /\ (cur' # NoService => cur'.loop)
  BY <1>2, <1>3
<1>5. Holding(cur') => cur'.seen = now
  BY <1>2, <1>3 DEF Holding, NoService
<1>6. ASSUME NEW seen \in Stages \cup {NoBeat, Idle}, seen # Idle, ReadBefore(seen, getStatus(beat))
      PROVE  ReadBefore(seen, now)
  BY <1>6, FreshIsLast
<1>7. ASSUME NEW s \in stale'
      PROVE  s \in Service /\ (Holding(s) => ReadBefore(s.seen, now))
  <2>1. CASE s \in stale
    <3>1. s \in Service /\ s.seen \in Stages \cup {NoBeat, Idle}
      BY <1>1, <2>1, ServiceFields
    <3>2. Holding(s) => ReadBefore(s.seen, getStatus(beat))
      BY <2>1 DEF EvaluationsOrdered
    <3> QED
      BY <1>6, <3>1, <3>2 DEF Holding
  <2>2. CASE cur.seen # Idle /\ s = [cur EXCEPT !.loop = FALSE]
    <3>1. cur \in Service
      BY <1>1, <2>2 DEF NoService
    <3>2. s \in Service /\ s.seen = cur.seen /\ s.seen \in Stages \cup {NoBeat, Idle}
      BY <2>2, <3>1, ServiceFields
    <3>3. ReadBefore(s.seen, getStatus(beat))
      BY <2>2, <3>2 DEF EvaluationsOrdered, Holding
    <3> QED
      BY <1>6, <2>2, <3>2, <3>3
  <2>3. s \in stale \/ (cur.seen # Idle /\ s = [cur EXCEPT !.loop = FALSE])
    BY <1>7 DEF Hook, Replaced
  <2> QED
    BY <2>1, <2>2, <2>3
<1> HIDE DEF now
<1>8. Holding(cur') => ReadBefore(cur'.seen, now)
  <2> SUFFICES ASSUME Holding(cur') PROVE ReadBefore(now, now)
    BY <1>5
  <2>1. now \in Stages \cup {NoBeat}
    BY <1>1, StatusRange DEF now
  <2> QED
    BY <2>1 DEF ReadBefore, Stages
<1>9. EvaluationsOrdered'
  BY <1>5, <1>7, <1>8 DEF EvaluationsOrdered, now
<1>10. StoppedAtFour'
  BY <1>4 DEF StoppedAtFour
<1>11. ServiceTypeOK'
  BY <1>1, <1>4, <1>7 DEF ServiceTypeOK
<1> QED
  BY <1>9, <1>10, <1>11 DEF ServiceInv

\* The loop reads the history (evaluate, before its await).
LEMMA LoopOrders ==
  ASSUME ServiceInv, LoopTicks
  PROVE  ServiceInv'
<1>1. cur \in Service \cup {NoService} /\ cur.loop /\ beat \in Nat \cup {NoBeat}
      /\ stale \in SUBSET Service
  BY DEF ServiceInv, ServiceTypeOK, LoopTicks
<1>2. cur \in Service
  BY <1>1 DEF NoService
<1> DEFINE now == getStatus(beat)
<1>3. now \in Stages \cup {NoBeat}
  BY <1>1, StatusRange
<1>4. cur' = [cur EXCEPT !.seen = now] /\ UNCHANGED <<beat, store, stale, tap>>
  BY DEF LoopTicks
<1> HIDE DEF now
<1>5. cur' \in Service /\ cur'.seen = now /\ cur'.loop
  BY <1>1, <1>2, <1>3, <1>4 DEF Service
<1>6. \A s \in stale : Holding(s) => ReadBefore(s.seen, now)
  BY DEF ServiceInv, EvaluationsOrdered, now
<1>7. ReadBefore(now, now)
  BY <1>3 DEF ReadBefore, Stages
<1>8. EvaluationsOrdered'
  BY <1>4, <1>5, <1>6, <1>7 DEF EvaluationsOrdered, now
<1>9. ServiceTypeOK'
  BY <1>1, <1>4, <1>5 DEF ServiceInv, ServiceTypeOK
<1>10. StoppedAtFour'
  BY <1>5 DEF StoppedAtFour
<1> QED
  BY <1>8, <1>9, <1>10 DEF ServiceInv

\* An evaluation ends, of the current service or of a replaced one (the rest
\* of evaluate).
LEMMA EvaluationOrders ==
  ASSUME ServiceInv, Evaluates
  PROVE  ServiceInv'
<1>1. cur \in Service \cup {NoService} /\ beat \in Nat \cup {NoBeat}
      /\ stale \in SUBSET Service /\ ServiceTypeOK /\ EvaluationsOrdered /\ StoppedAtFour
      /\ store \in [stage : Stages, started : BOOLEAN]
  BY DEF ServiceInv, ServiceTypeOK
<1>2. UNCHANGED <<beat, tap>>
  BY DEF Evaluates
<1>3. CASE Holding(cur) /\ cur' = evaluate(cur).svc /\ Applies(evaluate(cur)) /\ UNCHANGED stale
  <2>1. cur \in Service
    BY <1>1, <1>3 DEF Holding, NoService
  <2>2. store' = evaluate(cur).store
    BY <1>3 DEF Applies
  <2>3. /\ cur' \in Service /\ cur'.seen = Idle
        /\ store' \in [stage : Stages, started : BOOLEAN]
        /\ ~cur'.loop => ~cur.loop \/ (cur.seen = 4 /\ store'.stage = 4)
    BY <1>1, <1>3, <2>1, <2>2, EvaluateType
  <2>4. EvaluationsOrdered'
    BY <1>1, <1>2, <1>3, <2>3 DEF EvaluationsOrdered, Holding
  <2>5. ServiceTypeOK'
    BY <1>1, <1>2, <1>3, <2>3 DEF ServiceTypeOK
  <2>6. StoppedAtFour'
    <3> SUFFICES ASSUME tap = "idle", ~cur'.loop
                 PROVE  store'.stage = 4 /\ \A s \in stale : Holding(s) => s.seen \in {4, NoBeat}
      BY <1>2, <1>3, <2>3 DEF StoppedAtFour
    <3>1. cur # NoService
      BY <2>1, ServiceFields
    <3>2. cur.loop
      BY <1>1, <1>3, <3>1 DEF StoppedAtFour, Holding
    <3>3. cur.seen = 4 /\ store'.stage = 4
      BY <2>3, <3>2
    <3>4. ASSUME NEW s \in stale, Holding(s) PROVE s.seen \in {4, NoBeat}
      <4>1. ReadBefore(s.seen, 4)
        BY <1>1, <1>3, <3>3, <3>4 DEF EvaluationsOrdered
      <4>2. s.seen \in Stages \cup {NoBeat, Idle} /\ s.seen # Idle
        BY <1>1, <3>4, ServiceFields DEF Holding
      <4> QED
        BY <4>1, <4>2 DEF ReadBefore, Stages, NoBeat
    <3> QED
      BY <3>3, <3>4
  <2> QED
    BY <2>4, <2>5, <2>6 DEF ServiceInv
<1>4. ASSUME NEW s \in stale, Holding(s), stale' = stale \ {s}, Applies(evaluate(s)), cur' = cur
      PROVE  ServiceInv'
  <2>1. s \in Service /\ store' = evaluate(s).store
    BY <1>1, <1>4 DEF Applies
  <2>2. /\ store' \in [stage : Stages, started : BOOLEAN]
        /\ s.seen = 4 => store'.stage = 4 \/ store' = store
        /\ s.seen = NoBeat => store' = store
    BY <1>1, <1>4, <2>1, EvaluateType
  <2>3. EvaluationsOrdered'
    BY <1>1, <1>2, <1>4 DEF EvaluationsOrdered
  <2>4. ServiceTypeOK'
    BY <1>1, <1>2, <1>4, <2>2 DEF ServiceTypeOK
  <2>5. StoppedAtFour'
    BY <1>1, <1>2, <1>4, <2>2 DEF StoppedAtFour
  <2> QED
    BY <2>3, <2>4, <2>5 DEF ServiceInv
<1> QED
  BY <1>3, <1>4 DEF Evaluates

\* The heartbeat button, up to its last step, and the clock.
LEMMA TapOrders ==
  ASSUME ServiceInv, Tap \/ TimePasses
  PROVE  ServiceInv'
<1>1. cur \in Service \cup {NoService} /\ beat \in Nat \cup {NoBeat}
      /\ stale \in SUBSET Service /\ ServiceTypeOK /\ EvaluationsOrdered /\ StoppedAtFour
      /\ store \in [stage : Stages, started : BOOLEAN]
  BY DEF ServiceInv, ServiceTypeOK
<1>2. ASSUME NEW s \in Service, Holding(s) PROVE ReadBefore(s.seen, getStatus(0))
  BY <1>2, FreshIsLast, ServiceFields DEF Holding
<1>3. CASE confirmHeartbeat
  <2>1. beat' = 0 /\ tap' = "recorded" /\ UNCHANGED <<store, cur, stale>>
    BY <1>3 DEF confirmHeartbeat
  <2>2. Holding(cur) => cur \in Service
    BY <1>1 DEF Holding, NoService
  <2>3. EvaluationsOrdered'
    BY <1>1, <1>2, <2>1, <2>2 DEF EvaluationsOrdered
  <2> QED
    BY <1>1, <2>1, <2>3 DEF ServiceInv, ServiceTypeOK, StoppedAtFour
<1>4. CASE TapResets
  <2>1. store' = initialState /\ tap' = "sending" /\ UNCHANGED <<beat, stale>>
        /\ cur' = (IF cur = NoService THEN cur ELSE [cur EXCEPT !.stage = 0])
    BY <1>4 DEF TapResets
  <2>2. cur' \in Service \cup {NoService} /\ cur'.seen = cur.seen
    <3>1. CASE cur = NoService
      BY <2>1, <3>1
    <3>2. CASE cur # NoService
      BY <1>1, <2>1, <3>2 DEF Service, Stages
    <3> QED
      BY <3>1, <3>2
  <2>3. store' \in [stage : Stages, started : BOOLEAN]
    BY <2>1 DEF initialState, Stages
  <2>4. EvaluationsOrdered'
    BY <1>1, <2>1, <2>2 DEF EvaluationsOrdered, Holding
  <2> QED
    BY <1>1, <2>1, <2>2, <2>3, <2>4 DEF ServiceInv, ServiceTypeOK, StoppedAtFour
<1>5. CASE recordHeartbeatOnChain
  BY <1>1, <1>5
     DEF recordHeartbeatOnChain, ServiceInv, ServiceTypeOK, EvaluationsOrdered, StoppedAtFour
<1>6. CASE TimePasses
  <2>1. UNCHANGED <<store, cur, stale, tap>> /\ \A s \in {cur} \cup stale : ~Holding(s)
    BY <1>6 DEF TimePasses
  <2>2. beat' \in Nat \cup {NoBeat}
    BY <1>1, <1>6 DEF TimePasses, Older
  <2>3. EvaluationsOrdered'
    BY <2>1 DEF EvaluationsOrdered
  <2> QED
    BY <1>1, <2>1, <2>2, <2>3 DEF ServiceInv, ServiceTypeOK, StoppedAtFour
<1> QED
  BY <1>3, <1>4, <1>5, <1>6 DEF Tap

\* The steps that run the effect of the hook: the loading of the vault, the
\* screens that end or create one, the report of a run.
LEMMA ReloadOrders ==
  ASSUME ServiceInv, loadVaultState \/ VaultEnds \/ Registers \/ Reports
  PROVE  ServiceInv'
<1>1. ServiceTypeOK /\ EvaluationsOrdered /\ store \in [stage : Stages, started : BOOLEAN]
  BY DEF ServiceInv, ServiceTypeOK
<1>2. initialState \in [stage : Stages, started : BOOLEAN]
  BY DEF initialState, Stages
<1>3. beat' = beat \/ beat' = 0
  BY DEF loadVaultState, VaultEnds, Registers, Reports
<1>4. CASE UNCHANGED <<store, cur, stale, tap, beat>>
  BY <1>4 DEF ServiceInv, ServiceTypeOK, EvaluationsOrdered, StoppedAtFour
<1>5. CASE store' \in {store, initialState} /\ \E active : Hook(active, store')
  BY <1>1, <1>2, <1>3, <1>5, HookOrders
<1>6. CASE loadVaultState
  <2>1. CASE LoadsVault
    BY <1>5, <2>1 DEF LoadsVault
  <2>2. CASE LoadsNothing
    BY <1>5, <2>2 DEF LoadsNothing
  <2> QED
    BY <1>6, <2>1, <2>2 DEF loadVaultState
<1>7. CASE VaultEnds \/ Registers
  BY <1>5, <1>7 DEF VaultEnds, Registers
<1>8. CASE Reports
  <2>1. UNCHANGED <<tap, beat>>
    BY <1>8 DEF Reports
  <2>2. CASE chain.st = "executed"
    BY <1>5, <1>8, <2>2 DEF Reports
  <2>3. CASE chain.st # "executed"
    BY <1>4, <1>8, <2>1, <2>3 DEF Reports
  <2> QED
    BY <2>2, <2>3
<1> QED
  BY <1>6, <1>7, <1>8

\* Every step keeps the services in order.
LEMMA ServiceStep ==
  ASSUME ServiceInv, [Next]_vars
  PROVE  ServiceInv'
<1>1. CASE Services
  BY <1>1, LoopOrders, EvaluationOrders DEF Services
<1>2. CASE Tap \/ TimePasses
  BY <1>2, TapOrders
<1>3. CASE loadVaultState \/ VaultEnds \/ Registers \/ Reports
  BY <1>3, ReloadOrders
<1>4. CASE AppDies
  <2>1. store' = initialState /\ cur' = NoService /\ stale' = {} /\ beat' = beat
    BY <1>4 DEF AppDies
  <2>2. ServiceTypeOK' /\ EvaluationsOrdered' /\ StoppedAtFour'
    BY <2>1 DEF ServiceInv, ServiceTypeOK, EvaluationsOrdered, StoppedAtFour, Holding, NoService,
       initialState, Stages
  <2> QED
    BY <2>2 DEF ServiceInv
<1>5. CASE UNCHANGED <<store, cur, stale, tap, beat>>
  BY <1>5 DEF ServiceInv, ServiceTypeOK, EvaluationsOrdered, StoppedAtFour
<1>6. CASE \/ OtherCrankerPays \/ FetchesConfig \/ BeginsExecution \/ RunFails
           \/ \E s \in Steps : SkipsStep(s) \/ runStep(s) \/ StepReverts(s) \/ StepFails(s)
           \/ UNCHANGED vars
  BY <1>5, <1>6 DEF OtherCrankerPays, FetchesConfig, BeginsExecution, RunFails, SkipsStep,
     runStep, StepReverts, StepFails, vars
<1> QED
  BY <1>1, <1>2, <1>3, <1>4, <1>6 DEF Next, Run

\* The phone starts without a service.
LEMMA ServiceInit == Init => ServiceInv
BY DEF Init, ServiceInv, ServiceTypeOK, EvaluationsOrdered, StoppedAtFour, Holding, NoService,
   initialState, Stages, NoBeat

------------------------------------------------------------------------------
(* The run and its mirror.                                                 *)

\* The steps of the vault (the plan, and the finalisation).
LEMMA StepsType ==
  ASSUME RunTypeOK
  PROVE  Steps \in SUBSET {"spec", "sol", "tok", "finalize"}
<1>1. chain.life \in 1..Len(Plans)
  BY DEF RunTypeOK
<1>2. Plans[chain.life] \in SUBSET {"spec", "sol", "tok"}
  BY <1>1, EscalationAssumption
<1> QED
  BY <1>2 DEF Steps

\* A payment keeps the vault and adds to what is paid (execute_specific_asset,
\* execute_sol_shares, execute_token_shares, finalize_execution).
LEMMA PaidType ==
  ASSUME RunTypeOK, NEW s \in Steps
  PROVE  /\ Paid(s) \in [life : 1..Len(Plans), st : {"active", "executing", "executed", "none"},
                         paid : SUBSET {"spec", "sol", "tok", "finalize"}]
         /\ Paid(s).life = chain.life /\ Paid(s).paid = chain.paid \cup {s}
         /\ Paid(s).st = "none" => chain.st = "none"
BY StepsType DEF Paid, RunTypeOK

\* A run that has ended, or is only waiting, shows nothing of any vault.
LEMMA RunOver ==
  ASSUME RunTypeOK, run' = NoRun \/ run' = [NoRun EXCEPT !.pc = "waiting"],
         chain' = chain
  PROVE  MirrorInv'
<1>1. run'.pc \in {"off", "waiting"} /\ run'.life = 0
      /\ run' \in [pc : {"off", "waiting", "begin", "steps"}, life : Nat, left : {run'.left},
                 reverted : {run'.reverted}]
  BY DEF NoRun
<1>2. chain.life \in 1..Len(Plans) /\ Len(Plans) \in Nat
  BY EscalationAssumption DEF RunTypeOK
<1>3. run'.life <= chain'.life
  BY <1>1, <1>2
<1> QED
  BY <1>1, <1>3 DEF MirrorInv, RunTypeOK, MirrorTruthful

\* A payment of another cranker leaves the mirror behind, never ahead.
LEMMA PaymentKeeps ==
  ASSUME MirrorInv, NEW s \in Steps, chain.st # "none", chain' = Paid(s),
         run' = run \/ run' = [run EXCEPT !.left = Tail(@)] \/ run' = NoRun,
         mirror' = mirror \/ mirror' = mirror \cup {s}
  PROVE  MirrorInv'
<1>1. RunTypeOK /\ MirrorTruthful
  BY DEF MirrorInv
<1>2. chain' \in [life : 1..Len(Plans), st : {"active", "executing", "executed", "none"},
                  paid : SUBSET {"spec", "sol", "tok", "finalize"}]
      /\ chain'.life = chain.life /\ chain'.paid = chain.paid \cup {s}
      /\ (chain'.st = "none" => chain.st = "none")
  BY <1>1, PaidType
<1>3. chain.life \in 1..Len(Plans) /\ Len(Plans) \in Nat /\ run.life \in Nat
      /\ run.life <= chain.life
  BY <1>1, EscalationAssumption DEF RunTypeOK
<1>4. /\ run' \in [pc : {"off", "waiting", "begin", "steps"}, life : Nat, left : {run'.left},
                 reverted : {run'.reverted}]
      /\ run'.pc = "steps" => /\ run.pc = "steps" /\ run'.life = run.life
                              /\ run'.reverted = run.reverted
      /\ run'.life \in {0, run.life}
  BY <1>1 DEF RunTypeOK, NoRun
<1>5. run'.life <= chain'.life
  BY <1>2, <1>3, <1>4
<1>6. Steps' = Steps
  BY <1>2 DEF Steps
<1>7. ASSUME run'.pc = "steps", run'.life = chain'.life, chain'.st # "none"
      PROVE  Steps \cap mirror' \subseteq chain'.paid \cup run'.reverted
  <2>1. /\ run.pc = "steps" /\ run.life = chain.life /\ chain.st # "none"
        /\ run'.reverted = run.reverted
    <3>1. run.pc = "steps" /\ run'.life = run.life /\ run'.reverted = run.reverted
      BY <1>4, <1>7
    <3> QED
      BY <1>2, <1>7, <3>1
  <2>2. Steps \cap mirror \subseteq chain.paid \cup run.reverted
    BY <1>1, <2>1 DEF MirrorTruthful
  <2> QED
    BY <1>2, <2>1, <2>2
<1>8. MirrorTruthful'
  BY <1>6, <1>7 DEF MirrorTruthful
<1> QED
  BY <1>2, <1>4, <1>5, <1>8 DEF MirrorInv, RunTypeOK

\* The vault ends, and another one takes its place: a run of the old vault
\* speaks of it no more (revokeVault, EstateReview).
LEMMA LifeKeeps ==
  ASSUME MirrorInv, VaultEnds \/ Registers
  PROVE  MirrorInv'
<1>1. RunTypeOK /\ chain.life \in 1..Len(Plans) /\ Len(Plans) \in Nat /\ run.life \in Nat
      /\ run.life <= chain.life
  BY EscalationAssumption DEF MirrorInv, RunTypeOK
<1>2. UNCHANGED <<run, mirror>>
  BY DEF VaultEnds, Registers
<1>3. CASE VaultEnds
  <2>1. CASE chain' = chain
    BY <1>1, <1>2, <2>1 DEF MirrorInv, RunTypeOK, MirrorTruthful, Steps
  <2>2. CASE chain' = [chain EXCEPT !.st = "none", !.paid = {}]
    <3>1. chain'.life = chain.life /\ chain'.st = "none"
          /\ chain' \in [life : 1..Len(Plans), st : {"active", "executing", "executed", "none"},
                         paid : SUBSET {"spec", "sol", "tok", "finalize"}]
      BY <1>1, <2>2 DEF RunTypeOK
    <3> QED
      BY <1>1, <1>2, <3>1 DEF MirrorInv, RunTypeOK, MirrorTruthful
  <2> QED
    BY <1>3, <2>1, <2>2 DEF VaultEnds
<1>4. CASE Registers
  <2>1. chain.life < Len(Plans)
        /\ chain' = [life |-> chain.life + 1, st |-> "active", paid |-> {}]
    BY <1>4 DEF Registers
  <2>2. PICK life \in 1..Len(Plans) : life = chain.life + 1 /\ run.life < life
    BY <1>1, <2>1
  <2>3. chain' = [life |-> life, st |-> "active", paid |-> {}]
    BY <2>1, <2>2
  <2>4. chain'.life = life
        /\ chain' \in [life : 1..Len(Plans), st : {"active", "executing", "executed", "none"},
                       paid : SUBSET {"spec", "sol", "tok", "finalize"}]
    BY <2>3
  <2>5. run'.life <= chain'.life /\ run'.life # chain'.life
    BY <1>1, <1>2, <2>2, <2>4
  <2> QED
    BY <1>1, <1>2, <2>4, <2>5 DEF MirrorInv, RunTypeOK, MirrorTruthful
<1> QED
  BY <1>3, <1>4

\* A run begins: it takes up the vault as it is on chain, and starts its
\* table anew (FetchesConfig, clearExecutionSteps, buildMirror).
LEMMA BeginKeeps ==
  ASSUME MirrorInv, FetchesConfig \/ BeginsExecution
  PROVE  MirrorInv'
<1>1. RunTypeOK /\ chain.life \in 1..Len(Plans) /\ Len(Plans) \in Nat /\ run.life \in Nat
      /\ run.life <= chain.life
  BY EscalationAssumption DEF MirrorInv, RunTypeOK
<1>2. CASE FetchesConfig
  <2>1. chain' = chain
    BY <1>2 DEF FetchesConfig
  <2>2. CASE ReturnsRun
    BY <1>1, <2>1, <2>2, RunOver DEF ReturnsRun
  <2>3. CASE run' = [run EXCEPT !.pc = "begin", !.life = chain.life]
    <3>0. PICK life \in Nat : life = chain.life
      BY <1>1
    <3>1. run'.pc = "begin" /\ run'.life = chain.life
          /\ run' \in [pc : {"off", "waiting", "begin", "steps"}, life : Nat, left : {run'.left},
                 reverted : {run'.reverted}]
      BY <1>1, <2>3, <3>0 DEF RunTypeOK
    <3>2. run'.life <= chain'.life
      BY <1>1, <2>1, <3>1
    <3> QED
      BY <1>1, <2>1, <3>1, <3>2 DEF MirrorInv, RunTypeOK, MirrorTruthful
  <2> QED
    BY <1>2, <2>2, <2>3 DEF FetchesConfig
<1>3. CASE BeginsExecution
  <2> DEFINE todo == SelectSeq(Order, LAMBDA s : s \in Steps)
  <2>1. /\ chain' = [chain EXCEPT !.st = IF @ = "active" THEN "executing" ELSE @]
        /\ run' = [run EXCEPT !.pc = "steps", !.left = todo]
        /\ mirror' = mirror \ Steps
    BY <1>3 DEF BeginsExecution, buildMirror, saveExecutionStep
  <2> HIDE DEF todo
  <2>2. run'.life = run.life
        /\ run' \in [pc : {"off", "waiting", "begin", "steps"}, life : Nat, left : {run'.left},
                 reverted : {run'.reverted}]
    BY <1>1, <2>1 DEF RunTypeOK
  <2>3. chain'.life = chain.life
        /\ chain' \in [life : 1..Len(Plans), st : {"active", "executing", "executed", "none"},
                       paid : SUBSET {"spec", "sol", "tok", "finalize"}]
    BY <1>1, <2>1 DEF RunTypeOK
  <2>4. Steps' = Steps
    BY <2>3 DEF Steps
  <2>5. Steps' \cap mirror' = {}
    BY <2>1, <2>4
  <2>6. run'.life <= chain'.life
    BY <1>1, <2>2, <2>3
  <2> QED
    BY <2>2, <2>3, <2>5, <2>6 DEF MirrorInv, RunTypeOK, MirrorTruthful
<1> QED
  BY <1>2, <1>3

\* A run works through its steps (runStep, markDone).
LEMMA StepKeeps ==
  ASSUME MirrorInv, NEW s \in Steps, SkipsStep(s) \/ runStep(s) \/ StepReverts(s) \/ StepFails(s)
  PROVE  MirrorInv'
<1>1. RunTypeOK /\ MirrorTruthful
  BY DEF MirrorInv
<1>2. CASE (runStep(s) \/ StepFails(s)) /\ chain' = Paid(s)
  <2>1. chain.st # "none"
    BY <1>2 DEF runStep, StepFails, Payable
  <2> QED
    BY <1>2, <2>1, PaymentKeeps DEF runStep, StepFails, markDone, Advances, ReturnsRun
<1>3. CASE StepFails(s) /\ chain' = chain
  <2>1. CASE ReturnsRun
    BY <1>1, <1>3, <2>1, RunOver DEF ReturnsRun
  <2>2. CASE Advances
    <3>1. run' = [run EXCEPT !.left = Tail(@)] /\ mirror' = mirror
      BY <1>3, <2>2 DEF StepFails, Advances
    <3>2. run'.pc = run.pc /\ run'.life = run.life /\ run'.reverted = run.reverted
          /\ run' \in [pc : {"off", "waiting", "begin", "steps"}, life : Nat, left : {run'.left},
                 reverted : {run'.reverted}]
      BY <1>1, <3>1 DEF RunTypeOK
    <3>3. Steps' = Steps
      BY <1>3 DEF Steps
    <3> QED
      BY <1>1, <1>3, <3>1, <3>2, <3>3 DEF MirrorInv, RunTypeOK, MirrorTruthful
  <2> QED
    BY <1>3, <2>1, <2>2 DEF StepFails
<1>4. CASE SkipsStep(s) \/ (StepReverts(s) /\ s \notin Unpaid)
  <2>1. run' = [run EXCEPT !.left = Tail(@)] /\ chain' = chain
        /\ (mirror' = mirror \/ (mirror' = mirror \cup {s} /\ s \notin Unpaid))
    BY <1>4 DEF SkipsStep, StepReverts, Payable, Advances, markDone
  <2>2. run'.pc = run.pc /\ run'.life = run.life /\ run'.reverted = run.reverted
        /\ run' \in [pc : {"off", "waiting", "begin", "steps"}, life : Nat, left : {run'.left},
                 reverted : {run'.reverted}]
    BY <1>1, <2>1 DEF RunTypeOK
  <2>3. Steps' = Steps
    BY <2>1 DEF Steps
  <2>4. s \notin Unpaid => s \in chain.paid
    BY DEF Unpaid
  <2>5. MirrorTruthful'
    <3> SUFFICES ASSUME run'.pc = "steps", run'.life = chain'.life, chain'.st # "none"
                 PROVE  Steps \cap mirror' \subseteq chain.paid \cup run'.reverted
      BY <2>1, <2>3 DEF MirrorTruthful
    <3>1. Steps \cap mirror \subseteq chain.paid \cup run.reverted
      BY <1>1, <2>1, <2>2 DEF MirrorTruthful
    <3> QED
      BY <2>1, <2>2, <2>4, <3>1
  <2> QED
    BY <1>1, <2>1, <2>2, <2>5 DEF MirrorInv, RunTypeOK
<1>5. CASE StepReverts(s) /\ s \in Unpaid
  <2>1. /\ run' = [run EXCEPT !.left = Tail(@), !.reverted = @ \cup {s}]
        /\ chain' = chain /\ mirror' = mirror \cup {s}
    BY <1>5 DEF StepReverts, markDone
  <2>2. /\ run'.pc = run.pc /\ run'.life = run.life /\ run'.reverted = run.reverted \cup {s}
        /\ run' \in [pc : {"off", "waiting", "begin", "steps"}, life : Nat, left : {run'.left},
                     reverted : {run'.reverted}]
    BY <1>1, <2>1 DEF RunTypeOK
  <2>3. Steps' = Steps
    BY <2>1 DEF Steps
  <2> QED
    BY <1>1, <2>1, <2>2, <2>3 DEF MirrorInv, RunTypeOK, MirrorTruthful
<1> QED
  BY <1>2, <1>3, <1>4, <1>5 DEF runStep, StepFails

\* Every step keeps the mirror truthful.
LEMMA MirrorStep ==
  ASSUME MirrorInv, [Next]_vars
  PROVE  MirrorInv'
<1>1. RunTypeOK /\ MirrorTruthful
  BY DEF MirrorInv
<1>2. CASE UNCHANGED <<chain, run, mirror>>
  BY <1>1, <1>2 DEF MirrorInv, RunTypeOK, MirrorTruthful, Steps
<1>3. CASE LoopTicks \/ Tap \/ loadVaultState \/ TimePasses \/ UNCHANGED vars
  BY <1>2, <1>3 DEF LoopTicks, Tap, confirmHeartbeat, TapResets, recordHeartbeatOnChain,
     loadVaultState, TimePasses, vars
<1>4. CASE Evaluates
  <2>1. UNCHANGED <<chain, mirror>>
        /\ (run' = run \/ run' = [NoRun EXCEPT !.pc = "waiting"])
    BY <1>4 DEF Evaluates, Applies
  <2> QED
    BY <1>1, <1>2, <2>1, RunOver
<1>5. CASE AppDies \/ RunFails \/ Reports
  <2>1. run' = NoRun /\ chain' = chain
    BY <1>5 DEF AppDies, RunFails, Reports, ReturnsRun
  <2> QED
    BY <1>1, <2>1, RunOver
<1>6. CASE OtherCrankerPays
  <2>1. UNCHANGED <<run, mirror>>
    BY <1>6 DEF OtherCrankerPays
  <2>2. CASE \E s \in Steps : Payable(s) /\ chain' = Paid(s)
    BY <2>1, <2>2, PaymentKeeps DEF Payable
  <2>3. CASE chain' = [chain EXCEPT !.st = "executing"] /\ chain.st = "active"
    <3>1. chain'.life = chain.life /\ chain'.paid = chain.paid
          /\ chain' \in [life : 1..Len(Plans), st : {"active", "executing", "executed", "none"},
                         paid : SUBSET {"spec", "sol", "tok", "finalize"}]
      BY <1>1, <2>3 DEF RunTypeOK
    <3>2. Steps' = Steps
      BY <3>1 DEF Steps
    <3>3. MirrorTruthful'
      BY <1>1, <2>1, <2>3, <3>1, <3>2 DEF MirrorTruthful
    <3> QED
      BY <1>1, <2>1, <3>1, <3>3 DEF MirrorInv, RunTypeOK
  <2> QED
    BY <1>6, <2>2, <2>3 DEF OtherCrankerPays
<1>7. CASE VaultEnds \/ Registers
  BY <1>7, LifeKeeps
<1>8. CASE FetchesConfig \/ BeginsExecution
  BY <1>8, BeginKeeps
<1>9. CASE \E s \in Steps : SkipsStep(s) \/ runStep(s) \/ StepReverts(s) \/ StepFails(s)
  BY <1>9, StepKeeps
<1> QED
  BY <1>3, <1>4, <1>5, <1>6, <1>7, <1>8, <1>9 DEF Next, Services, Run

\* The phone starts without a run.
LEMMA MirrorInit == Init => MirrorInv
<1> SUFFICES ASSUME Init PROVE MirrorInv
  OBVIOUS
<1>1. chain = [life |-> 1, st |-> "active", paid |-> {}] /\ run = NoRun
  BY DEF Init
<1>2. 1 \in 1..Len(Plans)
  BY EscalationAssumption
<1>3. run.pc = "off" /\ run.life = 0
      /\ run \in [pc : {"off", "waiting", "begin", "steps"}, life : Nat, left : {run.left},
                  reverted : {run.reverted}]
  BY <1>1 DEF NoRun
<1>4. chain.life = 1
      /\ chain \in [life : 1..Len(Plans), st : {"active", "executing", "executed", "none"},
                    paid : SUBSET {"spec", "sol", "tok", "finalize"}]
  BY <1>1, <1>2
<1>5. run.life <= chain.life
  BY <1>3, <1>4
<1> QED
  BY <1>3, <1>4, <1>5 DEF MirrorInv, RunTypeOK, MirrorTruthful

------------------------------------------------------------------------------
(* The theorems.                                                           *)

(***************************************************************************)
(* Whatever evaluations of replaced services are still under way, they are *)
(* older than the current one, and none is left that would lower the stage *)
(* at which the loop was stopped (EscalationService, useHeartbeat).        *)
(***************************************************************************)
THEOREM ServicesOrdered == EscalationSpec => []ServiceInv
<1>1. ServiceInv /\ [Next]_vars => ServiceInv'
  BY ServiceStep
<1> QED
  BY <1>1, ServiceInit, PTL DEF EscalationSpec

(***************************************************************************)
(* The heartbeat button never leaves the dashboard without a loop, unless  *)
(* stage 4 stands, for any stages and any number of replaced services that *)
(* linger (handleHeartbeat, resetEscalation, loadVaultState).              *)
(***************************************************************************)
THEOREM MonitoringKept == EscalationSpec => []TapKeepsMonitoring
<1>1. ServiceInv => TapKeepsMonitoring
  BY DEF ServiceInv, StoppedAtFour, TapKeepsMonitoring
<1> QED
  BY <1>1, ServicesOrdered, PTL

(***************************************************************************)
(* The mirror of a run is ahead of the chain by the steps of that run at   *)
(* most whose transactions have landed and failed, for any plans, any      *)
(* number of such transactions and any number of vaults that the owner has *)
(* one after the other (buildMirror, markDone).                            *)
(***************************************************************************)
THEOREM MirrorAheadByReverts == EscalationSpec => []MirrorTruthful
<1>1. MirrorInv /\ [Next]_vars => MirrorInv'
  BY MirrorStep
<1>2. MirrorInv => MirrorTruthful
  BY DEF MirrorInv
<1> QED
  BY <1>1, <1>2, MirrorInit, PTL DEF EscalationSpec

===============================================================================
