------------------------------ MODULE Escalation ------------------------------
(***************************************************************************)
(* The phone's own dead man's switch: the local heartbeat history          *)
(* (HeartbeatService, heartbeatRepo), the escalation loop                  *)
(* (EscalationService, useEscalationStore), the hook and the dashboard     *)
(* that create, replace and feed it (useHeartbeat, DashboardScreen), and   *)
(* the execution run that stage 4 starts, with its progress mirror         *)
(* (ExecutionService, executionRepo).                                      *)
(*                                                                         *)
(* Heartbeats are kept as ages.  An age stops at MaxAge, the first at      *)
(* which both the phone and the chain hold the owner dead, so that the     *)
(* clock needs no other bound.  An evaluation reads the history, waits for *)
(* the database and acts; a service that the hook has replaced still       *)
(* finishes the evaluation that it had begun.                              *)
(***************************************************************************)
EXTENDS Integers, Sequences, FiniteSets

CONSTANTS
    Interval,     \* heartbeat interval
    StageEnds,    \* overdue time at which stages 1, 2 and 3 end
    Plans,        \* per vault of this owner: what it distributes
    MaxStale,     \* evaluations of replaced services that are under way
    MaxRare,      \* failed calls, lost confirmations, deaths of the app, new vaults
    MaxReverted   \* transactions of a run that land and fail

Grace == StageEnds[3]

ASSUME EscalationAssumption ==
    /\ {Interval, MaxStale, MaxRare, MaxReverted} \subseteq Nat
    /\ StageEnds \in [1..3 -> Nat \ {0}]
    /\ StageEnds[1] < StageEnds[2] /\ StageEnds[2] < StageEnds[3]
    /\ Plans \in Seq(SUBSET {"spec", "sol", "tok"}) /\ Len(Plans) > 0

VARIABLES
    beat,         \* age of the last row of heartbeat_history, or NoBeat
    proof,        \* age of the heartbeat on chain
    chain,        \* the vault: which one, its status, the steps that are paid
    config,       \* does the vault store hold a configuration
    store,        \* the escalation store
    cur,          \* the escalation service of the hook, or NoService
    stale,        \* replaced services with an evaluation under way
    tap,          \* how far the heartbeat button's handler has come
    run,          \* the execution run behind globalExecutionInProgress
    mirror,       \* the rows of execution_steps that say completed
    rare

vars == <<beat, proof, chain, config, store, cur, stale, tap, run, mirror, rare>>

NoBeat == -1
Idle == -2           \* no evaluation under way
NoService == [stage |-> -1, loop |-> FALSE, seen |-> Idle]
NoRun == [pc |-> "off", life |-> 0, left |-> << >>, reverted |-> {}]
MaxAge == Interval + Grace + 1
Rare == rare < MaxRare /\ rare' = rare + 1

------------------------------------------------------------------------------
(* The escalation service.                                                 *)

\* Overdue by how much, 0 when not.
secondsOverdue(age) == IF age > Interval THEN age - Interval ELSE 0

calculateStage(overdue) ==
    IF overdue = 0 THEN 0 ELSE 1 + Cardinality({k \in 1..3 : StageEnds[k] <= overdue})

\* What an evaluation will make of the newest row of the history.
getStatus(age) == IF age = NoBeat THEN NoBeat ELSE calculateStage(secondsOverdue(age))

initialState == [stage |-> 0, started |-> FALSE]

\* Mutant: the stage of the store is not restored.
FreshService(st, age) == [stage |-> 0, loop |-> TRUE, seen |-> getStatus(age)]

\* The constructor and start, which evaluates at once: it asks the history.
NewService(st, age) == [stage |-> st.stage, loop |-> TRUE, seen |-> getStatus(age)]

\* Stopped, but an evaluation goes on.
Replaced == stale \cup {[s EXCEPT !.loop = FALSE] : s \in {t \in {cur} : t.seen # Idle}}

\* A service is replaced while at most MaxStale older evaluations linger.
Room == Cardinality(Replaced) <= MaxStale

Unread(s) == [s EXCEPT !.seen = Idle]

transitionTo(s, n) ==
    [svc |-> [Unread(s) EXCEPT !.stage = n, !.loop = s.loop /\ n # 4],
     store |-> [stage |-> n, started |-> store.started \/ n = 4],
     fires |-> n = 4 /\ ~store.started]

resetEscalation(s) ==
    [svc |-> [Unread(s) EXCEPT !.stage = 0], store |-> initialState, fires |-> FALSE]

\* What the rest of evaluate does with the status that s has read.
evaluate(s) ==
    IF s.seen \in {NoBeat, s.stage}
    THEN [svc |-> Unread(s), store |-> store, fires |-> FALSE]
    ELSE IF s.seen = 0 THEN resetEscalation(s) ELSE transitionTo(s, s.seen)

\* The timer of the loop; getLastHeartbeat answers with the newest row.
LoopTicks ==
    /\ cur.loop /\ cur.seen = Idle
    /\ cur' = [cur EXCEPT !.seen = getStatus(beat)]
    /\ UNCHANGED <<beat, proof, chain, config, store, stale, tap, run, mirror, rare>>

Holding(s) == s.seen # Idle

\* The callback: a second run finds globalExecutionInProgress and returns.
Applies(out) ==
    /\ store' = out.store
    /\ run' = IF out.fires /\ run = NoRun THEN [NoRun EXCEPT !.pc = "waiting"] ELSE run

Evaluates ==
    /\ \/ /\ Holding(cur)
          /\ cur' = evaluate(cur).svc
          /\ Applies(evaluate(cur))
          /\ UNCHANGED stale
       \/ \E s \in {t \in stale : Holding(t)} :
             /\ stale' = stale \ {s}
             /\ Applies(evaluate(s))
             /\ UNCHANGED cur
    /\ UNCHANGED <<beat, proof, chain, config, tap, mirror, rare>>

------------------------------------------------------------------------------
(* The dashboard: the heartbeat button, the loading of the vault.          *)

getOnChainDeadline == Interval + Grace       \* as an age of the heartbeat
Due == proof > getOnChainDeadline

confirmHeartbeat ==
    /\ tap = "idle" /\ cur # NoService
    /\ beat' = 0
    /\ tap' = "recorded"
    /\ UNCHANGED <<proof, chain, config, store, cur, stale, run, mirror, rare>>

\* The reset hits the service that the hook holds now.
TapResets ==
    /\ tap = "recorded"
    /\ store' = initialState
    /\ cur' = IF cur = NoService THEN cur ELSE [cur EXCEPT !.stage = 0]
    /\ tap' = "sending"
    /\ UNCHANGED <<beat, proof, chain, config, stale, run, mirror, rare>>

\* The heartbeat on chain, signed by the agent; a failure is only shown.
recordHeartbeatOnChain ==
    /\ tap = "sending"
    /\ \/ /\ chain.st = "active" /\ ~Due
          /\ proof' = 0
          /\ UNCHANGED rare
       \/ /\ (chain.st = "active" /\ ~Due) => Rare
          /\ (chain.st # "active" \/ Due) => UNCHANGED rare
          /\ UNCHANGED proof
    /\ tap' = "loading"
    /\ UNCHANGED <<beat, chain, config, store, cur, stale, run, mirror>>

\* Mutant: a configuration that has not changed does not re-run the effect.
HookKeeps(active, st) ==
    /\ cur' = IF ~active THEN NoService ELSE IF cur = NoService THEN NewService(st, beat') ELSE cur
    /\ stale' = IF active THEN stale ELSE Replaced

\* A new configuration object re-runs the effect of the hook.
Hook(active, st) ==
    /\ cur' = IF active THEN NewService(st, beat') ELSE NoService
    /\ stale' = Replaced

LoadsVault ==
    /\ chain.st # "none"
    /\ config' = TRUE
    /\ store' = IF chain.st = "executed" THEN initialState ELSE store
    /\ Hook(chain.st # "executed", store')
    /\ UNCHANGED rare

\* No vault, or a read that failed: both give null.
LoadsNothing ==
    /\ chain.st # "none" => Rare
    /\ chain.st = "none" => UNCHANGED rare
    /\ config' = FALSE
    /\ store' = IF config /\ store.started THEN initialState ELSE store
    /\ Hook(FALSE, store')

\* On focus, on refresh, and at the end of the heartbeat button's handler.
loadVaultState ==
    /\ Room /\ UNCHANGED beat
    /\ LoadsVault \/ LoadsNothing
    /\ tap' = IF tap = "loading" THEN "idle" ELSE tap
    /\ UNCHANGED <<proof, chain, run, mirror>>

AppDies ==
    /\ Rare
    /\ store' = initialState /\ config' = FALSE
    /\ cur' = NoService /\ stale' = {}
    /\ tap' = "idle" /\ run' = NoRun
    /\ UNCHANGED <<beat, proof, chain, mirror>>

------------------------------------------------------------------------------
(* The vault on chain, the owner's other screens, other crankers.          *)

\* "tok" stands for the shares of a mint and the closing of its distribution.
Steps == Plans[chain.life] \cup {"finalize"}

\* The masks of the ExecutionLog, the AssetPlan and the TokenDists.
Unpaid == Steps \ chain.paid

\* What the program asks of a step.
Payable(s) ==
    /\ s \in Unpaid
    /\ chain.st \in {"executing", "executed"}
    /\ s = "finalize" => Steps \cap {"spec", "sol"} \subseteq chain.paid

Paid(s) ==
    [chain EXCEPT !.paid = @ \cup {s}, !.st = IF s = "finalize" THEN "executed" ELSE @]

OtherCrankerPays ==
    /\ \/ /\ chain.st = "active" /\ Due
          /\ chain' = [chain EXCEPT !.st = "executing"]
       \/ \E s \in Steps : Payable(s) /\ chain' = Paid(s)
    /\ UNCHANGED <<beat, proof, config, store, cur, stale, tap, run, mirror, rare>>

\* A revocation before the deadline, the owner's close after the execution.
\* The phone clears its store also when the transaction landed and failed.
VaultEnds ==
    /\ tap = "idle" /\ Room /\ UNCHANGED beat
    /\ chain.st = "active" => ~Due
    /\ chain.st \in {"active", "executed"}
    /\ \/ /\ chain' = [chain EXCEPT !.st = "none", !.paid = {}]
          /\ proof' = 0
          /\ UNCHANGED rare
       \/ Rare /\ UNCHANGED <<chain, proof>>
    /\ config' = FALSE
    /\ store' = initialState
    /\ Hook(cur # NoService, store')
    /\ UNCHANGED <<tap, run, mirror>>

\* EstateReview: the history starts anew with the vault.
Registers ==
    /\ tap = "idle" /\ Room /\ Rare
    /\ chain.st = "none" /\ chain.life < Len(Plans)
    /\ chain' = [life |-> chain.life + 1, st |-> "active", paid |-> {}]
    /\ beat' = 0 /\ proof' = 0
    /\ config' = TRUE
    /\ store' = initialState
    /\ Hook(cur # NoService, store')
    /\ UNCHANGED <<tap, run, mirror>>

Older(age) == IF age = NoBeat \/ age = MaxAge THEN age ELSE age + 1

\* The unit of time is long against a read of the local database and the
\* transactions of a run, though not against its wait for the deadline.
TimePasses ==
    /\ run.pc \in {"off", "waiting"}
    /\ \A s \in {cur} \cup stale : ~Holding(s)
    /\ beat' = Older(beat)
    /\ proof' = IF chain.st = "none" THEN proof ELSE Older(proof)
    /\ UNCHANGED <<chain, config, store, cur, stale, tap, run, mirror, rare>>

------------------------------------------------------------------------------
(* The execution run.                                                      *)

ReturnsRun == run' = NoRun
clearExecutionSteps == {}

\* waitForOnChainDeadline gives up after two minutes: whatever the deadline
\* is, the run goes on and reads the vault.
FetchesConfig ==
    /\ run.pc = "waiting"
    /\ \/ /\ chain.st # "none"
          /\ run' = [run EXCEPT !.pc = "begin", !.life = chain.life]
          /\ mirror' = IF chain.st = "executed" THEN mirror ELSE clearExecutionSteps
          /\ UNCHANGED rare
       \/ /\ chain.st # "none" => Rare
          /\ chain.st = "none" => UNCHANGED rare
          /\ ReturnsRun
          /\ UNCHANGED mirror
    /\ UNCHANGED <<beat, proof, chain, config, store, cur, stale, tap>>

\* Mutant: a row that exists is kept.
KeepsRows(rows) == mirror

\* INSERT OR REPLACE, as pending.
saveExecutionStep(rows) == mirror \ rows

buildMirror == saveExecutionStep(Steps)

Order == << "spec", "sol", "finalize", "tok" >>

BeginsExecution ==
    /\ run.pc = "begin" /\ chain.st # "none"
    /\ chain.st = "active" => Due
    /\ chain' = [chain EXCEPT !.st = IF @ = "active" THEN "executing" ELSE @]
    /\ mirror' = buildMirror
    /\ run' = [run EXCEPT !.pc = "steps", !.left = SelectSeq(Order, LAMBDA s : s \in Steps)]
    /\ UNCHANGED <<beat, proof, config, store, cur, stale, tap, rare>>

\* Thrown out of the run; the catch notifies and the lock is freed.
RunFails ==
    /\ run.pc \in {"begin", "steps"}
    /\ IF run.pc = "begin" /\ (chain.st = "none" \/ (chain.st = "active" /\ ~Due))
       THEN UNCHANGED rare ELSE Rare
    /\ ReturnsRun
    /\ UNCHANGED <<beat, proof, chain, config, store, cur, stale, tap, mirror>>

At(s) == run.pc = "steps" /\ run.left # << >> /\ Head(run.left) = s
Advances == run' = [run EXCEPT !.left = Tail(@)]
markDone(s) == mirror' = mirror \cup {s}

\* Paid by somebody already, or not yet payable: only a bequest is marked.
SkipsStep(s) ==
    /\ At(s) /\ ~Payable(s)
    /\ IF s = "spec" /\ s \notin Unpaid THEN markDone(s) ELSE UNCHANGED mirror
    /\ Advances
    /\ UNCHANGED <<beat, proof, chain, config, store, cur, stale, tap, rare>>

\* confirmTransaction resolves for a transaction that landed, failed or not;
\* sendWithPayer does not look at its error.
runStep(s) ==
    /\ At(s) /\ Payable(s)
    /\ chain' = Paid(s)
    /\ markDone(s)
    /\ Advances
    /\ UNCHANGED <<beat, proof, config, store, cur, stale, tap, rare>>

\* Sound in its preflight, failed as it landed (somebody else was faster, an
\* issuer has paused the mint): marked and passed over like a paid one.
StepReverts(s) ==
    /\ At(s)
    /\ markDone(s)
    /\ \/ s \notin Unpaid /\ Advances
       \/ /\ Payable(s) /\ Cardinality(run.reverted) < MaxReverted
          /\ run' = [run EXCEPT !.left = Tail(@), !.reverted = @ \cup {s}]
    /\ UNCHANGED <<beat, proof, chain, config, store, cur, stale, tap, rare>>

\* The transaction failed in its preflight, or its confirmation is lost.  A
\* bequest and a token share mark their mint stuck, the rest ends the run.
StepFails(s) ==
    /\ At(s) /\ Payable(s) /\ Rare
    /\ chain' \in {chain, Paid(s)}
    /\ IF s \in {"sol", "finalize"} THEN ReturnsRun
       ELSE Advances
    /\ UNCHANGED <<beat, proof, config, store, cur, stale, tap, mirror>>

\* The dashboard drops its vault when the run has finalised it.
Reports ==
    /\ run.pc = "steps" /\ run.left = << >>
    /\ ReturnsRun
    /\ UNCHANGED beat
    /\ IF chain.st = "executed"
       THEN store' = initialState /\ Hook(FALSE, store')
       ELSE UNCHANGED <<store, cur, stale>>
    /\ UNCHANGED <<proof, chain, config, tap, mirror, rare>>

------------------------------------------------------------------------------
Init ==
    /\ beat \in {NoBeat, 0} /\ proof = 0
    /\ chain = [life |-> 1, st |-> "active", paid |-> {}]
    /\ config = FALSE /\ store = initialState
    /\ cur = NoService /\ stale = {}
    /\ tap = "idle" /\ run = NoRun
    /\ mirror = {}
    /\ rare = 0

Services == LoopTicks \/ Evaluates
Tap == confirmHeartbeat \/ TapResets \/ recordHeartbeatOnChain
Run ==
    \/ FetchesConfig \/ BeginsExecution \/ RunFails \/ Reports
    \/ \E s \in Steps : SkipsStep(s) \/ runStep(s) \/ StepReverts(s) \/ StepFails(s)

Next ==
    \/ Services \/ Tap \/ Run
    \/ loadVaultState \/ AppDies
    \/ OtherCrankerPays \/ VaultEnds \/ Registers \/ TimePasses

EscalationSpec == Init /\ [][Next]_vars

\* The timer and the local database answer, and the owner comes back to the
\* dashboard, which loads the vault.
EscalationFairSpec ==
    /\ EscalationSpec
    /\ WF_vars(LoopTicks) /\ WF_vars(Evaluates)
    /\ WF_vars(loadVaultState)

------------------------------------------------------------------------------
(* Properties.                                                             *)

\* Of the vault that a run works on, a step that the mirror shows as
\* completed is paid on chain, or its transaction landed in this very run and
\* failed, which the run does not notice.  Nothing else puts the table ahead
\* of the chain: not the rows of earlier vaults and runs, cut short or not
\* or misled by a failure of their own, nor a step skipped or thrown
\* (clearExecutionSteps, buildMirror, runStep, markDone).
MirrorTruthful ==
    (run.pc = "steps" /\ run.life = chain.life /\ chain.st # "none") =>
        Steps \cap mirror \subseteq chain.paid \cup run.reverted

\* Once the heartbeat button's handler is through, the dashboard has a loop
\* that evaluates, unless stage 4 has stopped it and still stands: the
\* reset does not restart the loop, the loading of the vault does.
TapKeepsMonitoring ==
    (tap = "idle" /\ cur # NoService /\ ~cur.loop) => store.stage = 4

\* An owner who stays within the interval, with a dashboard that shows the
\* vault, ends up without an alarm, also when an evaluation that began
\* before the tap, maybe of a replaced service, comes in after it.
AlarmClears ==
    <>[](secondsOverdue(beat) = 0 /\ cur # NoService) => <>[](store.stage = 0)

------------------------------------------------------------------------------
(* What the proofs carry through every step.                               *)

Stages == 0..4
Service == [stage : Stages, loop : BOOLEAN, seen : Stages \cup {NoBeat, Idle}]

ServiceTypeOK ==
    /\ beat \in Nat \cup {NoBeat}
    /\ store \in [stage : Stages, started : BOOLEAN]
    /\ cur \in Service \cup {NoService}
    /\ stale \in SUBSET Service

RunTypeOK ==
    /\ chain \in [life : 1..Len(Plans), st : {"active", "executing", "executed", "none"},
                  paid : SUBSET {"spec", "sol", "tok", "finalize"}]
    /\ run \in [pc : {"off", "waiting", "begin", "steps"}, life : Nat, left : {run.left},
                reverted : {run.reverted}]
    /\ run.life <= chain.life

\* Both have read, a before b: only a heartbeat can lie between the reads.
ReadBefore(a, b) == a = NoBeat \/ b = NoBeat \/ a >= b

\* The evaluations of replaced services are older than the current one, and
\* all are older than the history as it stands.
EvaluationsOrdered ==
    /\ Holding(cur) => ReadBefore(cur.seen, getStatus(beat))
    /\ \A s \in stale : Holding(s) =>
          /\ ReadBefore(s.seen, getStatus(beat))
          /\ Holding(cur) => ReadBefore(s.seen, cur.seen)

\* Once stage 4 has stopped the loop, no evaluation that is left would lower
\* the stage, unless the owner taps.
StoppedAtFour ==
    (tap = "idle" /\ cur # NoService /\ ~cur.loop) =>
        /\ store.stage = 4
        /\ cur.seen = Idle
        /\ \A s \in stale : Holding(s) => s.seen \in {4, NoBeat}

ServiceInv == ServiceTypeOK /\ EvaluationsOrdered /\ StoppedAtFour
MirrorInv == RunTypeOK /\ MirrorTruthful
===============================================================================
