---------------------------- MODULE PollerProofs ----------------------------
(***************************************************************************)
(* Proofs about the escalation poller: whatever jobs overlap, time out or  *)
(* are cut off, no alert is ahead of the chain, no registration of a live  *)
(* vault is forgotten, and no token probe clears a rejected push.          *)
(***************************************************************************)
EXTENDS Poller, TLAPS

------------------------------------------------------------------------------
(* Stages.                                                                 *)

\* computeStage answers with one of the five stages, and with the last one
\* exactly from the deadline on.
LEMMA StageRange ==
  ASSUME NEW elapsed \in Nat
  PROVE  /\ computeStage(elapsed) \in 0..4
         /\ computeStage(elapsed) = 4 => elapsed >= Interval + Grace
BY PollerAssumption DEF computeStage, StageOf, Grace

\* More silence is never a lower stage (computeStage).
LEMMA StageMonotone ==
  ASSUME NEW early \in Nat, NEW late \in Nat, early <= late
  PROVE  computeStage(early) <= computeStage(late)
BY PollerAssumption DEF computeStage, StageOf, Grace

------------------------------------------------------------------------------
(* Jobs.                                                                   *)

\* The fields of a job (processRegistration).
LEMMA JobFields ==
  ASSUME NEW x \in Job
  PROVE  /\ x # NoJob /\ x.elapsed \in Nat /\ x.stage \in 0..Complete
         /\ x.phase \in Phases /\ x.reg \in Row \cup {NoRow}
         /\ x.live \in BOOLEAN /\ x.stale \in BOOLEAN
         /\ x.kind \in PollKinds \cup {"execute-now"}
BY PollerAssumption DEF Job

\* Time and the vault's end do not make a job unsound (processRegistration
\* goes on with the clock of its tick).
LEMMA SoundLater ==
  ASSUME NEW x \in Job, NEW since \in Nat, NEW later \in Nat, since <= later,
         NEW vault, NEW nextVault, vault # "live" => nextVault # "live",
         NEW endpoint, NEW nextEndpoint,
         x.phase = "probing" /\ nextEndpoint = "good" => endpoint = "good",
         JobSound(x, since, vault, endpoint)
  PROVE  JobSound(x, later, nextVault, nextEndpoint)
<1> DEFINE stage == computeStage(since)
           next == computeStage(later)
<1>1. stage \in 0..4 /\ next \in 0..4 /\ stage <= next
  BY StageRange, StageMonotone
<1>2. x.elapsed \in Nat /\ x.stage \in 0..Complete
  BY JobFields
<1>3. x.elapsed <= later
  BY <1>2 DEF JobSound
<1>4. (x.stage # Complete /\ ~x.stale) => x.stage <= next
  <2> SUFFICES ASSUME x.stage # Complete, ~x.stale PROVE x.stage <= next
    OBVIOUS
  <2>1. x.stage <= stage
    BY DEF JobSound
  <2> HIDE DEF stage, next
  <2> QED
    BY <1>1, <1>2, <2>1 DEF Complete
<1> QED
  BY <1>3, <1>4 DEF JobSound

\* The step of one job, of which only that job hears: it ends, or goes on
\* soundly (withTimeout, processRegistration).
LEMMA OneJobSound ==
  ASSUME PollerTypeOK, JobsSound, NEW j \in Jobs,
         UNCHANGED <<silence, rpc>>, chain # "live" => chain' # "live",
         NEW y, jobs' = [jobs EXCEPT ![j] = y],
         y = NoJob \/ (y \in Job /\ JobSound(y, silence, chain', rpc))
  PROVE  JobsSound' /\ jobs' \in [Jobs -> Job \cup {NoJob}]
<1>1. jobs \in [Jobs -> Job \cup {NoJob}] /\ silence \in Nat
  BY DEF PollerTypeOK
<1>2. jobs' \in [Jobs -> Job \cup {NoJob}]
  BY <1>1
<1>3. ASSUME NEW i \in Jobs, jobs'[i] # NoJob
      PROVE  JobSound(jobs'[i], silence, chain', rpc)
  <2>1. CASE i = j
    BY <1>1, <1>3, <2>1
  <2>2. CASE i # j
    <3>1. jobs'[i] = jobs[i] /\ jobs[i] \in Job
      BY <1>1, <1>3, <2>2
    <3>2. JobSound(jobs[i], silence, chain, rpc)
      BY <1>3, <3>1 DEF JobsSound
    <3> QED
      BY <1>1, <3>1, <3>2, SoundLater
  <2> QED
    BY <2>1, <2>2
<1> QED
  BY <1>2, <1>3 DEF JobsSound

\* Nothing happens to the jobs while the world moves on (Tick, ChainMoves,
\* RpcChanges).
LEMMA WorldSound ==
  ASSUME PollerTypeOK, JobsSound, jobs' = jobs, silence' \in Nat, silence <= silence',
         chain # "live" => chain' # "live",
         \A j \in Jobs : At(j, "probing") /\ rpc' = "good" => rpc = "good"
  PROVE  JobsSound'
<1>1. jobs \in [Jobs -> Job \cup {NoJob}] /\ silence \in Nat
  BY DEF PollerTypeOK
<1>2. ASSUME NEW i \in Jobs, jobs[i] # NoJob
      PROVE  JobSound(jobs[i], silence', chain', rpc')
  <2>1. jobs[i] \in Job
    BY <1>1, <1>2
  <2>2. JobSound(jobs[i], silence, chain, rpc)
    BY <1>2 DEF JobsSound
  <2>3. jobs[i].phase = "probing" /\ rpc' = "good" => rpc = "good"
    BY <1>2 DEF At
  <2> QED
    BY <1>1, <2>1, <2>2, <2>3, SoundLater
<1> QED
  BY <1>2 DEF JobsSound

\* A job that changes none of what it knows stays sound (AcquireToken,
\* StartRegistration, withTimeout).
LEMMA SoundSameStage ==
  ASSUME NEW x \in Job, NEW since \in Nat, NEW vault, NEW endpoint,
         JobSound(x, since, vault, endpoint), NEW y \in Job,
         y.elapsed = x.elapsed \/ y.elapsed = 0,
         y.stage = x.stage, y.stale = x.stale,
         y.phase \notin Pushing => x.phase \notin Pushing,
         y.phase = "probing" => x.phase = "probing"
  PROVE  JobSound(y, since, vault, endpoint)
<1>1. y.elapsed <= since
  BY DEF JobSound
<1> QED
  BY <1>1 DEF JobSound

\* A job that turns to pushing a stage the silence has reached is sound
\* (ReadOverdue, the escalation after the executor).
LEMMA SoundPush ==
  ASSUME NEW x \in Job, NEW since \in Nat, NEW vault, NEW endpoint, NEW stage \in 0..Complete,
         JobSound(x, since, vault, endpoint),
         stage = Complete => vault # "live",
         (stage # Complete /\ ~x.stale) => stage <= computeStage(since),
         NEW phase \in Pushing, NEW reg \in Row \cup {NoRow},
         NEW y, y = [x EXCEPT !.phase = phase, !.stage = stage, !.elapsed = 0, !.reg = reg]
  PROVE  y \in Job /\ JobSound(y, since, vault, endpoint)
<1>1. y \in Job
  BY DEF Job, Phases
<1>2. y.elapsed = 0 /\ y.stage = stage /\ y.stale = x.stale /\ y.phase = phase
  BY DEF Job
<1>3. 0 <= since
  OBVIOUS
<1>4. phase # "probing"
  BY DEF Pushing
<1> QED
  BY <1>1, <1>2, <1>3, <1>4 DEF JobSound

------------------------------------------------------------------------------
(* Readiness.                                                              *)

\* The poll result keeps the counter within its threshold (recordPollResult).
LEMMA RecordType ==
  ASSUME NEW r \in ReadinessState, NEW ok \in BOOLEAN
  PROVE  recordPollResult(r, ok) \in ReadinessState
<1>1. r.failures \in 0..FailureThreshold /\ r.pollerReady \in BOOLEAN
      /\ r.networkVerified \in BOOLEAN
  BY DEF ReadinessState
<1>2. CASE ok
  <2>1. PICK ready \in BOOLEAN : ready = (r.pollerReady \/ r.networkVerified)
    OBVIOUS
  <2>2. recordPollResult(r, ok) = [r EXCEPT !.failures = 0, !.pollerReady = ready]
    BY <1>2, <2>1 DEF recordPollResult
  <2>3. 0 \in 0..FailureThreshold
    BY ReadinessAssumption
  <2> QED
    BY <2>2, <2>3 DEF ReadinessState
<1>3. CASE ~ok
  <2>1. PICK n \in 0..FailureThreshold :
          n = IF r.failures < FailureThreshold THEN r.failures + 1 ELSE r.failures
    BY <1>1, ReadinessAssumption
  <2>2. PICK ready \in BOOLEAN : ready = (r.pollerReady /\ n < FailureThreshold)
    OBVIOUS
  <2>3. recordPollResult(r, ok) = [r EXCEPT !.failures = n, !.pollerReady = ready]
    BY <1>3, <2>1, <2>2 DEF recordPollResult
  <2> QED
    BY <2>3 DEF ReadinessState
<1> QED
  BY <1>2, <1>3

\* What a job reports (the worker of pollOnce).
LEMMA ReportedType ==
  ASSUME PollerTypeOK, NEW j \in Jobs, NEW read
  PROVE  Reported(j, read) \in ReadinessState
<1>1. readiness \in ReadinessState
  BY DEF PollerTypeOK, ReadinessTypeOK
<1>2. PICK ok \in BOOLEAN : ok = isPollCycleHealthy(1, IF read THEN 0 ELSE 1)
  BY DEF isPollCycleHealthy
<1> QED
  BY <1>1, <1>2, RecordType DEF Reported

\* The monitor leaves a readiness state, and never restores a transport that
\* a push found rejected (probeFcm, refreshDependentReadiness).
LEMMA RefreshType ==
  ASSUME PollerTypeOK, RejectedNotReady, NEW state \in NetStates,
         NEW token \in BOOLEAN, NEW program \in BOOLEAN, NEW executor \in BOOLEAN,
         Refresh(state, token, program, executor)
  PROVE  ReadinessTypeOK' /\ RejectedNotReady' /\ (fcm.rejected => ~fcm'.ready)
<1>1. readiness \in ReadinessState /\ fcm \in [ready : BOOLEAN, rejected : BOOLEAN]
      /\ rpc \in RpcModes
  BY DEF PollerTypeOK, ReadinessTypeOK
<1>2. rpc' = rpc
  BY DEF Refresh
<1>3. CASE state = "VERIFIED"
  <2> DEFINE r == applyNet(readiness, state)
             p == setProgram(r, program)
  <2>1. r \in ReadinessState
    BY <1>1, <1>3 DEF applyNet, ReadinessState
  <2>2. p \in ReadinessState
    <3>1. PICK ready \in BOOLEAN : ready = (r.executorReady /\ program)
      OBVIOUS
    <3>2. p = [r EXCEPT !.programReady = program, !.executorReady = ready]
      BY <3>1 DEF setProgram
    <3> HIDE DEF r, p
    <3> QED
      BY <2>1, <3>2 DEF ReadinessState
  <2>3. PICK e \in BOOLEAN :
          e = (checkExecutorRuntime(executor) /\ p.networkVerified /\ p.programReady)
    OBVIOUS
  <2>4. readiness' = [[p EXCEPT !.executorReady = e] EXCEPT !.apiReady = TRUE]
    BY <1>3, <2>3 DEF Refresh, Refreshed, setExecutor
  <2>5. readiness' \in ReadinessState
    <3> HIDE DEF p
    <3> QED
      BY <2>2, <2>4 DEF ReadinessState
  <2>6. PICK ready \in BOOLEAN : ready = (token /\ ~fcm.rejected)
    OBVIOUS
  <2>7. fcm' = [fcm EXCEPT !.ready = ready]
    BY <1>3, <2>6 DEF Refresh, FcmProbed
  <2>8. fcm' \in [ready : BOOLEAN, rejected : BOOLEAN] /\ fcm'.ready = ready
        /\ fcm'.rejected = fcm.rejected
    BY <1>1, <2>7
  <2> QED
    BY <1>1, <1>2, <2>5, <2>6, <2>8 DEF ReadinessTypeOK, RejectedNotReady
<1>4. CASE state # "VERIFIED"
  <2>1. readiness' = [applyNet(readiness, state) EXCEPT !.apiReady = TRUE] /\ fcm' = fcm
    BY <1>4 DEF Refresh
  <2>2. readiness' \in ReadinessState
    BY <1>1, <1>4, <2>1 DEF applyNet, ReadinessState
  <2> QED
    BY <1>1, <1>2, <2>1, <2>2 DEF ReadinessTypeOK, RejectedNotReady
<1> QED
  BY <1>3, <1>4

------------------------------------------------------------------------------
(* What a step of one job does.                                            *)

VaultStates == {"live", "executed", "gone"}

\* Of the jobs, the step touches j alone, which ends or goes on soundly.
OnlyJob(j) ==
    /\ UNCHANGED <<silence, rpc>>
    /\ chain' \in VaultStates
    /\ chain # "live" => chain' # "live"
    /\ \E y \in Job \cup {NoJob} :
         /\ jobs' = [jobs EXCEPT ![j] = y]
         /\ y # NoJob => JobSound(y, silence, chain', rpc)

AnyStep(j) ==
    JobStep(j) \/ Timeout(j) \/ ExecuteNow(j) \/ \E kind \in PollKinds : StartPoll(j, kind)

\* A job that ends leaves nothing behind (the returns of processRegistration).
LEMMA Ends ==
  ASSUME PollerTypeOK, NEW j \in Jobs, End(j), UNCHANGED <<silence, rpc>>,
         chain' \in VaultStates, chain # "live" => chain' # "live"
  PROVE  OnlyJob(j)
BY DEF End, OnlyJob

\* A job that goes on (the awaits of processRegistration).
LEMMA GoesOn ==
  ASSUME NEW j \in Jobs, UNCHANGED <<silence, rpc>>,
         chain' \in VaultStates, chain # "live" => chain' # "live",
         NEW y \in Job, jobs' = [jobs EXCEPT ![j] = y], JobSound(y, silence, chain', rpc)
  PROVE  OnlyJob(j)
BY DEF OnlyJob

\* The job of a slot in use.
LEMMA JobAt ==
  ASSUME PollerTypeOK, JobsSound, NEW j \in Jobs, jobs[j] # NoJob
  PROVE  jobs[j] \in Job /\ JobSound(jobs[j], silence, chain, rpc)
BY DEF PollerTypeOK, JobsSound

\* The escalation announces a stage the silence has reached, or ends.
LEMMA EscalateStep ==
  ASSUME PollerTypeOK, JobsSound, NEW j \in Jobs, jobs[j] # NoJob,
         NEW stage \in 0..Complete, Escalate(j, stage), UNCHANGED <<silence, rpc>>,
         chain' \in VaultStates, chain # "live" => chain' # "live",
         stage = Complete => chain # "live",
         (stage # Complete /\ ~jobs[j].stale) => stage <= computeStage(silence)
  PROVE  OnlyJob(j) /\ (readiness' = readiness \/ \E read \in BOOLEAN : readiness' = Reported(j, read))
<1> DEFINE x == jobs[j]
           y == [x EXCEPT !.phase = "token", !.stage = stage, !.elapsed = 0, !.reg = NoRow]
<1>1. x \in Job /\ JobSound(x, silence, chain, rpc) /\ silence \in Nat
  BY JobAt DEF PollerTypeOK
<1>2. \/ \E read \in BOOLEAN : Return(j, read)
      \/ jobs' = [jobs EXCEPT ![j] = y] /\ UNCHANGED readiness
  BY DEF Escalate
<1>3. ASSUME NEW read \in BOOLEAN, Return(j, read)
      PROVE  OnlyJob(j) /\ \E ok \in BOOLEAN : readiness' = Reported(j, ok)
  <2>1. End(j) /\ readiness' = Reported(j, read)
    BY <1>3 DEF Return
  <2>2. OnlyJob(j)
    BY <2>1, Ends
  <2> QED
    BY <2>1, <2>2
<1>4. CASE jobs' = [jobs EXCEPT ![j] = y] /\ UNCHANGED readiness
  <2>0. "token" \in Pushing /\ NoRow \in Row \cup {NoRow}
    BY DEF Pushing
  <2>1. JobSound(x, silence, chain', rpc)
    BY <1>1, SoundLater
  <2>2. y \in Job /\ JobSound(y, silence, chain', rpc)
    <3> HIDE DEF x
    <3> QED
      BY <1>1, <2>0, <2>1, SoundPush DEF x
  <2> HIDE DEF y
  <2>3. OnlyJob(j)
    BY <1>4, <2>2, GoesOn
  <2> QED
    BY <1>4, <2>3
<1> QED
  BY <1>2, <1>3, <1>4

\* The ends of a job that report what it read.
LEMMA ReturnStep ==
  ASSUME PollerTypeOK, NEW j \in Jobs, NEW read, Return(j, read),
         UNCHANGED <<silence, rpc, chain>>
  PROVE  OnlyJob(j) /\ readiness' \in ReadinessState
<1>1. chain' \in VaultStates /\ (chain # "live" => chain' # "live")
  BY DEF PollerTypeOK, VaultStates
<1>2. End(j) /\ readiness' = Reported(j, read)
  BY DEF Return
<1>3. OnlyJob(j)
  BY <1>1, <1>2, Ends
<1> QED
  BY <1>2, <1>3, ReportedType

\* The steps that start a job (pollOnce, /poll-now, /execute-now).
LEMMA StartStep ==
  ASSUME PollerTypeOK, NEW j \in Jobs,
         ExecuteNow(j) \/ \E kind \in PollKinds : StartPoll(j, kind)
  PROVE  OnlyJob(j) /\ readiness' \in ReadinessState
<1>1. silence \in Nat /\ row \in Row \cup {NoRow} /\ readiness \in ReadinessState
      /\ UNCHANGED <<silence, rpc, chain, readiness>> /\ chain' \in VaultStates
  BY DEF PollerTypeOK, ReadinessTypeOK, StartPoll, ExecuteNow, quiet, VaultStates
<1>2. computeStage(silence) \in 0..4
  BY <1>1, StageRange
<1>3. ASSUME NEW kind \in PollKinds \cup {"execute-now"}, NEW phase \in {"cycle", "queued", "exec"},
             NEW reg \in Row \cup {NoRow}
      PROVE  job(kind, phase, reg) \in Job /\ JobSound(job(kind, phase, reg), silence, chain', rpc)
  <2> DEFINE y == job(kind, phase, reg)
  <2>1. PICK age \in Nat : age = (IF phase = "queued" THEN silence ELSE 0) /\ age <= silence
    BY <1>1
  <2>2. y = [kind |-> kind, phase |-> phase, reg |-> reg, live |-> TRUE,
             elapsed |-> age, stage |-> 0, stale |-> FALSE]
    BY <2>1 DEF job
  <2>3. 0 \in 0..Complete /\ phase \in Phases /\ 0 # Complete /\ phase # "probing"
    BY DEF Complete, Phases, Pushing
  <2>4. y \in Job
    BY <2>2, <2>3 DEF Job
  <2>5. y.elapsed <= silence /\ y.stage = 0 /\ y.phase = phase
    BY <2>1, <2>2
  <2>6. 0 <= computeStage(silence)
    BY <1>2
  <2> QED
    BY <2>3, <2>4, <2>5, <2>6 DEF JobSound
<1>4. ASSUME NEW kind \in PollKinds, StartPoll(j, kind)
      PROVE  OnlyJob(j)
  <2> DEFINE y == job(kind, IF row = NoRow THEN "cycle" ELSE "queued", row)
  <2>1. jobs' = [jobs EXCEPT ![j] = y]
    BY <1>4 DEF StartPoll
  <2>2. y \in Job /\ JobSound(y, silence, chain', rpc)
    BY <1>1, <1>3
  <2> HIDE DEF y
  <2> QED
    BY <1>1, <2>1, <2>2, GoesOn
<1>5. CASE ExecuteNow(j)
  <2> DEFINE y == job("execute-now", "exec", NoRow)
  <2>1. jobs' = [jobs EXCEPT ![j] = y]
    BY <1>5 DEF ExecuteNow
  <2>2. y \in Job /\ JobSound(y, silence, chain', rpc)
    BY <1>3
  <2> HIDE DEF y
  <2> QED
    BY <1>1, <2>1, <2>2, GoesOn
<1> QED
  BY <1>1, <1>4, <1>5

\* The timeout leaves the job running with its live flag cleared
\* (withTimeout).
LEMMA TimeoutStep ==
  ASSUME PollerTypeOK, JobsSound, NEW j \in Jobs, Timeout(j)
  PROVE  OnlyJob(j) /\ readiness' \in ReadinessState
<1>1. UNCHANGED <<silence, rpc, chain>> /\ chain' \in VaultStates /\ jobs[j] # NoJob
      /\ readiness' = Reported(j, FALSE) /\ silence \in Nat
  BY DEF PollerTypeOK, Timeout, quiet, VaultStates
<1>2. readiness' \in ReadinessState
  BY <1>1, ReportedType
<1>3. jobs[j] \in Job /\ JobSound(jobs[j], silence, chain, rpc)
  BY <1>1, JobAt
<1>4. CASE jobs[j].phase = "cycle"
  <2>1. End(j)
    BY <1>4 DEF Timeout, End
  <2> QED
    BY <1>1, <1>2, <2>1, Ends
<1>5. CASE jobs[j].phase = "reading"
  <2> DEFINE y == [jobs[j] EXCEPT !.live = FALSE, !.elapsed = 0, !.reg = NoRow]
  <2>1. jobs' = [jobs EXCEPT ![j] = y]
    BY <1>5 DEF Timeout
  <2>2. y \in Job /\ y.elapsed = 0 /\ y.stage = jobs[j].stage /\ y.stale = jobs[j].stale
        /\ y.phase = jobs[j].phase
    BY <1>3 DEF Job
  <2> HIDE DEF y
  <2>3. JobSound(y, silence, chain, rpc)
    BY <1>1, <1>3, <2>2, SoundSameStage
  <2> QED
    BY <1>1, <1>2, <2>1, <2>2, <2>3, GoesOn
<1>6. CASE jobs[j].phase \notin {"cycle", "reading"}
  <2> DEFINE y == [jobs[j] EXCEPT !.live = FALSE]
  <2>1. jobs' = [jobs EXCEPT ![j] = y]
    BY <1>6 DEF Timeout
  <2>2. y \in Job /\ y.elapsed = jobs[j].elapsed /\ y.stage = jobs[j].stage
        /\ y.stale = jobs[j].stale /\ y.phase = jobs[j].phase
    BY <1>3 DEF Job
  <2> HIDE DEF y
  <2>3. JobSound(y, silence, chain, rpc)
    BY <1>1, <1>3, <2>2, SoundSameStage
  <2> QED
    BY <1>1, <1>2, <2>1, <2>2, <2>3, GoesOn
<1> QED
  BY <1>4, <1>5, <1>6

\* The answers of the endpoint: it shows an executed vault only when the
\* vault is executed, and a vault gone only when it is or the endpoint is bad
\* (readVaultState).
LEMMA ReadingsTrue ==
  ASSUME PollerTypeOK
  PROVE  /\ "executed" \in Readings => chain = "executed"
         /\ "gone" \in Readings /\ rpc = "good" => chain = "gone"
<1>1. rpc \in {"good", "pruned", "wrong", "down"}
  BY ReadinessAssumption DEF PollerTypeOK, ReadinessTypeOK
<1>2. CASE rpc = "good"
  BY <1>2 DEF Readings
<1>3. CASE rpc = "pruned"
  BY <1>3 DEF Readings
<1>4. CASE rpc = "wrong"
  BY <1>4 DEF Readings
<1>5. CASE rpc = "down"
  BY <1>5 DEF Readings
<1> QED
  BY <1>1, <1>2, <1>3, <1>4, <1>5

\* The reads of a job that find the vault missing or executed.
LEMMA OverStep ==
  ASSUME PollerTypeOK, JobsSound, NEW j \in Jobs, ReadMissing(j) \/ ReadExecuted(j)
  PROVE  OnlyJob(j) /\ readiness' \in ReadinessState
<1>1. UNCHANGED <<silence, rpc, chain>> /\ chain' \in VaultStates /\ jobs[j] # NoJob
      /\ jobs[j].phase = "reading" /\ silence \in Nat /\ readiness \in ReadinessState
  BY DEF PollerTypeOK, ReadinessTypeOK, ReadMissing, ReadExecuted, At, quiet, VaultStates
<1>2. jobs[j] \in Job /\ JobSound(jobs[j], silence, chain, rpc)
  BY <1>1, JobAt
<1>3. jobs[j].stage = 0 /\ 0 <= silence
  BY <1>1, <1>2 DEF JobSound, Pushing
<1>4. CASE ReadMissing(j)
  <2> DEFINE y == [jobs[j] EXCEPT !.phase = "probing", !.elapsed = 0, !.reg = NoRow]
  <2>1. jobs' = [jobs EXCEPT ![j] = y] /\ readiness' = readiness /\ "gone" \in Readings
    BY <1>4 DEF ReadMissing
  <2>2. y \in Job /\ y.elapsed = 0 /\ y.stage = 0 /\ y.stale = jobs[j].stale
    BY <1>2, <1>3 DEF Job, Phases
  <2>3. rpc = "good" => chain # "live"
    BY <2>1, ReadingsTrue
  <2> HIDE DEF y
  <2>4. JobSound(y, silence, chain, rpc)
    BY <1>2, <1>3, <2>2, <2>3 DEF JobSound, Complete
  <2> QED
    BY <1>1, <2>1, <2>2, <2>4, GoesOn
<1>5. CASE ReadExecuted(j)
  <2>1. chain = "executed"
    BY <1>5, ReadingsTrue DEF ReadExecuted
  <2>2. CASE jobs[j].reg.last_stage = 4 /\ ~FcmWaived
    <3> DEFINE x == jobs[j]
               y == [x EXCEPT !.phase = "token", !.stage = Complete,
                              !.elapsed = 0, !.reg = NoRow]
    <3>1. jobs' = [jobs EXCEPT ![j] = y] /\ readiness' = readiness
      BY <1>5, <2>2 DEF ReadExecuted
    <3>2. "token" \in Pushing /\ NoRow \in Row \cup {NoRow} /\ Complete \in 0..Complete
      BY DEF Pushing, Complete
    <3>3. PICK stage \in 0..Complete : stage = Complete
      BY <3>2
    <3> DEFINE z == [x EXCEPT !.phase = "token", !.stage = stage, !.elapsed = 0, !.reg = NoRow]
    <3>4. y = z
      BY <3>3
    <3>5. (stage # Complete /\ ~x.stale) => stage <= computeStage(silence)
      BY <3>3
    <3>6. chain # "live" /\ silence \in Nat
      BY <1>1, <2>1
    <3>7. x \in Job /\ JobSound(x, silence, chain, rpc)
      BY <1>2
    <3> HIDE DEF x
    <3>8. z \in Job /\ JobSound(z, silence, chain, rpc)
      BY <3>2, <3>5, <3>6, <3>7, SoundPush
    <3> HIDE DEF y, z
    <3> QED
      BY <1>1, <3>1, <3>4, <3>8, GoesOn
  <2>3. CASE ~(jobs[j].reg.last_stage = 4 /\ ~FcmWaived)
    <3>1. Return(j, TRUE)
      BY <1>5, <2>3 DEF ReadExecuted
    <3> QED
      BY <1>1, <3>1, ReturnStep
  <2> QED
    BY <2>2, <2>3
<1> QED
  BY <1>4, <1>5

\* The read of an overdue vault, which starts the executor or escalates.
LEMMA OverdueStep ==
  ASSUME PollerTypeOK, JobsSound, NEW j \in Jobs, ReadOverdue(j)
  PROVE  OnlyJob(j) /\ readiness' \in ReadinessState
<1>1. UNCHANGED <<silence, rpc, chain>> /\ chain' \in VaultStates /\ jobs[j] # NoJob
      /\ silence \in Nat /\ readiness \in ReadinessState
  BY DEF PollerTypeOK, ReadinessTypeOK, ReadOverdue, Reading, At, quiet, VaultStates
<1>2. jobs[j] \in Job /\ JobSound(jobs[j], silence, chain, rpc)
  BY <1>1, JobAt
<1>3. jobs[j].elapsed \in Nat /\ jobs[j].elapsed <= silence
      /\ jobs[j].reg \in Row \cup {NoRow}
  BY <1>2, JobFields DEF JobSound
<1> DEFINE stage == computeStage(jobs[j].elapsed)
<1>4. stage \in 0..4 /\ stage <= computeStage(silence)
  BY <1>1, <1>3, StageRange, StageMonotone
<1>5. stage \in 0..Complete /\ stage # Complete
  <2> HIDE DEF stage
  <2> QED
    BY <1>4 DEF Complete
<1>6. CASE stage = 4 /\ readiness.executorReady /\ ~inFlight
  <2> DEFINE y == [jobs[j] EXCEPT !.phase = "exec", !.stage = stage, !.elapsed = 0]
             z == [jobs[j] EXCEPT !.phase = "exec", !.stage = stage, !.elapsed = 0,
                                  !.reg = jobs[j].reg]
  <2>1. jobs' = [jobs EXCEPT ![j] = y] /\ readiness' = readiness
    BY <1>6 DEF ReadOverdue
  <2>2. "exec" \in Pushing
    BY DEF Pushing
  <2> HIDE DEF stage
  <2>3. y = z
    BY <1>2 DEF Job
  <2>4. z \in Job /\ JobSound(z, silence, chain, rpc)
    BY <1>1, <1>2, <1>3, <1>4, <1>5, <2>2, SoundPush
  <2> HIDE DEF y, z
  <2> QED
    BY <1>1, <2>1, <2>3, <2>4, GoesOn
<1>7. CASE ~(stage = 4 /\ readiness.executorReady /\ ~inFlight)
  <2>1. Escalate(j, stage)
    BY <1>7 DEF ReadOverdue
  <2> HIDE DEF stage
  <2>2. OnlyJob(j)
        /\ (readiness' = readiness \/ \E read \in BOOLEAN : readiness' = Reported(j, read))
    BY <1>1, <1>4, <1>5, <2>1, EscalateStep
  <2> QED
    BY <1>1, <2>2, ReportedType
<1> QED
  BY <1>6, <1>7

\* The executor ends (runExecutor): it moves the chain forward or not.
LEMMA ExecutorStep ==
  ASSUME PollerTypeOK, JobsSound, NEW j \in Jobs, NEW executes \in BOOLEAN,
         RunExecutor(j, executes)
  PROVE  OnlyJob(j) /\ readiness' \in ReadinessState
<1>1. UNCHANGED <<silence, rpc>> /\ chain' \in VaultStates /\ jobs[j] # NoJob
      /\ (chain # "live" => chain' # "live") /\ readiness \in ReadinessState
  BY DEF PollerTypeOK, ReadinessTypeOK, RunExecutor, At, quiet, VaultStates
<1>2. jobs[j] \in Job /\ JobSound(jobs[j], silence, chain, rpc)
  BY <1>1, JobAt
<1>3. jobs[j].stage \in 0..Complete
  BY <1>2, JobFields
<1>4. CASE jobs[j].kind = "execute-now"
  <2>1. End(j) /\ readiness' = readiness
    BY <1>4 DEF RunExecutor
  <2> QED
    BY <1>1, <2>1, Ends
<1>5. CASE jobs[j].kind # "execute-now"
  <2>1. Escalate(j, jobs[j].stage)
    BY <1>5 DEF RunExecutor
  <2>2. OnlyJob(j)
        /\ (readiness' = readiness \/ \E read \in BOOLEAN : readiness' = Reported(j, read))
    BY <1>1, <1>2, <1>3, <2>1, EscalateStep DEF JobSound
  <2> QED
    BY <1>1, <2>2, ReportedType
<1> QED
  BY <1>4, <1>5

\* The last phases of a job: the probe for a missing vault and the push
\* (sendPush).
LEMMA PushStep ==
  ASSUME PollerTypeOK, JobsSound, NEW j \in Jobs,
         \/ AcquireToken(j) \/ SuppressPush(j) \/ PushFails(j)
         \/ PushAccepted(j) \/ PushUnanswered(j) \/ PushUnregistered(j) \/ PushRefused(j)
         \/ ConfirmMissing(j)
  PROVE  OnlyJob(j) /\ readiness' \in ReadinessState
<1>1. UNCHANGED <<silence, rpc, chain>> /\ chain' \in VaultStates /\ jobs[j] # NoJob
      /\ silence \in Nat /\ readiness \in ReadinessState
  BY DEF PollerTypeOK, ReadinessTypeOK, AcquireToken, SuppressPush, PushFails, PushAccepted,
         PushUnanswered, PushUnregistered, PushRefused, ConfirmMissing, At, quiet, VaultStates
<1>2. jobs[j] \in Job /\ JobSound(jobs[j], silence, chain, rpc)
  BY <1>1, JobAt
<1>3. ASSUME NEW read, Return(j, read) PROVE OnlyJob(j) /\ readiness' \in ReadinessState
  BY <1>1, <1>3, ReturnStep
<1>4. CASE AcquireToken(j)
  <2> DEFINE y == [jobs[j] EXCEPT !.phase = "fcm"]
  <2>1. jobs' = [jobs EXCEPT ![j] = y] /\ readiness' = readiness /\ jobs[j].phase = "token"
    BY <1>4 DEF AcquireToken, Goto, At
  <2>2. y \in Job /\ y.elapsed = jobs[j].elapsed /\ y.stage = jobs[j].stage
        /\ y.stale = jobs[j].stale /\ y.phase = "fcm" /\ "fcm" \in Pushing
    BY <1>2 DEF Job, Phases, Pushing
  <2> HIDE DEF y
  <2>3. JobSound(y, silence, chain, rpc)
    BY <1>1, <1>2, <2>2, SoundSameStage
  <2> QED
    BY <1>1, <2>1, <2>2, <2>3, GoesOn
<1>5. CASE SuppressPush(j)
  BY <1>3, <1>5 DEF SuppressPush
<1>6. CASE PushFails(j) \/ PushAccepted(j) \/ PushUnanswered(j) \/ PushUnregistered(j)
           \/ PushRefused(j)
  BY <1>3, <1>6 DEF PushFails, PushAccepted, PushUnanswered, PushUnregistered, PushRefused
<1>7. CASE ConfirmMissing(j)
  BY <1>3, <1>7 DEF ConfirmMissing
<1> QED
  BY <1>4, <1>5, <1>6, <1>7

\* Every step of a job, from its start to its end.
LEMMA JobProgress ==
  ASSUME PollerTypeOK, JobsSound, NEW j \in Jobs, AnyStep(j)
  PROVE  OnlyJob(j) /\ readiness' \in ReadinessState
<1>0. readiness \in ReadinessState /\ chain \in VaultStates
  BY DEF PollerTypeOK, ReadinessTypeOK, VaultStates
<1>1. CASE ExecuteNow(j) \/ \E kind \in PollKinds : StartPoll(j, kind)
  BY <1>1, StartStep
<1>2. CASE Timeout(j)
  BY <1>2, TimeoutStep
<1>3. CASE ReadMissing(j) \/ ReadExecuted(j)
  BY <1>3, OverStep
<1>4. CASE ReadOverdue(j)
  BY <1>4, OverdueStep
<1>5. CASE \E executes \in BOOLEAN : RunExecutor(j, executes)
  BY <1>5, ExecutorStep
<1>6. CASE \/ AcquireToken(j) \/ SuppressPush(j) \/ PushFails(j)
           \/ PushAccepted(j) \/ PushUnanswered(j) \/ PushUnregistered(j) \/ PushRefused(j)
           \/ ConfirmMissing(j)
  BY <1>6, PushStep
<1>7. CASE ReadFails(j) \/ ReadNormal(j)
  <2>1. UNCHANGED <<silence, rpc, chain>> /\ \E read \in BOOLEAN : Return(j, read)
    BY <1>7 DEF ReadFails, ReadNormal, quiet
  <2> QED
    BY <2>1, ReturnStep
<1>8. CASE ProbeEmptyCycle(j)
  <2>1. UNCHANGED <<silence, rpc, chain>> /\ End(j)
    BY <1>8 DEF ProbeEmptyCycle, quiet
  <2>2. PICK ok \in BOOLEAN : ok = checkProgram
    BY DEF checkProgram
  <2>3. readiness' = readiness \/ readiness' = recordPollResult(readiness, ok)
    BY <1>8, <2>2 DEF ProbeEmptyCycle
  <2> QED
    BY <1>0, <2>1, <2>3, Ends, RecordType
<1>9. CASE StartRegistration(j)
  <2>1. UNCHANGED <<silence, rpc, chain>> /\ jobs[j] # NoJob /\ jobs[j].phase = "queued"
        /\ silence \in Nat
    BY <1>9 DEF StartRegistration, quiet, At, PollerTypeOK
  <2>2. CASE ~readiness.networkVerified
    <3>1. Return(j, FALSE)
      BY <1>9, <2>2 DEF StartRegistration
    <3> QED
      BY <2>1, <3>1, ReturnStep
  <2>3. CASE readiness.networkVerified
    <3> DEFINE y == [jobs[j] EXCEPT !.phase = "reading"]
    <3>1. jobs' = [jobs EXCEPT ![j] = y] /\ readiness' = readiness
      BY <1>9, <2>3 DEF StartRegistration, Goto
    <3>2. jobs[j] \in Job /\ JobSound(jobs[j], silence, chain, rpc)
      BY <2>1, JobAt
    <3>3. y \in Job /\ y.elapsed = jobs[j].elapsed /\ y.stage = jobs[j].stage
          /\ y.stale = jobs[j].stale /\ y.phase = "reading" /\ "queued" \notin Pushing
      BY <3>2 DEF Job, Phases, Pushing
    <3> HIDE DEF y
    <3>4. JobSound(y, silence, chain, rpc)
      BY <2>1, <3>2, <3>3, SoundSameStage
    <3> QED
      BY <1>0, <2>1, <3>1, <3>3, <3>4, GoesOn
  <2> QED
    BY <2>2, <2>3
<1> QED
  BY <1>1, <1>2, <1>3, <1>4, <1>5, <1>6, <1>7, <1>8, <1>9 DEF AnyStep, JobStep

------------------------------------------------------------------------------
(* What the steps do to the row, the alerts and the transport.             *)

\* Time and the vault's end do not make an alert early.
LEMMA AlertsKept ==
  ASSUME PollerTypeOK, AlertsNotEarly, silence' \in Nat, silence <= silence',
         chain # "live" => chain' # "live", delivered' = delivered
  PROVE  AlertsNotEarly'
<1> DEFINE stage == computeStage(silence)
           next == computeStage(silence')
<1>1. silence \in Nat /\ delivered \in 0..Complete /\ Interval + Grace \in Nat
  BY PollerAssumption DEF PollerTypeOK, Grace
<1>2. stage \in 0..4 /\ next \in 0..4 /\ stage <= next
  BY <1>1, StageRange, StageMonotone
<1>3. delivered # Complete => delivered <= next
  <2>1. delivered # Complete => delivered <= stage
    BY DEF AlertsNotEarly
  <2> HIDE DEF stage, next
  <2> QED
    BY <1>1, <1>2, <2>1 DEF Complete
<1>4. delivered = 4 => silence' >= Interval + Grace
  <2>1. delivered = 4 => silence >= Interval + Grace
    BY DEF AlertsNotEarly, DeadlinePassed
  <2> QED
    BY <1>1, <2>1
<1> QED
  BY <1>3, <1>4 DEF AlertsNotEarly, DeadlinePassed

\* An accepted push announces what its job knows, which is not early
\* (sendPush, with the outcome recorded or lost).
LEMMA AnnouncedInTime ==
  ASSUME PollerTypeOK, JobsSound, AlertsNotEarly, NEW j \in Jobs, At(j, "fcm"),
         delivered' = Announced(j), UNCHANGED <<silence, chain>>
  PROVE  delivered' \in 0..Complete /\ AlertsNotEarly'
<1>1. jobs[j] # NoJob /\ silence \in Nat /\ delivered \in 0..Complete
  BY DEF At, PollerTypeOK
<1>2. jobs[j] \in Job /\ JobSound(jobs[j], silence, chain, rpc)
  BY <1>1, JobAt
<1>3. jobs[j].stage \in 0..Complete /\ jobs[j].stale \in BOOLEAN
  BY <1>2, JobFields
<1>4. delivered' \in 0..Complete
  BY <1>1, <1>3 DEF Announced
<1>5. CASE delivered' = delivered
  BY <1>1, <1>4, <1>5, AlertsKept
<1>6. CASE delivered' = Complete
  <2>1. chain # "live" \/ delivered' = delivered
    BY <1>2, <1>6 DEF JobSound, Announced
  <2>2. Complete # 4
    BY DEF Complete
  <2> QED
    BY <1>4, <1>5, <1>6, <2>1, <2>2 DEF AlertsNotEarly
<1>7. CASE delivered' # Complete /\ delivered' # delivered
  <2>1. delivered' = jobs[j].stage /\ ~jobs[j].stale /\ jobs[j].stage # Complete
    BY <1>7 DEF Announced
  <2>2. delivered' <= computeStage(silence)
    BY <1>2, <2>1 DEF JobSound
  <2>3. delivered' = 4 => silence >= Interval + Grace
    <3>1. computeStage(silence) \in 0..4
          /\ (computeStage(silence) = 4 => silence >= Interval + Grace)
      BY <1>1, StageRange
    <3> QED
      BY <2>2, <3>1
  <2> QED
    BY <1>4, <1>7, <2>2, <2>3 DEF AlertsNotEarly, DeadlinePassed
<1> QED
  BY <1>4, <1>5, <1>6, <1>7

\* A job's step leaves a row or none, and drops a row only of a vault that is
\* over or to a token that is dead.
LEMMA JobRow ==
  ASSUME PollerTypeOK, JobsSound, NEW j \in Jobs, AnyStep(j)
  PROVE  /\ row' \in Row \cup {NoRow}
         /\ (row # NoRow /\ row' = NoRow) => chain # "live" \/ PushUnregistered(j)
<1>1. row \in Row \cup {NoRow} /\ NoRow \notin Row
  BY PollerAssumption DEF PollerTypeOK
<1>2. ASSUME NEW stage \in 0..4, updateNotifyState(stage)
      PROVE  row' \in Row \cup {NoRow} /\ (row' = NoRow => row = NoRow)
  BY <1>1, <1>2 DEF updateNotifyState, Row
<1>3. CASE row' = row
  BY <1>1, <1>3
<1>4. CASE ConfirmMissing(j)
  <2>1. jobs[j] # NoJob /\ jobs[j].phase = "probing"
    BY <1>4 DEF ConfirmMissing, At
  <2>2. JobSound(jobs[j], silence, chain, rpc)
    BY <2>1, JobAt
  <2>3. MayDrop(j) => chain # "live"
    BY <2>1, <2>2 DEF MayDrop, checkProgram, JobSound
  <2> QED
    BY <1>1, <1>4, <2>3 DEF ConfirmMissing, deleteRegistration
<1>5. CASE ReadExecuted(j)
  <2>1. chain = "executed"
    BY <1>5, ReadingsTrue DEF ReadExecuted
  <2> QED
    BY <1>1, <1>5, <2>1 DEF ReadExecuted, deleteRegistration
<1>6. CASE ReadNormal(j)
  BY <1>2, <1>3, <1>6 DEF ReadNormal
<1>7. CASE PushAccepted(j)
  <2>1. jobs[j] # NoJob
    BY <1>7 DEF PushAccepted, At
  <2>2. jobs[j] \in Job /\ JobSound(jobs[j], silence, chain, rpc)
    BY <2>1, JobAt
  <2>3. jobs[j].stage \in 0..Complete
    BY <2>2, JobFields
  <2>4. CASE jobs[j].stage = Complete
    BY <1>1, <1>7, <2>2, <2>4 DEF PushAccepted, deleteRegistration, JobSound
  <2>5. CASE jobs[j].stage # Complete
    <3>1. jobs[j].stage \in 0..4
      BY <2>3, <2>5 DEF Complete
    <3> QED
      BY <1>2, <1>7, <2>5, <3>1 DEF PushAccepted
  <2> QED
    BY <2>4, <2>5
<1>8. CASE PushUnregistered(j)
  BY <1>8 DEF PushUnregistered, deleteRegistration
<1>9. CASE \/ ExecuteNow(j) \/ Timeout(j) \/ ProbeEmptyCycle(j) \/ StartRegistration(j)
           \/ ReadFails(j) \/ ReadMissing(j) \/ ReadOverdue(j)
           \/ \E kind \in PollKinds : StartPoll(j, kind)
           \/ \E executes \in BOOLEAN : RunExecutor(j, executes)
           \/ AcquireToken(j) \/ SuppressPush(j) \/ PushFails(j)
           \/ PushUnanswered(j) \/ PushRefused(j)
  BY <1>3, <1>9 DEF ExecuteNow, Timeout, ProbeEmptyCycle, StartRegistration, ReadFails,
     ReadMissing, ReadOverdue, StartPoll, RunExecutor, AcquireToken, SuppressPush, PushFails,
     PushUnanswered, PushRefused
<1> QED
  BY <1>4, <1>5, <1>6, <1>7, <1>8, <1>9 DEF AnyStep, JobStep

\* A job's step restores a rejected transport only by an accepted push
\* (sendPush).
LEMMA JobFcm ==
  ASSUME PollerTypeOK, RejectedNotReady, NEW j \in Jobs, AnyStep(j)
  PROVE  /\ fcm' \in [ready : BOOLEAN, rejected : BOOLEAN]
         /\ RejectedNotReady'
         /\ (fcm.rejected /\ fcm'.ready) => PushAccepted(j)
<1>1. fcm \in [ready : BOOLEAN, rejected : BOOLEAN]
  BY DEF PollerTypeOK, ReadinessTypeOK
<1>2. CASE fcm' = fcm
  BY <1>1, <1>2 DEF RejectedNotReady
<1>3. CASE fcm' = FcmDemoted
  BY <1>3 DEF FcmDemoted, RejectedNotReady
<1>4. CASE PushAccepted(j)
  BY <1>4 DEF PushAccepted, FcmRestored, RejectedNotReady
<1>5. CASE PushFails(j) \/ PushUnanswered(j)
  BY <1>3, <1>5 DEF PushFails, PushUnanswered
<1>6. CASE \/ ExecuteNow(j) \/ Timeout(j) \/ ProbeEmptyCycle(j) \/ StartRegistration(j)
           \/ ReadFails(j) \/ ReadMissing(j) \/ ReadExecuted(j) \/ ReadNormal(j)
           \/ ReadOverdue(j) \/ ConfirmMissing(j)
           \/ \E kind \in PollKinds : StartPoll(j, kind)
           \/ \E executes \in BOOLEAN : RunExecutor(j, executes)
           \/ AcquireToken(j) \/ SuppressPush(j) \/ PushUnregistered(j) \/ PushRefused(j)
  BY <1>2, <1>6 DEF ExecuteNow, Timeout, ProbeEmptyCycle, StartRegistration, ReadFails,
     ReadMissing, ReadExecuted, ReadNormal, ReadOverdue, ConfirmMissing, StartPoll,
     RunExecutor, AcquireToken, SuppressPush, PushUnregistered, PushRefused
<1> QED
  BY <1>4, <1>5, <1>6 DEF AnyStep, JobStep

\* A job's step keeps the whole invariant.
LEMMA JobKeeps ==
  ASSUME PollerInv, NEW j \in Jobs, AnyStep(j)
  PROVE  PollerInv'
<1>1. PollerTypeOK /\ JobsSound /\ RejectedNotReady /\ AlertsNotEarly
  BY DEF PollerInv
<1>2. OnlyJob(j) /\ readiness' \in ReadinessState
  BY <1>1, JobProgress
<1>3. fcm' \in [ready : BOOLEAN, rejected : BOOLEAN] /\ RejectedNotReady'
  BY <1>1, JobFcm
<1>4. row' \in Row \cup {NoRow}
  BY <1>1, JobRow
<1>5. JobsSound' /\ jobs' \in [Jobs -> Job \cup {NoJob}]
  BY <1>1, <1>2, OneJobSound DEF OnlyJob
<1>6. silence' = silence /\ rpc' = rpc /\ chain' \in VaultStates
      /\ silence \in Nat /\ delivered \in 0..Complete /\ rpc \in RpcModes
      /\ (chain # "live" => chain' # "live")
  BY <1>1, <1>2 DEF OnlyJob, PollerTypeOK, ReadinessTypeOK
<1>7. delivered' \in 0..Complete /\ AlertsNotEarly'
  <2>1. CASE delivered' = delivered
    BY <1>1, <1>6, <2>1, AlertsKept
  <2>2. CASE PushAccepted(j) \/ PushUnanswered(j)
    BY <1>1, <2>2, AnnouncedInTime DEF PushAccepted, PushUnanswered, quiet
  <2>3. CASE \/ ExecuteNow(j) \/ Timeout(j) \/ ProbeEmptyCycle(j) \/ StartRegistration(j)
             \/ ReadFails(j) \/ ReadMissing(j) \/ ReadExecuted(j) \/ ReadNormal(j)
             \/ ReadOverdue(j) \/ ConfirmMissing(j) \/ PushFails(j)
             \/ \E kind \in PollKinds : StartPoll(j, kind)
             \/ \E executes \in BOOLEAN : RunExecutor(j, executes)
             \/ AcquireToken(j) \/ SuppressPush(j) \/ PushUnregistered(j) \/ PushRefused(j)
    BY <2>1, <2>3 DEF ExecuteNow, Timeout, ProbeEmptyCycle, StartRegistration, ReadFails,
       ReadMissing, ReadExecuted, ReadNormal, ReadOverdue, ConfirmMissing, PushFails, StartPoll,
       RunExecutor, AcquireToken, SuppressPush, PushUnregistered, PushRefused
  <2> QED
    BY <2>2, <2>3 DEF AnyStep, JobStep
<1> QED
  BY <1>2, <1>3, <1>4, <1>5, <1>6, <1>7
     DEF PollerInv, PollerTypeOK, ReadinessTypeOK, VaultStates

------------------------------------------------------------------------------
(* The steps of the owner, the chain, the endpoint, the clock, the process. *)

\* A heartbeat starts the clock anew; what is under way becomes stale
\* (record_heartbeat on chain, while processRegistration waits).
LEMMA HeartbeatKeeps ==
  ASSUME PollerInv, Heartbeat
  PROVE  PollerInv'
<1>1. PollerTypeOK /\ JobsSound /\ jobs \in [Jobs -> Job \cup {NoJob}]
  BY DEF PollerInv, PollerTypeOK
<1>2. silence' = 0 /\ delivered' = 0 /\ chain = "live" /\ chain' = chain
      /\ UNCHANGED <<readiness, fcm, rpc, row>>
  BY DEF Heartbeat
<1>3. computeStage(0) \in 0..4
  BY StageRange
<1>4. ASSUME NEW i \in Jobs, jobs[i] # NoJob
      PROVE  jobs'[i] \in Job /\ JobSound(jobs'[i], 0, chain, rpc)
  <2> DEFINE x == jobs[i]
             y == jobs'[i]
  <2>1. x \in Job /\ JobSound(x, silence, chain, rpc)
    BY <1>1, <1>4, JobAt
  <2> DEFINE old == x.phase \in Pushing
  <2>2. old \in BOOLEAN
    OBVIOUS
  <2>3. y = [x EXCEPT !.elapsed = 0, !.stale = old]
    BY <1>4 DEF Heartbeat
  <2>4. y \in Job /\ y.elapsed = 0 /\ y.stale = old /\ y.stage = x.stage /\ y.phase = x.phase
    <3> HIDE DEF old, x, y
    <3> QED
      BY <2>1, <2>2, <2>3 DEF Job
  <2>5. x.stage # Complete
    BY <1>2, <2>1 DEF JobSound
  <2>6. ~old => x.stage = 0
    BY <2>1 DEF JobSound
  <2>7. x.phase = "probing" /\ rpc = "good" => chain # "live"
    BY <2>1 DEF JobSound
  <2>8. ~old => x.stage <= computeStage(0)
    BY <1>3, <2>6
  <2>9. x.phase \notin Pushing => x.stage = 0
    BY <2>1 DEF JobSound
  <2> HIDE DEF x, y, old
  <2>10. y.elapsed <= 0
    BY <2>4
  <2> QED
    BY <2>4, <2>5, <2>7, <2>8, <2>9, <2>10 DEF JobSound, x, y
<1>5. ASSUME NEW i \in Jobs, jobs[i] = NoJob PROVE jobs'[i] = NoJob
  BY <1>5 DEF Heartbeat
<1>6. jobs' \in [Jobs -> Job \cup {NoJob}]
  <2>1. jobs' = [i \in Jobs |-> jobs'[i]]
    BY DEF Heartbeat
  <2> QED
    BY <1>1, <1>4, <1>5, <2>1
<1>7. JobsSound'
  BY <1>1, <1>2, <1>4, <1>5 DEF JobsSound
<1>8. AlertsNotEarly' /\ delivered' \in 0..Complete
  <2>1. 0 <= computeStage(0)
    BY <1>3
  <2> QED
    BY <1>2, <2>1 DEF AlertsNotEarly, Complete
<1> QED
  BY <1>2, <1>6, <1>7, <1>8
     DEF PollerInv, PollerTypeOK, ReadinessTypeOK, RejectedNotReady

\* The steps that leave the server's memory alone.
LEMMA WorldKeeps ==
  ASSUME PollerInv,
         \/ ChainMoves \/ Deregister \/ Tick
         \/ \E t \in Tokens : Register(t)
         \/ \E mode \in RpcModes : RpcChanges(mode)
  PROVE  PollerInv'
<1>1. PollerTypeOK /\ JobsSound /\ AlertsNotEarly /\ RejectedNotReady
  BY DEF PollerInv
<1>2. UNCHANGED <<readiness, fcm, jobs, delivered>>
  BY DEF ChainMoves, Deregister, Tick, Register, RpcChanges, world
<1>3. silence' \in Nat /\ silence <= silence'
  <2>1. silence \in Nat
    BY <1>1 DEF PollerTypeOK
  <2>2. silence' = silence \/ silence' = silence + 1
    BY DEF ChainMoves, Deregister, Tick, Register, RpcChanges
  <2> QED
    BY <2>1, <2>2
<1>4. chain' \in VaultStates /\ (chain # "live" => chain' # "live")
  BY <1>1 DEF ChainMoves, Deregister, Tick, Register, RpcChanges, PollerTypeOK, VaultStates
<1>5. rpc' \in RpcModes
  BY <1>1 DEF ChainMoves, Deregister, Tick, Register, RpcChanges, PollerTypeOK, ReadinessTypeOK
<1>6. \A j \in Jobs : At(j, "probing") /\ rpc' = "good" => rpc = "good"
  BY DEF ChainMoves, Deregister, Tick, Register, RpcChanges
<1>7. row' \in Row \cup {NoRow}
  <2>1. row \in Row \cup {NoRow}
    BY <1>1 DEF PollerTypeOK
  <2>2. ASSUME NEW t \in Tokens, Register(t) PROVE row' \in Row
    <3>1. CASE row = NoRow
      BY <2>2, <3>1 DEF Register, NewRow, Row
    <3>2. CASE row # NoRow
      BY <2>1, <2>2, <3>2 DEF Register, Row
    <3> QED
      BY <3>1, <3>2
  <2>3. row' = row \/ row' = NoRow \/ \E t \in Tokens : Register(t)
    BY DEF ChainMoves, Deregister, Tick, RpcChanges
  <2> QED
    BY <2>1, <2>2, <2>3
<1>8. JobsSound'
  BY <1>1, <1>2, <1>3, <1>4, <1>6, WorldSound
<1>9. AlertsNotEarly'
  BY <1>1, <1>2, <1>3, <1>4, AlertsKept
<1> QED
  BY <1>1, <1>2, <1>3, <1>4, <1>5, <1>7, <1>8, <1>9
     DEF PollerInv, PollerTypeOK, ReadinessTypeOK, RejectedNotReady, VaultStates

\* The steps of the process: the monitor, a tick that fails, a crash.
LEMMA ProcessKeeps ==
  ASSUME PollerInv,
         \/ (Boot \/ MonitorTick) /\ UNCHANGED pollerVars
         \/ TickFails \/ Crash \/ UNCHANGED vars
  PROVE  PollerInv' /\ ((fcm.rejected /\ fcm'.ready) => UNCHANGED vars)
<1>1. PollerTypeOK /\ JobsSound /\ AlertsNotEarly /\ RejectedNotReady
      /\ readiness \in ReadinessState /\ silence \in Nat
  BY DEF PollerInv, PollerTypeOK, ReadinessTypeOK
<1>2. UNCHANGED <<rpc, silence, chain, row, delivered>>
  BY DEF Boot, MonitorTick, Refresh, pollerVars, TickFails, quiet, Crash, vars, readinessVars
<1>3. ReadinessTypeOK' /\ RejectedNotReady' /\ ((fcm.rejected /\ fcm'.ready) => UNCHANGED vars)
  <2>1. CASE Boot \/ MonitorTick
    <3>1. PICK state \in NetStates, token \in BOOLEAN, program \in BOOLEAN, executor \in BOOLEAN :
            Refresh(state, token, program, executor)
      BY <2>1 DEF Boot, MonitorTick, NetStates
    <3> QED
      BY <1>1, <3>1, RefreshType
  <2>2. CASE TickFails
    <3>1. readiness' = recordPollResult(readiness, FALSE) /\ fcm' = fcm
      BY <2>2 DEF TickFails
    <3> QED
      BY <1>1, <1>2, <3>1, RecordType DEF PollerTypeOK, ReadinessTypeOK, RejectedNotReady
  <2>3. CASE Crash
    <3>1. Startup \in ReadinessState
      BY ReadinessAssumption DEF Startup, ReadinessState, NetStates
    <3> QED
      BY <1>1, <1>2, <2>3, <3>1 DEF Crash, PollerTypeOK, ReadinessTypeOK, RejectedNotReady
  <2>4. CASE UNCHANGED vars
    BY <1>1, <2>4 DEF vars, readinessVars, PollerTypeOK, ReadinessTypeOK, RejectedNotReady
  <2> QED
    BY <2>1, <2>2, <2>3, <2>4
<1>4. jobs' \in [Jobs -> Job \cup {NoJob}] /\ JobsSound'
  <2>1. CASE jobs' = jobs
    BY <1>1, <1>2, <2>1 DEF PollerTypeOK, JobsSound
  <2>2. CASE jobs' = [j \in Jobs |-> NoJob]
    BY <2>2 DEF JobsSound
  <2>3. jobs' = jobs \/ jobs' = [j \in Jobs |-> NoJob]
    BY DEF pollerVars, TickFails, Crash, vars
  <2> QED
    BY <2>1, <2>2, <2>3
<1>5. AlertsNotEarly'
  BY <1>1, <1>2, AlertsKept
<1> QED
  BY <1>1, <1>2, <1>3, <1>4, <1>5 DEF PollerInv, PollerTypeOK

------------------------------------------------------------------------------
(* The theorems.                                                           *)

\* The kinds of steps of the poller's specification.
LEMMA Steps ==
  ASSUME [Next]_vars
  PROVE  \/ \E j \in Jobs : AnyStep(j)
         \/ Heartbeat
         \/ ChainMoves \/ Deregister \/ Tick
         \/ \E t \in Tokens : Register(t)
         \/ \E mode \in RpcModes : RpcChanges(mode)
         \/ (Boot \/ MonitorTick) /\ UNCHANGED pollerVars
         \/ TickFails \/ Crash \/ UNCHANGED vars
BY DEF Next, AnyStep

\* The server starts with a row, no job and no alert.
LEMMA PollerInit == Init => PollerInv
<1> SUFFICES ASSUME Init PROVE PollerInv
  OBVIOUS
<1>1. ReadinessTypeOK /\ RejectedNotReady
  BY ReadinessAssumption DEF Init, ReadinessInit, ReadinessTypeOK, Startup, ReadinessState,
     NetStates, RejectedNotReady
<1>2. row \in Row
  BY DEF Init, NewRow, Row
<1>3. jobs \in [Jobs -> Job \cup {NoJob}] /\ JobsSound
  BY DEF Init, JobsSound
<1>4. computeStage(0) \in 0..4
  BY StageRange
<1>5. silence = 0 /\ delivered = 0 /\ chain = "live"
  BY DEF Init
<1>6. 0 <= computeStage(0)
  BY <1>4
<1>7. AlertsNotEarly
  BY <1>5, <1>6 DEF AlertsNotEarly, Complete
<1> QED
  BY <1>1, <1>2, <1>3, <1>5, <1>7 DEF PollerInv, PollerTypeOK, Complete

\* The invariant of the poller is inductive.
LEMMA PollerStep ==
  ASSUME PollerInv, [Next]_vars
  PROVE  PollerInv'
BY Steps, JobKeeps, HeartbeatKeeps, WorldKeeps, ProcessKeeps

(***************************************************************************)
(* Every reachable state of the poller is well formed, and no job, timed   *)
(* out or not, knows more than the chain (processRegistration).            *)
(***************************************************************************)
THEOREM PollerInvariant == Spec => []PollerInv
<1>1. PollerInv /\ [Next]_vars => PollerInv'
  BY PollerStep
<1> QED
  BY <1>1, PollerInit, PTL DEF Spec

(***************************************************************************)
(* No alert is ahead of the silence it speaks of, for any number of        *)
(* overlapping jobs, any stage durations and any clock bound               *)
(* (processRegistration, sendPush).                                        *)
(***************************************************************************)
THEOREM AlertsInTime == Spec => []AlertsNotEarly
<1>1. PollerInv => AlertsNotEarly
  BY DEF PollerInv
<1> QED
  BY <1>1, PollerInvariant, PTL

(***************************************************************************)
(* The poller forgets an owner only when the vault is over or the token is *)
(* dead (processRegistration, checkProgramAccount).                        *)
(***************************************************************************)
THEOREM OwnersKept == Spec => OnlyOverRowsDropped
<1>1. ASSUME PollerInv, [Next]_vars
      PROVE  [ (row # NoRow /\ row' = NoRow)
                 => \/ Deregister
                    \/ chain # "live"
                    \/ \E j \in Jobs : PushUnregistered(j) ]_vars
  <2> SUFFICES ASSUME row # NoRow, row' = NoRow
               PROVE  \/ Deregister
                      \/ chain # "live"
                      \/ \E j \in Jobs : PushUnregistered(j)
    OBVIOUS
  <2>1. PollerTypeOK /\ JobsSound
    BY <1>1 DEF PollerInv
  <2>2. CASE \E j \in Jobs : AnyStep(j)
    BY <2>1, <2>2, JobRow
  <2>3. ASSUME NEW t \in Tokens, Register(t) PROVE FALSE
    <3>1. row' \in Row
      BY <2>1, <2>3 DEF Register, NewRow, Row, PollerTypeOK
    <3> QED
      BY <3>1, PollerAssumption
  <2>4. CASE Deregister
    BY <2>4
  <2>5. \/ \E j \in Jobs : AnyStep(j)
        \/ Deregister
        \/ \E t \in Tokens : Register(t)
        \/ row' = row
    BY <1>1, Steps DEF Heartbeat, ChainMoves, Tick, RpcChanges, pollerVars, TickFails, Crash,
       vars
  <2> QED
    BY <2>2, <2>3, <2>4, <2>5
<1> QED
  BY <1>1, PollerInvariant, PTL DEF Spec, OnlyOverRowsDropped

(***************************************************************************)
(* Once the send endpoint rejected a push, only an accepted push makes the *)
(* transport ready again (probeFcm, sendPush).                             *)
(***************************************************************************)
THEOREM RejectionHolds == Spec => OnlyASendRestoresFcm
<1>1. ASSUME PollerInv, [Next]_vars
      PROVE  [ (fcm.rejected /\ fcm'.ready) => \E j \in Jobs : PushAccepted(j) ]_vars
  <2> SUFFICES ASSUME fcm.rejected, fcm'.ready, ~UNCHANGED vars
               PROVE  \E j \in Jobs : PushAccepted(j)
    OBVIOUS
  <2>1. PollerTypeOK /\ RejectedNotReady
    BY <1>1 DEF PollerInv
  <2>2. CASE \E j \in Jobs : AnyStep(j)
    BY <2>1, <2>2, JobFcm
  <2>3. CASE \/ (Boot \/ MonitorTick) /\ UNCHANGED pollerVars
             \/ TickFails \/ Crash \/ UNCHANGED vars
    BY <1>1, <2>3, ProcessKeeps
  <2>4. fcm' # fcm
    BY <2>1 DEF RejectedNotReady
  <2>5. \/ \E j \in Jobs : AnyStep(j)
        \/ (Boot \/ MonitorTick) /\ UNCHANGED pollerVars
        \/ TickFails \/ Crash \/ UNCHANGED vars
    BY <1>1, <2>4, Steps DEF Heartbeat, ChainMoves, Deregister, Tick, Register, RpcChanges, world
  <2> QED
    BY <2>2, <2>3, <2>5
<1> QED
  BY <1>1, PollerInvariant, PTL DEF Spec, OnlyASendRestoresFcm

==============================================================================
