------------------------------- MODULE Poller -------------------------------
(***************************************************************************)
(* The escalation poller of the notify server (poller.js, escalation.js,   *)
(* the send half of fcm.js, the notify state of db.js and the admin routes *)
(* of routes.js), for one registered vault.                                *)
(*                                                                         *)
(* A job is one run of processRegistration (or of the empty-cycle program  *)
(* probe, or of /execute-now).  It works on the row it read when its tick  *)
(* began and stops at every await: the vault read, the program probe, the  *)
(* executor, the access token, the FCM request.  The worker's timeout      *)
(* never cancels a job: it only clears its live flag.  Two jobs for the    *)
(* same vault overlap when a timed-out job is still waiting, when the      *)
(* watchdog starts a tick beside one that is stuck in other vaults, and    *)
(* when an operator calls /poll-now.                                       *)
(***************************************************************************)
EXTENDS Readiness

CONSTANTS
    Tokens,                  \* device tokens
    Jobs,                    \* slots for concurrent jobs (bound)
    Interval, Stage1, Stage2, Stage3,    \* heartbeat interval, stage durations
    MaxSilence,              \* bound on the clock
    PollKinds,               \* who starts cycles: the timer, /poll-now ("admin")
    NoRow, NoJob

VARIABLES
    silence,      \* time since the last heartbeat on chain
    chain,        \* the vault on chain: live, executed or gone
    row,          \* the registration of the vault, or NoRow
    jobs,         \* [Jobs -> job or NoJob]
    delivered     \* the last alert FCM took since the last heartbeat, 0 if none

pollerVars == <<silence, chain, row, jobs, delivered>>
vars == <<readinessVars, pollerVars>>

Grace == Stage1 + Stage2 + Stage3
Complete == 5          \* the completion push, after stages 1..4

\* last_notified_at only throttles the reminders within a stage; whether one is
\* due is left open, and the column with it.
Row == [token : Tokens, last_stage : 0..4]
NewRow(t) == [token |-> t, last_stage |-> 0]

\* A job that pushes, or that runs the executor and may push afterwards.
Pushing == {"exec", "token", "fcm"}
Phases == {"cycle", "queued", "reading", "probing"} \cup Pushing

Job ==
    [kind : PollKinds \cup {"execute-now"}, phase : Phases, reg : Row \cup {NoRow},
     live : BOOLEAN, elapsed : Nat, stage : 0..Complete, stale : BOOLEAN]

\* The routes refuse a stage duration that is not positive.
ASSUME PollerAssumption ==
    /\ Interval \in Nat /\ MaxSilence \in Nat
    /\ {Stage1, Stage2, Stage3} \subseteq Nat \ {0}
    /\ NoRow \notin Row /\ NoJob \notin Job

------------------------------------------------------------------------------
(* escalation.js                                                           *)

\* As it would be with each boundary one unit early.
StageOfNext(overdue) ==
    CASE overdue < 0 -> 0
      [] overdue >= 0 /\ overdue + 1 < Stage1 -> 1
      [] overdue + 1 >= Stage1 /\ overdue + 1 < Stage1 + Stage2 -> 2
      [] overdue + 1 >= Stage1 + Stage2 /\ overdue + 1 < Grace -> 3
      [] overdue + 1 >= Grace -> 4

StageOf(overdue) ==
    CASE overdue <= 0 -> 0
      [] overdue > 0 /\ overdue < Stage1 -> 1
      [] overdue >= Stage1 /\ overdue < Stage1 + Stage2 -> 2
      [] overdue >= Stage1 + Stage2 /\ overdue < Grace -> 3
      [] overdue >= Grace -> 4

\* elapsed is the time from the last heartbeat to the clock of the tick.
computeStage(elapsed) == StageOf(elapsed - Interval)

\* As it would be if the last stage fell under the rule of the reminders.
DueBelowFour(reg, stage, recur) ==
    stage \in 1..3 /\ (stage > reg.last_stage \/ (stage = reg.last_stage /\ recur))

\* A push is due on escalation, on recurrence within a stage, and once for 4.
Due(reg, stage, recur) ==
    stage > reg.last_stage \/ (stage = reg.last_stage /\ stage \in 1..3 /\ recur)

\* On chain, everybody may execute from here on and the owner is locked out.
DeadlinePassed == silence >= Interval + Grace

------------------------------------------------------------------------------
(* A job and its end.  A field that no later phase reads is reset.         *)

job(kind, phase, reg) ==
    [kind |-> kind, phase |-> phase, reg |-> reg, live |-> TRUE,
     elapsed |-> IF phase = "queued" THEN silence ELSE 0,
     stage |-> 0, stale |-> FALSE]

At(j, phase) == jobs[j] # NoJob /\ jobs[j].phase = phase
Goto(j, phase) == jobs' = [jobs EXCEPT ![j].phase = phase]

\* The worker counts the result of a job that did not time out, and only the
\* timer's cycle reports to readiness.
Reported(j, read) ==
    IF jobs[j].live /\ jobs[j].kind = "timer"
    THEN recordPollResult(readiness, isPollCycleHealthy(1, IF read THEN 0 ELSE 1))
    ELSE readiness

End(j) == jobs' = [jobs EXCEPT ![j] = NoJob]
Return(j, read) == End(j) /\ readiness' = Reported(j, read)

deleteRegistration == row' = NoRow
updateNotifyState(stage) ==
    row' = IF row = NoRow THEN NoRow ELSE [row EXCEPT !.last_stage = stage]

quiet == UNCHANGED <<rpc, silence>>

------------------------------------------------------------------------------
(* Ticks.                                                                  *)

\* A cycle snapshots the registrations; without any it probes the program.
\* Both the timer and /poll-now refuse to start on an unverified network.
StartPoll(j, kind) ==
    /\ jobs[j] = NoJob
    /\ readiness.apiReady /\ readiness.networkVerified
    /\ jobs' = [jobs EXCEPT ![j] =
                   job(kind, IF row = NoRow THEN "cycle" ELSE "queued", row)]
    /\ UNCHANGED <<readiness, fcm, chain, row, delivered>> /\ quiet

\* The prelude of a tick throws (the database cannot be read).
TickFails ==
    /\ readiness.apiReady /\ readiness.networkVerified
    /\ readiness' = recordPollResult(readiness, FALSE)
    /\ UNCHANGED <<fcm, chain, row, jobs, delivered>> /\ quiet

ProbeEmptyCycle(j) ==
    /\ At(j, "cycle")
    /\ End(j)
    /\ readiness' = IF jobs[j].kind = "timer" THEN recordPollResult(readiness, checkProgram)
                    ELSE readiness
    /\ UNCHANGED <<fcm, chain, row, delivered>> /\ quiet

\* withTimeout: the worker moves on, the job does not know.
Timeout(j) ==
    /\ jobs[j] # NoJob /\ jobs[j].live /\ jobs[j].kind # "execute-now"
    /\ jobs[j].phase # "queued"
    /\ jobs' = IF jobs[j].phase = "cycle" THEN [jobs EXCEPT ![j] = NoJob]
               ELSE IF jobs[j].phase = "reading"
               THEN [jobs EXCEPT ![j].live = FALSE, ![j].elapsed = 0, ![j].reg = NoRow]
               ELSE [jobs EXCEPT ![j].live = FALSE]
    /\ readiness' = Reported(j, FALSE)
    /\ UNCHANGED <<fcm, chain, row, delivered>> /\ quiet

------------------------------------------------------------------------------
(* processRegistration, from await to await.                               *)

StartRegistration(j) ==
    /\ At(j, "queued")
    /\ IF readiness.networkVerified
       THEN Goto(j, "reading") /\ UNCHANGED readiness
       ELSE Return(j, FALSE)
    /\ UNCHANGED <<fcm, chain, row, delivered>> /\ quiet

\* What readVaultState may answer.
Readings ==
    CASE rpc = "good" -> {chain}
      [] rpc = "pruned" -> {"gone", "no_heartbeat"}
      [] rpc = "wrong" -> {"gone"}
      [] rpc = "down" -> {"error"}

Trusted(j) == jobs[j].live /\ readiness.networkVerified

\* A read that failed, that came after the timeout, that a network verdict
\* overtook, or that shows a vault without a heartbeat, has no effect.
ReadFails(j) ==
    /\ At(j, "reading")
    /\ "error" \in Readings \/ "no_heartbeat" \in Readings \/ ~Trusted(j)
    /\ Return(j, FALSE)
    /\ UNCHANGED <<fcm, chain, row, delivered>> /\ quiet

ReadMissing(j) ==
    /\ At(j, "reading") /\ Trusted(j) /\ "gone" \in Readings
    /\ jobs' = [jobs EXCEPT ![j].phase = "probing", ![j].elapsed = 0, ![j].reg = NoRow]
    /\ UNCHANGED <<readiness, fcm, chain, row, delivered>> /\ quiet

\* As it would be if it were dropped without asking again.
MayDropUnprobed(j) == Trusted(j)

\* A vault that looks gone is dropped only after a fresh probe has seen the
\* program itself.
MayDrop(j) == Trusted(j) /\ checkProgram

ConfirmMissing(j) ==
    /\ At(j, "probing")
    /\ IF MayDrop(j) THEN deleteRegistration ELSE UNCHANGED row
    /\ Return(j, MayDrop(j))
    /\ UNCHANGED <<fcm, chain, delivered>> /\ quiet

\* Executed: announce the completion if the owner saw stage 4, else drop.
ReadExecuted(j) ==
    /\ At(j, "reading") /\ Trusted(j) /\ "executed" \in Readings
    /\ IF jobs[j].reg.last_stage = 4 /\ ~FcmWaived
       THEN /\ jobs' = [jobs EXCEPT ![j].phase = "token", ![j].stage = Complete,
                                     ![j].elapsed = 0, ![j].reg = NoRow]
            /\ UNCHANGED <<readiness, row>>
       ELSE deleteRegistration /\ Return(j, TRUE)
    /\ UNCHANGED <<fcm, chain, delivered>> /\ quiet

\* The rest of the escalation, once the stage is known and the executor ran.
Escalate(j, stage) ==
    \E recur \in BOOLEAN :
      CASE ~Due(jobs[j].reg, stage, recur) -> Return(j, TRUE)
        [] Due(jobs[j].reg, stage, recur) /\ ~Trusted(j) -> Return(j, FALSE)
        [] OTHER -> /\ jobs' = [jobs EXCEPT ![j].phase = "token", ![j].stage = stage,
                                            ![j].elapsed = 0, ![j].reg = NoRow]
                    /\ UNCHANGED readiness

Reading(j) == At(j, "reading") /\ Trusted(j) /\ "live" \in Readings

\* Back to normal: later escalations notify from scratch.
ReadNormal(j) ==
    /\ Reading(j) /\ computeStage(jobs[j].elapsed) = 0
    /\ IF jobs[j].reg.last_stage # 0 THEN updateNotifyState(0) ELSE UNCHANGED row
    /\ Return(j, TRUE)
    /\ UNCHANGED <<fcm, chain, delivered>> /\ quiet

\* The in-process lock of runExecutor, per vault.
inFlight == \E j \in Jobs : At(j, "exec")

ReadOverdue(j) ==
    /\ Reading(j)
    /\ LET stage == computeStage(jobs[j].elapsed)
       IN  /\ stage # 0
           /\ IF stage = 4 /\ readiness.executorReady /\ ~inFlight
              THEN /\ jobs' = [jobs EXCEPT ![j].phase = "exec", ![j].stage = stage,
                                           ![j].elapsed = 0]
                   /\ UNCHANGED readiness
              ELSE Escalate(j, stage)
    /\ UNCHANGED <<fcm, chain, row, delivered>> /\ quiet

\* runExecutor finishes: the estate is executed only if the guard held up to
\* the last submission; a revoked, early or failed crank leaves it for later.
canSubmit(j) == jobs[j].live /\ readiness.executorReady

RunExecutor(j, executes) ==
    /\ At(j, "exec")
    /\ executes => /\ canSubmit(j) /\ rpc = "good"
                   /\ chain = "live" /\ DeadlinePassed
    /\ chain' = IF executes THEN "executed" ELSE chain
    /\ IF jobs[j].kind = "execute-now"
       THEN End(j) /\ UNCHANGED readiness
       ELSE Escalate(j, jobs[j].stage)
    /\ UNCHANGED <<fcm, row, delivered>> /\ quiet

ExecuteNow(j) ==
    /\ jobs[j] = NoJob
    /\ readiness.apiReady /\ readiness.executorReady /\ ~inFlight
    /\ jobs' = [jobs EXCEPT ![j] = job("execute-now", "exec", NoRow)]
    /\ UNCHANGED <<readiness, fcm, chain, row, delivered>> /\ quiet

------------------------------------------------------------------------------
(* sendPush.                                                               *)

\* canSend is asked again once the access token is there.
AcquireToken(j) ==
    /\ At(j, "token") /\ Trusted(j)
    /\ Goto(j, "fcm")
    /\ UNCHANGED <<readiness, fcm, chain, row, delivered>> /\ quiet

SuppressPush(j) ==
    /\ At(j, "token") /\ ~Trusted(j)
    /\ Return(j, FALSE)
    /\ UNCHANGED <<fcm, chain, row, delivered>> /\ quiet

\* No client, no token, a deadline, or a transport status of the provider.
PushFails(j) ==
    /\ At(j, "token") \/ At(j, "fcm")
    /\ fcm' = FcmDemoted
    /\ Return(j, TRUE)
    /\ UNCHANGED <<chain, row, delivered>> /\ quiet

Announced(j) ==
    IF jobs[j].stage = Complete \/ ~jobs[j].stale
    THEN jobs[j].stage ELSE delivered

\* A definite outcome is recorded whatever happened to the network or to the
\* worker in the meantime.
PushAccepted(j) ==
    /\ At(j, "fcm")
    /\ delivered' = Announced(j)
    /\ fcm' = FcmRestored
    /\ IF jobs[j].stage = Complete THEN deleteRegistration
       ELSE updateNotifyState(jobs[j].stage)
    /\ Return(j, TRUE)
    /\ UNCHANGED chain /\ quiet

\* Delivered, but the answer is lost: the deadline of the send cut it off.
PushUnanswered(j) ==
    /\ At(j, "fcm")
    /\ delivered' = Announced(j)
    /\ fcm' = FcmDemoted
    /\ Return(j, TRUE)
    /\ UNCHANGED <<chain, row>> /\ quiet

\* The provider no longer knows the token the job pushed to.
PushUnregistered(j) ==
    /\ At(j, "fcm")
    /\ deleteRegistration
    /\ Return(j, TRUE)
    /\ UNCHANGED <<fcm, chain, delivered>> /\ quiet

\* Refused for a reason that lies with this push alone.
PushRefused(j) ==
    /\ At(j, "fcm")
    /\ Return(j, TRUE)
    /\ UNCHANGED <<fcm, chain, row, delivered>> /\ quiet

------------------------------------------------------------------------------
(* The owner, the chain, the phone, the endpoint, the clock, the process.  *)

world == UNCHANGED <<readiness, fcm, jobs>>

\* The clock of a waiting job is now at or before the heartbeat; the alerts
\* that are on their way are stale.
Heartbeat ==
    /\ chain = "live" /\ ~DeadlinePassed /\ silence > 0
    /\ silence' = 0
    /\ delivered' = 0
    /\ jobs' = [j \in Jobs |->
                  IF jobs[j] = NoJob THEN NoJob
                  ELSE [jobs[j] EXCEPT !.elapsed = 0,
                                       !.stale = jobs[j].phase \in Pushing]]
    /\ UNCHANGED <<readiness, fcm, rpc, chain, row>>

\* The owner revokes, another cranker executes, the executed vault is closed.
ChainMoves ==
    /\ \/ chain = "live" /\ ~DeadlinePassed /\ chain' = "gone"
       \/ chain = "live" /\ DeadlinePassed /\ chain' = "executed"
       \/ chain = "executed" /\ chain' = "gone"
    /\ UNCHANGED <<rpc, silence, row, delivered>> /\ world

\* A registration keeps the notify state of the row it updates.
Register(t) ==
    /\ readiness.apiReady /\ chain = "live"
    /\ row' = IF row = NoRow THEN NewRow(t) ELSE [row EXCEPT !.token = t]
    /\ row' # row
    /\ UNCHANGED <<rpc, silence, chain, delivered>> /\ world

Deregister ==
    /\ readiness.apiReady /\ row # NoRow
    /\ row' = NoRow
    /\ UNCHANGED <<rpc, silence, chain, delivered>> /\ world

\* Assumption on the endpoint: an outage that made the vault look gone lasts
\* until the program probe that follows.
RpcChanges(mode) ==
    /\ rpc # mode
    /\ mode = "good" => \A j \in Jobs : ~At(j, "probing")
    /\ rpc' = mode
    /\ UNCHANGED <<silence, chain, row, delivered>> /\ world

Tick ==
    /\ silence < MaxSilence
    /\ silence' = silence + 1
    /\ UNCHANGED <<rpc, chain, row, delivered>> /\ world

\* A fatal guard ends the process, the supervisor starts it again: the rows
\* survive, everything in memory does not.
Crash ==
    /\ readiness.apiReady
    /\ readiness' = Startup
    /\ fcm' = [ready |-> FALSE, rejected |-> FALSE]
    /\ jobs' = [j \in Jobs |-> NoJob]
    /\ UNCHANGED <<rpc, silence, chain, row, delivered>>

------------------------------------------------------------------------------

Init ==
    /\ ReadinessInit
    /\ silence = 0
    /\ chain = "live"
    /\ \E t \in Tokens : row = NewRow(t)
    /\ jobs = [j \in Jobs |-> NoJob]
    /\ delivered = 0

JobStep(j) ==
    \/ ProbeEmptyCycle(j)
    \/ StartRegistration(j)
    \/ ReadFails(j) \/ ReadMissing(j) \/ ReadExecuted(j) \/ ReadNormal(j) \/ ReadOverdue(j)
    \/ ConfirmMissing(j)
    \/ \E executes \in BOOLEAN : RunExecutor(j, executes)
    \/ AcquireToken(j) \/ SuppressPush(j) \/ PushFails(j)
    \/ PushAccepted(j) \/ PushUnanswered(j) \/ PushUnregistered(j) \/ PushRefused(j)

Next ==
    \/ (Boot \/ MonitorTick) /\ UNCHANGED pollerVars
    \/ \E j \in Jobs :
         \/ \E kind \in PollKinds : StartPoll(j, kind)
         \/ JobStep(j)
         \/ Timeout(j)
         \/ ExecuteNow(j)
    \/ TickFails
    \/ Heartbeat \/ ChainMoves \/ Deregister
    \/ \E t \in Tokens : Register(t)
    \/ \E mode \in RpcModes : RpcChanges(mode)
    \/ Tick
    \/ Crash

Spec == Init /\ [][Next]_vars

(***************************************************************************)
(* Fairness: timers fire, awaits return, and a step that keeps being       *)
(* possible is not overtaken for ever by a timeout or a provider failure.  *)
(***************************************************************************)
Fairness ==
    /\ WF_vars((Boot \/ MonitorTick) /\ UNCHANGED pollerVars)
    /\ WF_vars(Tick)
    /\ \A j \in Jobs :
         /\ WF_vars(JobStep(j))
         /\ SF_vars(StartPoll(j, "timer"))
         /\ SF_vars(ReadMissing(j) \/ ReadExecuted(j) \/ ReadNormal(j) \/ ReadOverdue(j))
         /\ SF_vars(ConfirmMissing(j) /\ MayDrop(j))
         /\ SF_vars(jobs[j] # NoJob /\ jobs[j].live /\ jobs[j].kind = "timer"
                     /\ \E executes \in BOOLEAN : RunExecutor(j, executes))
         /\ SF_vars(ProbeEmptyCycle(j))
         /\ SF_vars(AcquireToken(j))
         /\ SF_vars(PushAccepted(j) /\ jobs[j].live)

FairSpec == Spec /\ Fairness
------------------------------------------------------------------------------
(* Properties.                                                             *)

(***************************************************************************)
(* An alert is never ahead of the silence it speaks of: no stage is        *)
(* announced before the chain is in it, the executing alert not before the *)
(* owner is locked out, the completion not before the estate is executed   *)
(* (processRegistration works with an old clock and an old row).           *)
(***************************************************************************)
AlertsNotEarly ==
    /\ delivered # Complete => delivered <= computeStage(silence)
    /\ delivered = 4 => DeadlinePassed
    /\ delivered = Complete => chain # "live"

(***************************************************************************)
(* The poller drops a registration only if the vault is over or the token  *)
(* it pushed to is dead: no outage, pruned endpoint or wrong cluster makes *)
(* it forget an owner (processRegistration).                               *)
(***************************************************************************)
OnlyOverRowsDropped ==
    [][ (row # NoRow /\ row' = NoRow)
        => \/ Deregister
           \/ chain # "live"
           \/ \E j \in Jobs : PushUnregistered(j) ]_vars

(***************************************************************************)
(* After the send endpoint rejected a push, only a push that it accepts    *)
(* makes the transport ready again; a token probe between the two does not *)
(* (probeFcm, sendPush), unless the process starts afresh.                 *)
(***************************************************************************)
OnlyASendRestoresFcm ==
    [][ (fcm.rejected /\ fcm'.ready) => \E j \in Jobs : PushAccepted(j) ]_vars

(***************************************************************************)
(* While the vault stays live and overdue, the row and its token valid and *)
(* the endpoint good, the owner is told that the estate executes           *)
(* (processRegistration, pollOnce).                                        *)
(***************************************************************************)
OwnerAlerted ==
    <>[](/\ rpc = "good" /\ readiness.apiReady /\ chain = "live"
         /\ DeadlinePassed /\ row # NoRow)
        => <>(delivered = 4)

(***************************************************************************)
(* Whatever demoted the poller, it becomes ready again once the endpoint   *)
(* is good: pollerReady is no condition of the polls that restore it       *)
(* (shouldProbe, recordPollResult).                                        *)
(***************************************************************************)
PollerRecovers ==
    <>[](rpc = "good" /\ readiness.apiReady) => []<>(readiness.pollerReady)

------------------------------------------------------------------------------
(* What the proofs carry through every step.                               *)

PollerTypeOK ==
    /\ ReadinessTypeOK
    /\ silence \in Nat
    /\ chain \in {"live", "executed", "gone"}
    /\ row \in Row \cup {NoRow}
    /\ jobs \in [Jobs -> Job \cup {NoJob}]
    /\ delivered \in 0..Complete

\* A job x knows no more than the chain: its clock is not ahead of the
\* silence since the last heartbeat, its stage is one that silence has
\* reached unless a heartbeat made it stale, a completion is of a vault that
\* is over, and a vault it probes for is over unless the endpoint is bad.
JobSound(x, since, vault, endpoint) ==
    /\ x.elapsed <= since
    /\ x.stage = Complete => vault # "live"
    /\ (x.stage # Complete /\ ~x.stale) => x.stage <= computeStage(since)
    /\ x.phase \notin Pushing => x.stage = 0
    /\ (x.phase = "probing" /\ endpoint = "good") => vault # "live"

JobsSound == \A j \in Jobs : jobs[j] # NoJob => JobSound(jobs[j], silence, chain, rpc)

RejectedNotReady == fcm.rejected => ~fcm.ready

\* Inductive: AlertsNotEarly by itself says nothing of the pushes that are
\* still under way.
PollerInv == PollerTypeOK /\ JobsSound /\ RejectedNotReady /\ AlertsNotEarly

==============================================================================
