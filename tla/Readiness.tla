------------------------------ MODULE Readiness ------------------------------
(***************************************************************************)
(* The readiness domains of the notify server (readiness.js), the cluster  *)
(* monitor that refreshes them (server.js) and the push transport state    *)
(* (fcm.js).  Every other part of the server asks these domains before it  *)
(* acts: the poller, the executor's submit guard, /poll-now, /execute-now  *)
(* and /health.                                                            *)
(*                                                                         *)
(* rpc is what the configured endpoint serves at this moment:              *)
(*   good     the expected cluster, all accounts                           *)
(*   pruned   the expected cluster, but accounts it cannot resolve         *)
(*   wrong    another cluster, on which the program is not deployed        *)
(*   down     no usable answer: timeout, 429, DNS, malformed genesis       *)
(***************************************************************************)
EXTENDS Integers

CONSTANTS
    RpcModes,           \* what the endpoint may serve, of the four above
    ExecutorEnabled,    \* config.executorEnabled
    FcmWaived,          \* config.allowNoFcm
    FailureThreshold,   \* consecutive failed cycles that demote the poller
    MaxRatioPct,        \* config.pollMaxFailureRatio, in percent
    MaxAbs              \* config.pollMaxFailureAbs

ASSUME ReadinessAssumption ==
    /\ RpcModes \subseteq {"good", "pruned", "wrong", "down"}
    /\ FailureThreshold \in Nat \ {0}
    /\ MaxRatioPct \in 0..100 /\ MaxAbs \in Nat
    /\ ExecutorEnabled \in BOOLEAN /\ FcmWaived \in BOOLEAN

VARIABLES
    rpc,          \* what the RPC endpoint serves
    readiness,    \* the ReadinessState singleton
    fcm           \* fcmState of fcm.js

readinessVars == <<rpc, readiness, fcm>>

NetStates == {"VERIFIED", "MISMATCH", "UNKNOWN"}

ReadinessState ==
    [net : NetStates, apiReady : BOOLEAN,
     networkVerified : BOOLEAN, programReady : BOOLEAN, pollerReady : BOOLEAN,
     executorReady : BOOLEAN, failures : 0..FailureThreshold]

Startup ==
    [net |-> "UNKNOWN", apiReady |-> FALSE, networkVerified |-> FALSE,
     programReady |-> FALSE, pollerReady |-> FALSE, executorReady |-> FALSE,
     failures |-> 0]

------------------------------------------------------------------------------
(* Probes.                                                                 *)

\* A genesis hash is proof of a cluster only if it is well formed: no answer
\* and a malformed one are UNKNOWN, never MISMATCH.
classifyGenesis ==
    CASE rpc \in {"good", "pruned"} -> "VERIFIED"
      [] rpc = "wrong" -> "MISMATCH"
      [] rpc = "down" -> "UNKNOWN"

\* checkProgramAccount answers ok only for a program account it has seen.
checkProgram == rpc = "good"

\* usable: the program answers again and the cranker's balance is above the
\* minimum.
checkExecutorRuntime(usable) == ExecutorEnabled /\ usable

isPollCycleHealthy(checked, readErrors) ==
    /\ 100 * readErrors <= MaxRatioPct * checked
    /\ readErrors <= MaxAbs
    /\ checked - readErrors >= 1

------------------------------------------------------------------------------
(* The setters of ReadinessState.                                          *)

applyNet(r, state) ==
    IF state = "VERIFIED"
    THEN [r EXCEPT !.net = state, !.networkVerified = TRUE]
    ELSE [r EXCEPT !.net = state, !.networkVerified = FALSE, !.programReady = FALSE,
                   !.pollerReady = FALSE, !.executorReady = FALSE]

setProgram(r, ok) ==
    [r EXCEPT !.programReady = ok, !.executorReady = @ /\ ok]

setExecutor(r, ready) ==
    [r EXCEPT !.executorReady = ready /\ r.networkVerified /\ r.programReady]

\* As it would be if a demoted poller had to be ready to be restored.
recordUntilDemoted(r, ok) ==
    LET n == IF ok /\ r.failures < FailureThreshold THEN 0
             ELSE IF r.failures < FailureThreshold THEN r.failures + 1 ELSE r.failures
    IN  [r EXCEPT !.failures = n,
                  !.pollerReady = (@ \/ (ok /\ r.networkVerified)) /\ n < FailureThreshold]

recordPollResult(r, ok) ==
    IF ok
    THEN [r EXCEPT !.failures = 0, !.pollerReady = @ \/ r.networkVerified]
    ELSE LET n == IF r.failures < FailureThreshold THEN r.failures + 1 ELSE r.failures
         IN  [r EXCEPT !.failures = n, !.pollerReady = @ /\ n < FailureThreshold]

------------------------------------------------------------------------------
(* fcm.js keeps its own state; an observer mirrors it into readiness.      *)

FcmDemoted == [ready |-> FALSE, rejected |-> TRUE]
FcmRestored == [ready |-> TRUE, rejected |-> FALSE]

FcmProbedByToken(token) == [fcm EXCEPT !.ready = token]

\* A token probe says nothing about a send endpoint that rejected us.
FcmProbed(token) == [fcm EXCEPT !.ready = token /\ ~fcm.rejected]

------------------------------------------------------------------------------
(* Boot and the monitor.                                                   *)

ReadinessInit ==
    /\ rpc \in RpcModes
    /\ readiness = Startup
    /\ fcm = [ready |-> FALSE, rejected |-> FALSE]

\* A verified network is followed by refreshDependentReadiness: push token,
\* program and executor are probed one after the other, and the two looks at
\* the program need not agree.
Refreshed(r, program, executor) ==
    setExecutor(setProgram(r, program), checkExecutorRuntime(executor))

Refresh(state, token, program, executor) ==
    /\ state = classifyGenesis
    /\ program \/ executor => checkProgram
    /\ IF state = "VERIFIED"
       THEN /\ readiness' = [Refreshed(applyNet(readiness, state), program, executor)
                                EXCEPT !.apiReady = TRUE]
            /\ fcm' = FcmProbed(token)
       ELSE /\ readiness' = [applyNet(readiness, state) EXCEPT !.apiReady = TRUE]
            /\ UNCHANGED fcm
    /\ UNCHANGED rpc

\* A positive MISMATCH at boot exits; systemd starts the server again.
Boot ==
    /\ ~readiness.apiReady
    /\ \E state \in {"VERIFIED", "UNKNOWN"}, token, program, executor \in BOOLEAN :
         Refresh(state, token, program, executor)

\* At run time a MISMATCH only disables what depends on the cluster.
MonitorTick ==
    /\ readiness.apiReady
    /\ \E state \in NetStates, token, program, executor \in BOOLEAN :
         Refresh(state, token, program, executor)

ReadinessTypeOK ==
    /\ rpc \in RpcModes
    /\ readiness \in ReadinessState
    /\ fcm \in [ready : BOOLEAN, rejected : BOOLEAN]
==============================================================================
