------------------------------ MODULE MCPoller ------------------------------
(***************************************************************************)
(* Instances of Poller for TLC.                                            *)
(***************************************************************************)
EXTENDS Poller, TLC

CONSTANTS t1, t2, j1, j2

JobSymmetry == Permutations(Jobs)

(***************************************************************************)
(* No guard of Next reads pollerReady, failures, programReady or net, and  *)
(* the fields that guards do read (apiReady, networkVerified and           *)
(* executorReady) are computed without them, so that states that differ in *)
(* those four only are the same to a run that does not speak of them.      *)
(***************************************************************************)
PollView ==
    <<readiness.apiReady, readiness.networkVerified, readiness.executorReady,
      rpc, fcm, pollerVars>>

==============================================================================
