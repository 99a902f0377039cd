------------------------------ MODULE VaultLedger ------------------------------
(***************************************************************************)
(* The executions of VaultProgram seen as the debts of Distribution.       *)
(***************************************************************************)
EXTENDS VaultProgram

-------------------------------------------------------------------------------
(* The refinement mapping: an execution is the debts its masks leave open.     *)

Stage == IF log = NoAccount THEN "none" ELSE IF vault.executed THEN "executed" ELSE "begun"

SolDue == IF log = NoAccount THEN {} ELSE Indices \ log.sol_paid_mask

PlanDue ==
    IF log = NoAccount \/ plan = NoAccount THEN {}
    ELSE (1..Len(plan.assignments)) \ plan.paid_mask

DistDue ==
    [m \in Mints |-> IF dist[m] = NoAccount THEN NoAccount ELSE Indices \ dist[m].paid_mask]

Promise == INSTANCE Distribution WITH
    DistMints <- Mints, MaxShares <- MaxBeneficiaries, MaxBequests <- MaxAssignments,
    NoDist <- NoAccount,
    stage <- Stage, solDue <- SolDue, planDue <- PlanDue, dists <- DistDue

\* The program implements Distribution: whatever is interleaved, a debt of an
\* execution is discharged once, in the promised order, and none comes back.
Distributes == Promise!DistSpec

-------------------------------------------------------------------------------
(* What the refinement rests on beside LifecycleInv.                           *)

\* An open distribution, a set of unpaid indices, is never taken for a closed one.
ASSUME DebtsAssumption == \A shares \in SUBSET (1..MaxBeneficiaries) : NoAccount # shares

\* Nothing is owed of an executed vault but the residuals of its mints.
DebtsSettled == vault # NoAccount /\ vault.executed => SolDue = {} /\ PlanDue = {}

PlanShort == plan # NoAccount => Len(plan.assignments) <= MaxAssignments

\* The inductive invariant of the refinement.
LedgerInv == LifecycleInv /\ DebtsSettled /\ PlanShort
================================================================================
