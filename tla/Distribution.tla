---------------------------- MODULE Distribution ----------------------------
(***************************************************************************)
(* What an execution promises to whoever cranks it, without balances: an   *)
(* execution begins with its debts, a debt is discharged once and never    *)
(* comes back, finalisation waits for the SOL shares and the bequests, the *)
(* residual of a mint is closed after finalisation and in full, and the    *)
(* core accounts close last.  VaultProgram implements it (Distributes in   *)
(* VaultLedger); the crankers of Crank are written against it.             *)
(***************************************************************************)
EXTENDS Naturals, FiniteSets

CONSTANTS
    DistMints,          \* the mints a vault may hold
    MaxShares,          \* upper bound of the number of beneficiaries
    MaxBequests,        \* upper bound of the number of assignments
    NoDist              \* no TokenDist account for the mint

VARIABLES
    stage,              \* "none", "begun", "executed"
    solDue,             \* beneficiaries whose SOL share is unpaid
    planDue,            \* assignments that are unpaid
    dists               \* dists[m]: NoDist, or the unpaid residual shares of m

distVars == <<stage, solDue, planDue, dists>>

NoDistOpen == \A m \in DistMints : dists[m] = NoDist

DistInit ==
    /\ stage = "none" /\ solDue = {} /\ planDue = {}
    /\ dists = [m \in DistMints |-> NoDist]

Begin(shares, bequests) ==
    /\ stage = "none"
    /\ stage' = "begun" /\ solDue' = shares /\ planDue' = bequests
    /\ UNCHANGED dists

OpenDist(m, shares) ==
    /\ stage # "none" /\ dists[m] = NoDist
    /\ dists' = [dists EXCEPT ![m] = shares]
    /\ UNCHANGED <<stage, solDue, planDue>>

PayBequest(j) ==
    /\ stage # "none" /\ j \in planDue
    /\ planDue' = planDue \ {j}
    /\ UNCHANGED <<stage, solDue, dists>>

\* Indices that are already paid are skipped.
PaySol(batch) ==
    /\ stage = "begun"
    /\ solDue' = solDue \ batch
    /\ UNCHANGED <<stage, planDue, dists>>

PayTokens(m, batch) ==
    /\ dists[m] # NoDist
    /\ dists' = [dists EXCEPT ![m] = @ \ batch]
    /\ UNCHANGED <<stage, solDue, planDue>>

Finalize ==
    /\ stage = "begun" /\ solDue = {} /\ planDue = {}
    /\ stage' = "executed"
    /\ UNCHANGED <<solDue, planDue, dists>>

CloseDist(m) ==
    /\ stage = "executed" /\ dists[m] = {}
    /\ dists' = [dists EXCEPT ![m] = NoDist]
    /\ UNCHANGED <<stage, solDue, planDue>>

\* The wallet may found another vault afterwards.
Close ==
    /\ stage = "executed" /\ NoDistOpen
    /\ stage' = "none"
    /\ UNCHANGED <<solDue, planDue, dists>>

DistNext ==
    \/ \E shares \in SUBSET (1..MaxShares), bequests \in SUBSET (1..MaxBequests) :
         Begin(shares, bequests)
    \/ \E m \in DistMints :
         \/ \E shares \in SUBSET (1..MaxShares) : OpenDist(m, shares) \/ PayTokens(m, shares)
         \/ CloseDist(m)
    \/ \E j \in 1..MaxBequests : PayBequest(j)
    \/ \E batch \in SUBSET (1..MaxShares) : PaySol(batch)
    \/ Finalize
    \/ Close

DistSpec == DistInit /\ [][DistNext]_distVars
==============================================================================
