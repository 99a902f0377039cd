------------------------------- MODULE OwnerTx -------------------------------
(***************************************************************************)
(* The owner's side of the chain: the transactions that the app and the    *)
(* web console build (VaultTransactionService.ts), and what the program    *)
(* makes of each.  The program is the one of VaultProgram.tla, seen from   *)
(* its owner: amounts, rent and shares are left out.                       *)
(*                                                                         *)
(* An asset plan is a single bequest: the index that the program stores.   *)
(***************************************************************************)
EXTENDS Naturals, Sequences, FiniteSets, SequencesExt

CONSTANTS
    Assets,       \* balances that can lie in the vault, SOL above the rent included
    HeirLists,    \* beneficiary lists that the owner may enter
    Deadline,     \* age of the heartbeat at which the vault freezes
    BatchSize,    \* instructions of one transaction (MAX_IXS_PER_TX)
    None

ASSUME OwnerTxAssumption ==
    /\ Deadline \in Nat \ {0} /\ BatchSize \in Nat \ {0} /\ IsFiniteSet(Assets)
    /\ \A hs \in HeirLists : Len(hs) > 0

VARIABLES
    vault,        \* None, or the vault account
    held,         \* assets in the vault's token accounts
    funded        \* agent keys that hold SOL

ledger == <<vault, held, funded>>

Open == vault # None /\ vault.st = "active" /\ vault.age < Deadline

NewVault(agent, heirs) ==
    [st |-> "active", agent |-> agent, age |-> 0, heirs |-> heirs, plan |-> None,
     dists |-> FALSE]

------------------------------------------------------------------------------
(* Transactions: what they do and what they were built from.               *)

Tx(do, arg) == [do |-> do, arg |-> arg]

\* The builder is chosen by the state in which the account was found.
buildInitializeVaultTx(agent, heirs) == Tx("initialize", <<agent, heirs, "none">>)
buildCloseAndReinitVaultTx(agent, heirs) == Tx("initialize", <<agent, heirs, "revoked">>)
buildCloseExecutedAndReinitVaultTx(agent, heirs) ==
    Tx("initialize", <<agent, heirs, "executed">>)

buildUpdateVaultTx(heirs) == Tx("update", heirs)
buildRevokeVaultTx == Tx("withdraw", [assets |-> {}, revoke |-> TRUE])
buildClearAssetPlanTx == Tx("clear", None)
buildCloseExecutedVaultTx == Tx("close", None)
buildCloseTokenDistTransactions ==
    IF vault # None /\ vault.dists THEN <<Tx("closeDists", None)>> ELSE << >>
buildDepositTokenTx(a) == Tx("deposit", a)
buildWithdrawTokenTx(a) == Tx("withdraw", [assets |-> {a}, revoke |-> FALSE])
buildRotateAgentTx(agent) == Tx("rotate", agent)

toOnChainAssignment(heirs, heir) ==
    [index |-> CHOOSE i \in 1..Len(heirs) : heirs[i] = heir]
buildSetAssetPlanTx(p) == Tx("setPlan", p)
buildUpdateAssetPlanTx(p) == Tx("updatePlan", p)

\* Every balance found goes home.
buildWithdrawAllInstructions == held

\* Mutant: the revocation goes out with the first batch.
RevokeFirst(assets, includeRevoke) ==
    LET order == SetToSeq(assets)
        batches == (Len(order) + BatchSize - 1) \div BatchSize
        count == IF batches = 0 /\ includeRevoke THEN 1 ELSE batches
    IN  [k \in 1..count |->
            Tx("withdraw", [assets |-> {order[i] : i \in {i \in 1..Len(order) :
                                           (i - 1) \div BatchSize = k - 1}},
                            revoke |-> includeRevoke /\ k = 1])]

\* Batches of withdrawals, the revocation at the end of the last one.
buildBatchedTxs(assets, includeRevoke) ==
    LET order == SetToSeq(assets)
        batches == (Len(order) + BatchSize - 1) \div BatchSize
        count == IF batches = 0 /\ includeRevoke THEN 1 ELSE batches
    IN  [k \in 1..count |->
            Tx("withdraw", [assets |-> {order[i] : i \in {i \in 1..Len(order) :
                                           (i - 1) \div BatchSize = k - 1}},
                            revoke |-> includeRevoke /\ k = count])]

------------------------------------------------------------------------------
(* What the program makes of them; a transaction is atomic.                *)

Replaces(state) ==
    \/ state = "none" /\ vault = None
    \/ state = "revoked" /\ vault # None /\ vault.st = "revoked"
    \/ state = "executed" /\ vault # None /\ vault.st = "executed" /\ ~vault.dists

\* The transaction that creates the vault funds the agent's key as well.
Initialize(arg) ==
    /\ Replaces(arg[3])
    /\ vault' = NewVault(arg[1], arg[2])
    /\ funded' = funded \cup {arg[1]}
    /\ UNCHANGED held

UpdateVault(heirs) ==
    /\ Open /\ vault.plan = None
    /\ vault' = [vault EXCEPT !.heirs = heirs]
    /\ UNCHANGED <<held, funded>>

SetPlan(p) ==
    /\ Open /\ vault.plan = None /\ p.index <= Len(vault.heirs)
    /\ vault' = [vault EXCEPT !.plan = p]
    /\ UNCHANGED <<held, funded>>

UpdatePlan(p) ==
    /\ Open /\ vault.plan # None /\ p.index <= Len(vault.heirs)
    /\ vault' = [vault EXCEPT !.plan = p]
    /\ UNCHANGED <<held, funded>>

ClearPlan ==
    /\ Open /\ vault.plan # None
    /\ vault' = [vault EXCEPT !.plan = None]
    /\ UNCHANGED <<held, funded>>

\* A withdrawal of a balance that is no longer there takes the others with it.
Withdraw(arg) ==
    /\ Open /\ arg.assets \subseteq held
    /\ held' = held \ arg.assets
    /\ vault' = IF arg.revoke THEN None ELSE vault
    /\ UNCHANGED funded

Rotate(agent) ==
    /\ Open /\ agent # vault.agent
    /\ vault' = [vault EXCEPT !.agent = agent, !.age = 0]
    /\ UNCHANGED <<held, funded>>

CloseDists ==
    /\ vault # None /\ vault.dists
    /\ vault' = [vault EXCEPT !.dists = FALSE]
    /\ UNCHANGED <<held, funded>>

CloseExecuted ==
    /\ vault # None /\ vault.st = "executed" /\ ~vault.dists
    /\ vault' = None
    /\ UNCHANGED <<held, funded>>

\* A transfer needs no vault.
Deposit(a) == held' = held \cup {a} /\ UNCHANGED <<vault, funded>>

Executes(tx) ==
    \/ tx.do = "initialize" /\ Initialize(tx.arg)
    \/ tx.do = "update" /\ UpdateVault(tx.arg)
    \/ tx.do = "setPlan" /\ SetPlan(tx.arg)
    \/ tx.do = "updatePlan" /\ UpdatePlan(tx.arg)
    \/ tx.do = "clear" /\ ClearPlan
    \/ tx.do = "withdraw" /\ Withdraw(tx.arg)
    \/ tx.do = "rotate" /\ Rotate(tx.arg)
    \/ tx.do = "closeDists" /\ CloseDists
    \/ tx.do = "close" /\ CloseExecuted
    \/ tx.do = "deposit" /\ Deposit(tx.arg)

\* record_heartbeat, signed by the agent's key.
recordHeartbeatOnChain(agent) ==
    /\ Open /\ vault.agent = agent
    /\ vault' = [vault EXCEPT !.age = 0]
    /\ UNCHANGED <<held, funded>>

\* The agent's SOL goes back to the owner.
refundAgentSol(agent) == funded' = funded \ {agent}

------------------------------------------------------------------------------
(* The others: the clock, crankers, people who send something.             *)

Ages ==
    /\ vault # None /\ vault.age < Deadline
    /\ vault' = [vault EXCEPT !.age = @ + 1]
    /\ UNCHANGED <<held, funded>>

\* The crankers distribute what the vault holds.
Executed ==
    /\ vault # None /\ vault.st = "active" /\ vault.age = Deadline
    /\ vault' = [vault EXCEPT !.st = "executed", !.dists = held # {}]
    /\ held' = {}
    /\ UNCHANGED funded

CrankerCloses == (CloseDists \/ CloseExecuted)

Arrives(a) == a \notin held /\ Deposit(a)
==============================================================================
