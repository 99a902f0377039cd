----------------------------- MODULE VaultProgram -----------------------------
(***************************************************************************)
(* The Anchor program dead-mans-vault: one owner's vault, the accounts the *)
(* program derives from it, and every instruction that changes them.  An   *)
(* instruction is one atomic action: it either meets all of its `require!` *)
(* and account constraints and commits, or leaves the chain unchanged.     *)
(*                                                                         *)
(* Accounts.  A PDA that is not initialised is NoAccount.                  *)
(*   vault      VaultConfig           heartbeat  HeartbeatRecord           *)
(*   log        ExecutionLog          plan       AssetPlan                 *)
(*   dist[m]    TokenDist of mint m   ata[m]     the vault's canonical ATA *)
(* Balances.  lamports is the balance of the VaultConfig PDA, which holds  *)
(* the deposited SOL above its rent; sol and tokens are what the other     *)
(* accounts hold.  The rents of the other PDAs are not tracked.            *)
(* Paid masks are the sets of the indices (from 1) whose bit is set.       *)
(***************************************************************************)
EXTENDS Integers, Sequences, FiniteSets, Sums

CONSTANTS
    NoAccount,         \* an address that holds no initialised account
    NoChange,          \* Option::None in UpdateVaultParams
    Owner, FeeWallet, VaultKey,
    Payers,            \* signers that crank the permissionless instructions
    Wallets,           \* wallets an owner may name as beneficiaries
    Agents,            \* device keys an owner may name as agent
    Mints, SOL,        \* token mints, and the zero-pubkey sentinel for SOL
    NotAMint,          \* an address that does not load as a mint
    Rent,              \* rent-exempt minimum of the VaultConfig account
    CreationFee, MaxBounty, CloseDelay,
    MinInterval, MaxInterval, MinGrace, MaxGrace,
    MaxBeneficiaries, MaxAssignments,
    I64Max,            \* the largest i64 timestamp
    \* Inputs the callers may pass, valid or not.
    IntervalInputs, GraceInputs, BeneficiaryInputs, PlanInputs, BountyInputs,
    Amounts,           \* amounts a deposit or a withdrawal may have
    \* What exists outside the vault when the run starts.
    InitialSol, InitialTokens,
    Depositors,        \* accounts that transfer into the vault
    Freezable,         \* mints whose issuer may block their transfers
    ZombieVaults,      \* vaults that an older version of the program revoked
    ZombieTime,        \* when it did, right after a heartbeat
    MaxTime            \* bound: the clock stops here

Accounts == {Owner, FeeWallet} \cup Payers \cup Wallets

Beneficiary == [wallet : Wallets \cup {Owner, VaultKey}, share_bps : Nat]
AssetAssignment ==
    [mint : Mints \cup {SOL, NotAMint}, amount : Nat,
     beneficiary_index : Nat, is_nft : BOOLEAN]

ASSUME BoundsAssumption ==
    /\ {Rent, CreationFee, MaxBounty, CloseDelay, I64Max, MaxTime} \subseteq Nat
    /\ {MinInterval, MaxInterval, MinGrace, MaxGrace} \subseteq Nat
    /\ {MaxBeneficiaries, MaxAssignments} \subseteq Nat
    /\ MaxTime + MaxInterval + MaxGrace <= I64Max

ASSUME InputsAssumption ==
    /\ IntervalInputs \cup GraceInputs \cup BountyInputs \cup Amounts \subseteq Nat
    /\ NoChange \notin Nat
    /\ BeneficiaryInputs \subseteq Seq(Beneficiary)
    /\ NoChange \notin BeneficiaryInputs
    /\ PlanInputs \subseteq Seq(AssetAssignment)
    /\ InitialSol \in [Accounts -> Nat]
    /\ InitialTokens \in [Mints -> [Accounts -> Nat]]
    /\ Depositors \subseteq Accounts
    /\ Freezable \subseteq Mints

ASSUME KeysAssumption ==
    /\ Owner \notin Wallets
    /\ VaultKey \notin Accounts
    /\ SOL \notin Mints
    /\ NotAMint \notin Mints \cup {SOL}
    /\ IsFiniteSet(Mints)

VARIABLES
    now,         \* Clock::unix_timestamp
    vault, heartbeat, log, plan, dist,
    lamports, ata,
    sol,         \* sol[a]: lamports held by account a
    tokens,      \* tokens[m][a]: units of mint m held by a's token accounts
    stuck        \* mints whose transfers revert (paused, frozen) for now

accounts == <<vault, heartbeat, log, plan, dist>>
balances == <<lamports, ata, sol, tokens>>
vars == <<now, accounts, balances, stuck>>

-------------------------------------------------------------------------------
(* Arithmetic and the helpers of util.rs and constants.rs.                    *)

\* Mutant: a plain subtraction where the code saturates.
PlainSub(a, b) == a - b

SatSub(a, b) == IF a > b THEN a - b ELSE 0

Lesser(a, b) == IF a < b THEN a ELSE b

Deadline == heartbeat + vault.heartbeat_interval + vault.grace_period

\* Mutants: owner and crank both admitted at the deadline; grace forgotten.
NotFrozenAtDeadline == Deadline <= I64Max /\ now <= Deadline

IntervalElapsed == now >= heartbeat + vault.heartbeat_interval

\* Both tests fail when the checked additions of deadline() overflow.
NotFrozen == Deadline <= I64Max /\ now < Deadline

GraceElapsed == Deadline <= I64Max /\ now >= Deadline

Share(snapshot, bps) == (snapshot * bps) \div 10000

Indices == 1..Len(vault.beneficiaries)

WalletOf(i) == vault.beneficiaries[i].wallet

\* Shares[i] is the pro-rata share of beneficiary i in a frozen snapshot.
Shares(snapshot) ==
    [i \in Indices |-> Share(snapshot, vault.beneficiaries[i].share_bps)]

\* The indices of assignments for one mint, and of the ones before j.
OfMint(assignments, mint) ==
    {k \in 1..Len(assignments) : assignments[k].mint = mint}

\* Mutant: bequests of one mint paid in any order.
AnyOrder(assignments, mint, j) == {}

LowerIndexSameMint(assignments, mint, j) ==
    {k \in OfMint(assignments, mint) : k < j}

AssignedAmounts(assignments) ==
    [k \in 1..Len(assignments) |-> assignments[k].amount]

\* What the plan bequeaths of one mint in all (0 without a plan).
SpecificSum(mint) ==
    IF vault.has_asset_plan
      THEN SumOver(Len(plan.assignments), OfMint(plan.assignments, mint),
                   AssignedAmounts(plan.assignments))
      ELSE 0

\* Mutant: the dust to the first beneficiary.
FirstIndex(bs) == 1

\* The largest share, the lowest index among equals: the dust destination.
LargestShareIndex(bs) ==
    CHOOSE i \in 1..Len(bs) :
        /\ \A k \in 1..Len(bs) : bs[k].share_bps <= bs[i].share_bps
        /\ \A k \in 1..(i - 1) : bs[k].share_bps < bs[i].share_bps

LargestWallet == WalletOf(LargestShareIndex(vault.beneficiaries))

Available == SatSub(lamports, Rent)

\* held with what the paid beneficiaries receive of amounts added.
Credited(held, paid, amounts) ==
    [a \in Accounts |->
        held[a] + SumOver(Len(vault.beneficiaries),
                          {i \in paid : WalletOf(i) = a}, amounts)]

VaultExists == vault # NoAccount /\ heartbeat # NoAccount

OpenForOwner == VaultExists /\ vault.active /\ ~vault.executed /\ NotFrozen

-------------------------------------------------------------------------------
(* Setup and owner instructions.                                              *)

\* Mutant: no upper bound.
ValidIntervalFromBelow(i) == MinInterval <= i

ValidInterval(i) == MinInterval <= i /\ i <= MaxInterval

ValidGrace(g) == MinGrace <= g /\ g <= MaxGrace

ValidBeneficiaries(bs) ==
    /\ Len(bs) \in 1..MaxBeneficiaries
    /\ SumTo(Len(bs), [i \in 1..Len(bs) |-> bs[i].share_bps]) = 10000
    /\ \A i \in 1..Len(bs) : bs[i].wallet # Owner

\* The zero key is the same default pubkey that stands for SOL.
ValidAgent(agent) == agent # SOL /\ agent # Owner

InitializeVault(agent, interval, grace, bs, mutable, bounty) ==
    /\ vault = NoAccount /\ heartbeat = NoAccount
    /\ ValidInterval(interval) /\ ValidGrace(grace) /\ ValidBeneficiaries(bs)
    /\ ValidAgent(agent)
    /\ bounty <= MaxBounty
    /\ sol[Owner] >= SatSub(Rent, lamports) + CreationFee
    /\ vault' = [agent_pubkey |-> agent, heartbeat_interval |-> interval,
                 grace_period |-> grace, beneficiaries |-> bs,
                 executed |-> FALSE, active |-> TRUE, is_mutable |-> mutable,
                 has_asset_plan |-> FALSE, open_token_dists |-> 0,
                 keeper_bounty |-> bounty]
    /\ heartbeat' = now
    /\ lamports' = lamports + SatSub(Rent, lamports)
    /\ sol' = [sol EXCEPT ![Owner] = @ - SatSub(Rent, lamports) - CreationFee,
                          ![FeeWallet] = @ + CreationFee]
    /\ UNCHANGED <<now, log, plan, dist, ata, tokens, stuck>>

\* Mutant: beneficiary edits beside a plan.
AlwaysEditable == TRUE

\* update_vault refuses new beneficiaries while bequests index the old ones.
BeneficiariesEditable == ~vault.has_asset_plan

UpdateVault(interval, grace, bs) ==
    /\ OpenForOwner
    /\ vault.is_mutable
    /\ interval # NoChange => ValidInterval(interval)
    /\ grace # NoChange => ValidGrace(grace)
    /\ bs # NoChange => BeneficiariesEditable /\ ValidBeneficiaries(bs)
    /\ vault' = [vault EXCEPT
           !.heartbeat_interval = IF interval = NoChange THEN @ ELSE interval,
           !.grace_period = IF grace = NoChange THEN @ ELSE grace,
           !.beneficiaries = IF bs = NoChange THEN @ ELSE bs]
    /\ UNCHANGED <<now, heartbeat, log, plan, dist, balances, stuck>>

RecordHeartbeat(agent) ==
    /\ OpenForOwner
    /\ vault.agent_pubkey = agent
    /\ heartbeat' = now
    /\ UNCHANGED <<now, vault, log, plan, dist, balances, stuck>>

RotateAgent(agent) ==
    /\ OpenForOwner
    /\ ValidAgent(agent)
    /\ agent # vault.agent_pubkey
    /\ vault' = [vault EXCEPT !.agent_pubkey = agent]
    /\ heartbeat' = now
    /\ UNCHANGED <<now, log, plan, dist, balances, stuck>>

\* Mutant: the AssetPlan left behind.
PlanKept == plan

\* The AssetPlan PDA closes together with a vault that says it has one.
PlanClosed == IF vault.has_asset_plan THEN NoAccount ELSE plan

RevokeVault ==
    /\ OpenForOwner
    /\ vault.is_mutable
    /\ vault.has_asset_plan => plan # NoAccount
    /\ plan' = PlanClosed
    /\ vault' = NoAccount
    /\ heartbeat' = NoAccount
    /\ sol' = [sol EXCEPT ![Owner] = @ + lamports]
    /\ lamports' = 0
    /\ UNCHANGED <<now, log, dist, ata, tokens, stuck>>

ValidAssignments(assignments, count) ==
    /\ Len(assignments) <= MaxAssignments
    /\ \A k \in 1..Len(assignments) :
        LET a == assignments[k] IN
        /\ a.beneficiary_index \in 1..count
        /\ a.mint = SOL => ~a.is_nft /\ a.amount > 0
        /\ \A p \in 1..(k - 1) :
               ~(a.is_nft /\ assignments[p].is_nft /\ assignments[p].mint = a.mint)

ValidPlanMints(assignments) ==
    \A k \in 1..Len(assignments) : assignments[k].mint \in Mints \cup {SOL}

NewPlan(assignments) == [assignments |-> assignments, paid_mask |-> {}]

SetAssetPlan(assignments) ==
    /\ OpenForOwner
    /\ plan = NoAccount
    /\ ValidAssignments(assignments, Len(vault.beneficiaries))
    /\ ValidPlanMints(assignments)
    /\ plan' = NewPlan(assignments)
    /\ vault' = [vault EXCEPT !.has_asset_plan = TRUE]
    /\ UNCHANGED <<now, heartbeat, log, dist, balances, stuck>>

UpdateAssetPlan(assignments) ==
    /\ OpenForOwner
    /\ vault.has_asset_plan /\ plan # NoAccount
    /\ ValidAssignments(assignments, Len(vault.beneficiaries))
    /\ ValidPlanMints(assignments)
    /\ plan' = NewPlan(assignments)
    /\ UNCHANGED <<now, vault, heartbeat, log, dist, balances, stuck>>

ClearAssetPlan ==
    /\ OpenForOwner
    /\ vault.has_asset_plan /\ plan # NoAccount
    /\ plan' = NoAccount
    /\ vault' = [vault EXCEPT !.has_asset_plan = FALSE]
    /\ UNCHANGED <<now, heartbeat, log, dist, balances, stuck>>

\* The withdrawals check the deadline, but neither `active` nor `executed`.
WithdrawSolFromVault(amount) ==
    /\ VaultExists /\ NotFrozen
    /\ amount > 0 /\ lamports >= Rent /\ amount <= lamports - Rent
    /\ lamports' = lamports - amount
    /\ sol' = [sol EXCEPT ![Owner] = @ + amount]
    /\ UNCHANGED <<now, accounts, ata, tokens, stuck>>

WithdrawFromVault(m, amount) ==
    /\ VaultExists /\ NotFrozen
    /\ m \notin stuck
    /\ ata[m] # NoAccount /\ amount <= ata[m]
    /\ ata' = [ata EXCEPT ![m] = @ - amount]
    /\ tokens' = [tokens EXCEPT ![m][Owner] = @ + amount]
    /\ UNCHANGED <<now, accounts, lamports, sol, stuck>>

-------------------------------------------------------------------------------
(* Permissionless execution.                                                  *)

\* Mutant: the bounty left in the residual.
SolResidualWithBounty == SatSub(Available, SpecificSum(SOL))

\* What the beneficiaries share pro rata: neither bequeathed, bounty nor rent.
SolResidual ==
    SatSub(SatSub(Available, SpecificSum(SOL)), vault.keeper_bounty)

BeginExecution ==
    /\ VaultExists /\ ~vault.executed
    /\ log = NoAccount
    /\ GraceElapsed
    /\ vault.has_asset_plan => plan # NoAccount
    /\ log' = [sol_snapshot |-> SolResidual,
               sol_paid_mask |-> {}, started_at |-> now, completed |-> FALSE,
               transfer_count |-> 0, total_sol_distributed |-> 0]
    /\ UNCHANGED <<now, vault, heartbeat, plan, dist, balances, stuck>>

\* An absent ATA reads as 0.
AtaBalance(m) == IF ata[m] = NoAccount THEN 0 ELSE ata[m]

\* Mutant: the specific bequests left in the residual.
TokenResidualWithSpecifics(m) == AtaBalance(m)

TokenResidual(m) == SatSub(AtaBalance(m), SpecificSum(m))

BeginTokenDist(m) ==
    /\ vault # NoAccount /\ log # NoAccount
    /\ dist[m] = NoAccount
    /\ vault.has_asset_plan => plan # NoAccount
    /\ \/ AtaBalance(m) > 0
       \/ vault.has_asset_plan /\ OfMint(plan.assignments, m) # {}
    /\ dist' = [dist EXCEPT ![m] =
           [snapshot |-> TokenResidual(m), paid_mask |-> {}]]
    /\ vault' = [vault EXCEPT !.open_token_dists = @ + 1]
    /\ UNCHANGED <<now, heartbeat, log, plan, balances, stuck>>

\* The checks shared by both payments of a specific bequest.
PayableSpecific(j, mint) ==
    /\ vault # NoAccount /\ log # NoAccount /\ plan # NoAccount
    /\ j \in OfMint(plan.assignments, mint)
    /\ plan.assignments[j].beneficiary_index \in Indices
    /\ WalletOf(plan.assignments[j].beneficiary_index) # VaultKey
    /\ LowerIndexSameMint(plan.assignments, mint, j) \subseteq plan.paid_mask
    /\ j \notin plan.paid_mask

ExecuteSpecificAsset(m, j) ==
    /\ PayableSpecific(j, m)
    /\ dist[m] # NoAccount /\ ata[m] # NoAccount
    /\ LET a == plan.assignments[j]
           amt == Lesser(a.amount, ata[m])
       IN /\ amt > 0 => m \notin stuck
          /\ ata' = [ata EXCEPT ![m] = @ - amt]
          /\ tokens' = [tokens EXCEPT ![m][WalletOf(a.beneficiary_index)] = @ + amt]
    /\ plan' = [plan EXCEPT !.paid_mask = @ \cup {j}]
    /\ UNCHANGED <<now, vault, heartbeat, log, dist, lamports, sol, stuck>>

ExecuteSpecificSol(j) ==
    /\ PayableSpecific(j, SOL)
    /\ LET a == plan.assignments[j]
           amt == Lesser(a.amount, Available)
       IN /\ lamports' = lamports - amt
          /\ sol' = [sol EXCEPT ![WalletOf(a.beneficiary_index)] = @ + amt]
    /\ plan' = [plan EXCEPT !.paid_mask = @ \cup {j}]
    /\ UNCHANGED <<now, vault, heartbeat, log, dist, ata, tokens, stuck>>

\* A batch skips the indices that are already paid.
StillUnpaid(batch, paid) == batch \ paid

ExecuteSolShares(batch) ==
    /\ vault # NoAccount /\ ~vault.executed /\ log # NoAccount
    /\ batch \subseteq Indices
    /\ LET shares == Shares(log.sol_snapshot)
           fresh == StillUnpaid(batch, log.sol_paid_mask)
           paying == {i \in fresh : shares[i] > 0}
           total == SumOver(Len(vault.beneficiaries), paying, shares)
       IN /\ \A i \in paying : WalletOf(i) # VaultKey
          /\ total <= lamports
          /\ lamports' = lamports - total
          /\ sol' = Credited(sol, paying, shares)
          /\ log' = [log EXCEPT !.sol_paid_mask = @ \cup fresh,
                                !.transfer_count = @ + Cardinality(paying),
                                !.total_sol_distributed = @ + total]
    /\ UNCHANGED <<now, vault, heartbeat, plan, dist, ata, tokens, stuck>>

\* A share that the vault PDA itself would receive stays in its own ATA.
ExecuteTokenShares(m, batch) ==
    /\ vault # NoAccount
    /\ dist[m] # NoAccount /\ ata[m] # NoAccount
    /\ batch \subseteq Indices
    /\ LET shares == Shares(dist[m].snapshot)
           fresh == StillUnpaid(batch, dist[m].paid_mask)
           paying == {i \in fresh : shares[i] > 0}
           leaving == {i \in paying : WalletOf(i) # VaultKey}
           total == SumOver(Len(vault.beneficiaries), leaving, shares)
       IN /\ paying # {} => m \notin stuck
          /\ total <= ata[m]
          /\ ata' = [ata EXCEPT ![m] = @ - total]
          /\ tokens' = [tokens EXCEPT ![m] = Credited(@, leaving, shares)]
          /\ dist' = [dist EXCEPT ![m].paid_mask = @ \cup fresh]
    /\ UNCHANGED <<now, vault, heartbeat, log, plan, lamports, sol, stuck>>

\* Mutant: a mask one bit short.
AlmostFullPlan == 1..(Len(plan.assignments) - 1) \subseteq plan.paid_mask

FullPlan == plan.paid_mask = 1..Len(plan.assignments)

FinalizeExecution(payer) ==
    /\ vault # NoAccount /\ ~vault.executed /\ log # NoAccount
    /\ log.sol_paid_mask = Indices
    /\ vault.has_asset_plan => plan # NoAccount /\ FullPlan
    /\ vault' = [vault EXCEPT !.executed = TRUE, !.active = FALSE]
    /\ log' = [log EXCEPT !.completed = TRUE]
    /\ LET amt == Lesser(vault.keeper_bounty, Available)
       IN /\ lamports' = lamports - amt
          /\ sol' = [sol EXCEPT ![payer] = @ + amt]
    /\ UNCHANGED <<now, heartbeat, plan, dist, ata, tokens, stuck>>

\* Mutant: the decrement forgotten.
StillOpen(n) == n

OneLessOpen(n) == SatSub(n, 1)

\* Sweeps the dust and closes the ATA, which must then be empty.
CloseTokenDist(m) ==
    /\ vault # NoAccount /\ vault.executed
    /\ dist[m] # NoAccount /\ ata[m] # NoAccount
    /\ dist[m].paid_mask = Indices
    /\ ata[m] > 0 => m \notin stuck /\ LargestWallet # VaultKey
    /\ tokens' = [tokens EXCEPT ![m] =
           [a \in Accounts |-> @[a] + IF a = LargestWallet THEN ata[m] ELSE 0]]
    /\ ata' = [ata EXCEPT ![m] = NoAccount]
    /\ dist' = [dist EXCEPT ![m] = NoAccount]
    /\ vault' = [vault EXCEPT !.open_token_dists = OneLessOpen(@)]
    /\ UNCHANGED <<now, heartbeat, log, plan, lamports, sol, stuck>>

-------------------------------------------------------------------------------
(* Closing the core accounts.                                                 *)

\* Dust above the rent to the largest-share beneficiary, the rest to rentTo.
CloseCore(rentTo) ==
    /\ vault.has_asset_plan => plan # NoAccount
    /\ LET dust == IF LargestWallet = VaultKey THEN 0 ELSE Available
       IN sol' = [a \in Accounts |->
              sol[a] + (IF a = LargestWallet THEN dust ELSE 0)
                     + (IF a = rentTo THEN lamports - dust ELSE 0)]
    /\ lamports' = 0
    /\ plan' = PlanClosed
    /\ vault' = NoAccount
    /\ heartbeat' = NoAccount
    /\ log' = NoAccount
    /\ UNCHANGED <<now, dist, ata, tokens, stuck>>

CloseExecutedVault(payer) ==
    /\ VaultExists /\ vault.executed
    /\ log # NoAccount /\ log.completed
    /\ vault.open_token_dists = 0
    /\ now >= log.started_at + CloseDelay
    /\ CloseCore(payer)

CloseExecutedVaultByOwner ==
    /\ VaultExists /\ vault.executed
    /\ log # NoAccount
    /\ vault.open_token_dists = 0
    /\ CloseCore(Owner)

\* For vaults left inactive by an older version: no other account is looked at.
CloseRevokedVault ==
    /\ VaultExists /\ ~vault.active /\ ~vault.executed
    /\ vault' = NoAccount
    /\ heartbeat' = NoAccount
    /\ sol' = [sol EXCEPT ![Owner] = @ + lamports]
    /\ lamports' = 0
    /\ UNCHANGED <<now, log, plan, dist, ata, tokens, stuck>>

-------------------------------------------------------------------------------
(* The environment: the clock, transfers into the vault, mint issuers.        *)

Tick ==
    /\ now < MaxTime
    /\ now' = now + 1
    /\ UNCHANGED <<accounts, balances, stuck>>

DepositSol(from, amount) ==
    /\ amount > 0 /\ amount <= sol[from]
    /\ sol' = [sol EXCEPT ![from] = @ - amount]
    /\ lamports' = lamports + amount
    /\ UNCHANGED <<now, accounts, ata, tokens, stuck>>

CreateVaultAta(m) ==
    /\ ata[m] = NoAccount
    /\ ata' = [ata EXCEPT ![m] = 0]
    /\ UNCHANGED <<now, accounts, lamports, sol, tokens, stuck>>

DepositTokens(from, m, amount) ==
    /\ ata[m] # NoAccount /\ m \notin stuck
    /\ amount > 0 /\ amount <= tokens[m][from]
    /\ tokens' = [tokens EXCEPT ![m][from] = @ - amount]
    /\ ata' = [ata EXCEPT ![m] = @ + amount]
    /\ UNCHANGED <<now, accounts, lamports, sol, stuck>>

Freeze(m) ==
    /\ m \notin stuck
    /\ stuck' = stuck \cup {m}
    /\ UNCHANGED <<now, accounts, balances>>

Thaw(m) ==
    /\ m \in stuck
    /\ stuck' = stuck \ {m}
    /\ UNCHANGED <<now, accounts, balances>>

-------------------------------------------------------------------------------
Init ==
    /\ now = 0
    /\ vault = NoAccount /\ heartbeat = NoAccount
    /\ log = NoAccount /\ plan = NoAccount
    /\ dist = [m \in Mints |-> NoAccount]
    /\ lamports = 0 /\ ata = [m \in Mints |-> NoAccount]
    /\ sol = InitialSol /\ tokens = InitialTokens
    /\ stuck = {}

\* A chain on which an older version of the program left a revoked vault.
ZombieInit ==
    /\ now = ZombieTime
    /\ vault \in ZombieVaults /\ heartbeat = ZombieTime
    /\ log = NoAccount /\ plan = NoAccount
    /\ dist = [m \in Mints |-> NoAccount]
    /\ lamports = Rent /\ ata = [m \in Mints |-> NoAccount]
    /\ sol = InitialSol /\ tokens = InitialTokens
    /\ stuck = {}

OwnerNext ==
    \/ \E agent \in Agents, interval \in IntervalInputs, grace \in GraceInputs,
          bs \in BeneficiaryInputs, mutable \in BOOLEAN, bounty \in BountyInputs :
           InitializeVault(agent, interval, grace, bs, mutable, bounty)
    \/ \E interval \in IntervalInputs \cup {NoChange},
          grace \in GraceInputs \cup {NoChange},
          bs \in BeneficiaryInputs \cup {NoChange} : UpdateVault(interval, grace, bs)
    \/ \E agent \in Agents : RotateAgent(agent)
    \/ \E assignments \in PlanInputs : SetAssetPlan(assignments)
    \/ \E assignments \in PlanInputs : UpdateAssetPlan(assignments)
    \/ ClearAssetPlan
    \/ \E amount \in Amounts : WithdrawSolFromVault(amount)
    \/ \E m \in Mints, amount \in Amounts : WithdrawFromVault(m, amount)
    \/ RevokeVault
    \/ CloseRevokedVault
    \/ CloseExecutedVaultByOwner

AgentNext == \E agent \in Agents : RecordHeartbeat(agent)

CrankNext ==
    \/ BeginExecution
    \/ \E m \in Mints : BeginTokenDist(m)
    \/ \E m \in Mints : \E j \in 1..MaxAssignments : ExecuteSpecificAsset(m, j)
    \/ \E j \in 1..MaxAssignments : ExecuteSpecificSol(j)
    \/ \E batch \in SUBSET (1..MaxBeneficiaries) : ExecuteSolShares(batch)
    \/ \E m \in Mints, batch \in SUBSET (1..MaxBeneficiaries) :
           ExecuteTokenShares(m, batch)
    \/ \E payer \in Payers : FinalizeExecution(payer)
    \/ \E m \in Mints : CloseTokenDist(m)
    \/ \E payer \in Payers : CloseExecutedVault(payer)

EnvironmentNext ==
    \/ Tick
    \/ \E from \in Depositors, amount \in Amounts : DepositSol(from, amount)
    \/ \E m \in Mints : CreateVaultAta(m)
    \/ \E from \in Depositors, m \in Mints, amount \in Amounts :
           DepositTokens(from, m, amount)
    \/ \E m \in Freezable : Freeze(m)
    \/ \E m \in Freezable : Thaw(m)

Next == OwnerNext \/ AgentNext \/ CrankNext \/ EnvironmentNext

Spec == Init /\ [][Next]_vars

ZombieSpec == ZombieInit /\ [][Next]_vars

\* Either chain to start from.
LifeSpec == (Init \/ ZombieInit) /\ [][Next]_vars

-------------------------------------------------------------------------------
(* Types.                                                                     *)

VaultConfig ==
    [agent_pubkey : Agents, heartbeat_interval : Nat, grace_period : Nat,
     beneficiaries : Seq(Beneficiary), executed : BOOLEAN, active : BOOLEAN,
     is_mutable : BOOLEAN, has_asset_plan : BOOLEAN, open_token_dists : Nat,
     keeper_bounty : Nat]

ExecutionLog ==
    [sol_snapshot : Nat, sol_paid_mask : SUBSET Nat, started_at : Nat,
     completed : BOOLEAN, transfer_count : Nat, total_sol_distributed : Nat]

AssetPlan == [assignments : Seq(AssetAssignment), paid_mask : SUBSET Nat]

TokenDist == [snapshot : Nat, paid_mask : SUBSET Nat]

ASSUME NoAccountAssumption ==
    NoAccount \notin VaultConfig \cup ExecutionLog \cup AssetPlan \cup TokenDist \cup Nat

\* Every account holds data of its own type, and no balance is negative.
TypeOK ==
    /\ now \in Nat
    /\ vault \in VaultConfig \cup {NoAccount}
    /\ heartbeat \in Nat \cup {NoAccount}
    /\ log \in ExecutionLog \cup {NoAccount}
    /\ plan \in AssetPlan \cup {NoAccount}
    /\ dist \in [Mints -> TokenDist \cup {NoAccount}]
    /\ lamports \in Nat
    /\ ata \in [Mints -> Nat \cup {NoAccount}]
    /\ sol \in [Accounts -> Nat]
    /\ tokens \in [Mints -> [Accounts -> Nat]]
    /\ stuck \subseteq Mints

-------------------------------------------------------------------------------
(* Safety.                                                                    *)

\* The accounts derived from a vault come and go with it: none outlives the
\* core close or the revocation (a leftover would revive with stale state when
\* the wallet initialises again), and has_asset_plan tells exactly whether the
\* AssetPlan PDA exists (a stale flag blocks execution, a stray PDA blocks the
\* next set_asset_plan).
AccountsTogether ==
    /\ vault = NoAccount <=> heartbeat = NoAccount
    /\ vault = NoAccount =>
           /\ log = NoAccount /\ plan = NoAccount
           /\ \A m \in Mints : dist[m] = NoAccount
    /\ vault # NoAccount => (vault.has_asset_plan <=> plan # NoAccount)

\* The existence of the ExecutionLog proves that grace elapsed, which is why
\* no downstream instruction loads the heartbeat, and why no owner or agent
\* instruction gated on the deadline can ever run beside an execution.
LogProvesGrace == VaultExists /\ log # NoAccount => GraceElapsed

\* No accepted configuration makes the checked additions of deadline()
\* overflow, which would disable every instruction and lock the funds.
DeadlineNeverOverflows == VaultExists => Deadline <= I64Max

\* Every bequest points at a beneficiary the vault has, however beneficiary
\* edits and plan edits interleave.
PlanIndicesInRange ==
    plan # NoAccount =>
        \A k \in 1..Len(plan.assignments) :
            plan.assignments[k].beneficiary_index \in Indices

UnpaidShares(snapshot, paid) ==
    SumOver(Len(vault.beneficiaries), Indices \ paid, Shares(snapshot))

UnpaidSpecifics(mint) ==
    IF plan = NoAccount THEN 0
      ELSE SumOver(Len(plan.assignments),
                   OfMint(plan.assignments, mint) \ plan.paid_mask,
                   AssignedAmounts(plan.assignments))

\* execute_sol_shares debits without looking at the rent; the snapshot taken at
\* begin_execution must therefore keep the rent, every share still owed and,
\* when the pro-rata residual is not empty, every bequest still owed and the
\* bounty covered, whatever the order of the cranks and the late transfers.
SolSolvent ==
    /\ vault # NoAccount => lamports >= Rent
    /\ log # NoAccount /\ vault # NoAccount =>
           LET owed == UnpaidShares(log.sol_snapshot, log.sol_paid_mask) IN
           /\ owed <= Available
           /\ log.sol_snapshot > 0 /\ ~vault.executed =>
                  owed + UnpaidSpecifics(SOL) + vault.keeper_bounty <= Available

\* The same for every open token distribution: specific bequests and residual
\* shares of a mint never compete for its balance.
TokenSolvent ==
    \A m \in Mints : dist[m] # NoAccount /\ vault # NoAccount =>
        LET owed == UnpaidShares(dist[m].snapshot, dist[m].paid_mask) IN
        /\ owed <= AtaBalance(m)
        /\ dist[m].snapshot > 0 => owed + UnpaidSpecifics(m) <= AtaBalance(m)

\* open_token_dists, the gate of both core closes, counts the TokenDist
\* accounts that exist.
OpenDistsCounted ==
    vault # NoAccount =>
        vault.open_token_dists = Cardinality({m \in Mints : dist[m] # NoAccount})

\* What the owner configured stays acceptable, the flags `active` and `executed`
\* exclude each other, and only an execution that began is ever executed.
VaultInOrder ==
    vault # NoAccount =>
        /\ vault.active <=> ~vault.executed
        /\ ValidInterval(vault.heartbeat_interval)
        /\ ValidGrace(vault.grace_period)
        /\ ValidBeneficiaries(vault.beneficiaries)
        /\ heartbeat <= now
        /\ vault.executed => log # NoAccount

DistsNeedLog == \A m \in Mints : dist[m] # NoAccount => log # NoAccount

\* The inductive invariant of the life of a vault.
LifecycleInv ==
    /\ TypeOK
    /\ now <= MaxTime
    /\ AccountsTogether
    /\ VaultInOrder
    /\ DistsNeedLog
    /\ LogProvesGrace
    /\ OpenDistsCounted
    /\ PlanIndicesInRange

-------------------------------------------------------------------------------
(* What a step may never do.                                                  *)

\* From begin_execution until the core accounts close, nothing changes what
\* the execution distributes: snapshot, start, beneficiaries, bounty, bequests
\* and heartbeat stay, and paid bits are only ever set.
ExecutionTermsFrozen ==
    [][log # NoAccount /\ vault' # NoAccount =>
         /\ log' # NoAccount
         /\ log'.sol_snapshot = log.sol_snapshot
         /\ log'.started_at = log.started_at
         /\ log.sol_paid_mask \subseteq log'.sol_paid_mask
         /\ heartbeat' = heartbeat
         /\ vault'.beneficiaries = vault.beneficiaries
         /\ vault'.keeper_bounty = vault.keeper_bounty
         /\ plan # NoAccount =>
                /\ plan' # NoAccount
                /\ plan'.assignments = plan.assignments
                /\ plan.paid_mask \subseteq plan'.paid_mask]_vars

\* Once grace has elapsed the estate leaves the vault only towards its
\* beneficiaries, apart from the bounty and, at the close, the rent.
EstateOnlyToHeirs ==
    [][VaultExists /\ GraceElapsed /\ (\A i \in Indices : WalletOf(i) # VaultKey) =>
         LET heirs == {WalletOf(i) : i \in Indices} IN
         /\ \A a \in Accounts \ heirs :
                sol'[a] - sol[a] <= IF vault' = NoAccount THEN Rent
                                    ELSE IF vault'.executed # vault.executed
                                         THEN vault.keeper_bounty ELSE 0
         /\ \A m \in Mints, a \in Accounts \ heirs : tokens'[m][a] <= tokens[m][a]
      ]_vars

===============================================================================
