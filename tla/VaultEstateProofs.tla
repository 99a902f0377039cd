--------------------------- MODULE VaultEstateProofs ---------------------------
(***************************************************************************)
(* What becomes of the estate, for every number of mints, beneficiaries    *)
(* and bequests and all amounts.  The vault can always pay what it owes:   *)
(* the shares of a snapshot never exceed it, rounding included, and the    *)
(* snapshot leaves out what the bequests and the bounty take.  Nobody but  *)
(* the heirs receives anything, and when the accounts close every heir has *)
(* exactly what the opening ledger grants it.                              *)
(***************************************************************************)
EXTENDS VaultAudit, VaultProgramProofs

USE DEF accounts, balances, vars

-------------------------------------------------------------------------------
(* What is owed, as a function of the accounts' data alone.                    *)

SharesOf(bs, snapshot) == [i \in 1..Len(bs) |-> Share(snapshot, bs[i].share_bps)]

OwedShares(bs, snapshot, paid) ==
  SumOver(Len(bs), (1..Len(bs)) \ paid, SharesOf(bs, snapshot))

OwedSpecifics(assignments, mint, paid) ==
  SumOver(Len(assignments), OfMint(assignments, mint) \ paid, AssignedAmounts(assignments))

\* The sums of SolSolvent and TokenSolvent, now and in the next state.
LEMMA OwedIs ==
  /\ \A s, p : UnpaidShares(s, p) = OwedShares(vault.beneficiaries, s, p)
  /\ \A s, p : UnpaidShares(s, p)' = OwedShares(vault'.beneficiaries, s, p)
  /\ \A s : Shares(s) = SharesOf(vault.beneficiaries, s)
  /\ \A mint : plan # NoAccount =>
         UnpaidSpecifics(mint) = OwedSpecifics(plan.assignments, mint, plan.paid_mask)
  /\ \A mint : plan' # NoAccount =>
         UnpaidSpecifics(mint)' = OwedSpecifics(plan'.assignments, mint, plan'.paid_mask)
BY DEF UnpaidShares, OwedShares, SharesOf, Shares, Indices, UnpaidSpecifics, OwedSpecifics

\* A beneficiary list that validate_beneficiaries accepted.
LEMMA SharesTyped ==
  ASSUME NEW bs \in Seq(Beneficiary), NEW snapshot \in Nat
  PROVE  /\ Len(bs) \in Nat
         /\ SharesOf(bs, snapshot) \in [1..Len(bs) -> Nat]
         /\ \A i \in 1..Len(bs) : bs[i].share_bps \in Nat
<1>1. Len(bs) \in Nat
  BY LenProperties
<1>2. \A i \in 1..Len(bs) : bs[i].share_bps \in Nat
  <2>1. \A i \in 1..Len(bs) : bs[i] \in Beneficiary
    BY ElementOfSeq
  <2>2. QED
    BY <2>1 DEF Beneficiary
<1>3. \A b \in Nat : Share(snapshot, b) \in Nat
  BY DEF Share
<1>4. QED
  BY <1>1, <1>2, <1>3 DEF SharesOf

\* Ten thousand times a rounded share is at most the product it was cut from.
LEMMA ShareRounds ==
  ASSUME NEW snapshot \in Nat, NEW bps \in Nat
  PROVE  10000 * Share(snapshot, bps) <= snapshot * bps
<1>1. snapshot * bps \in Nat
  BY Distribute
<1>2. \A x \in Nat : 10000 * (x \div 10000) <= x
  OBVIOUS
<1>3. QED
  BY <1>1, <1>2 DEF Share

\* The shares that are owed never exceed the snapshot they are cut from.
LEMMA OwedBounded ==
  ASSUME NEW bs \in Seq(Beneficiary), ValidBeneficiaries(bs), NEW snapshot \in Nat, NEW paid
  PROVE  OwedShares(bs, snapshot, paid) \in Nat /\ OwedShares(bs, snapshot, paid) <= snapshot
<1> DEFINE n == Len(bs)
           f == SharesOf(bs, snapshot)
           g == [i \in 1..n |-> bs[i].share_bps]
           owed == OwedShares(bs, snapshot, paid)
<1>1. n \in Nat /\ f \in [1..n -> Nat] /\ g \in [1..n -> Nat]
  BY SharesTyped
<1>2. \A k \in 1..n : 10000 * f[k] <= snapshot * g[k]
  <2> TAKE k \in 1..n
  <2> DEFINE b == bs[k].share_bps
  <2>1. b \in Nat /\ f[k] = Share(snapshot, b) /\ g[k] = b
    BY SharesTyped DEF SharesOf
  <2> HIDE DEF b
  <2>2. 10000 * Share(snapshot, b) <= snapshot * b
    BY <2>1, ShareRounds
  <2>3. QED
    BY <2>1, <2>2
<1>3. SumTo(n, g) = 10000
  BY DEF ValidBeneficiaries
<1>4. owed = SumOver(n, (1..n) \ paid, f)
  BY DEF OwedShares
<1> HIDE DEF n, f, g, owed
<1>5. owed \in Nat
  BY <1>1, <1>4, SumOverNat
<1>6. 10000 * owed <= snapshot * SumTo(n, g)
  <2> DEFINE S == (1..n) \ paid
             d == 10000
  <2>1. d \in Nat /\ \A k \in 1..n : d * f[k] <= snapshot * g[k]
    BY <1>2
  <2> HIDE DEF S, d
  <2>2. d * SumOver(n, S, f) <= snapshot * SumTo(n, g)
    BY <1>1, <2>1, SumOverScaled
  <2>3. QED
    BY <1>4, <2>2 DEF S, d
<1>7. owed <= snapshot
  BY <1>3, <1>5, <1>6
<1>8. QED
  BY <1>5, <1>7 DEF owed

\* Setting the bits of a batch takes its shares, and only them, off what is owed.
LEMMA OwedAfterBatch ==
  ASSUME NEW bs \in Seq(Beneficiary), NEW snapshot \in Nat, NEW paid,
         NEW fresh \in SUBSET ((1..Len(bs)) \ paid)
  PROVE  OwedShares(bs, snapshot, paid) =
             SumOver(Len(bs), fresh, SharesOf(bs, snapshot))
               + OwedShares(bs, snapshot, paid \cup fresh)
<1> DEFINE n == Len(bs)
           T == (1..n) \ paid
           f == SharesOf(bs, snapshot)
<1>1. n \in Nat /\ f \in [1..n -> Nat]
  BY SharesTyped
<1>2. (1..n) \ (paid \cup fresh) = T \ fresh
  OBVIOUS
<1>3. fresh \subseteq T
  OBVIOUS
<1> HIDE DEF n, T, f
<1>4. SumOver(n, T, f) = SumOver(n, fresh, f) + SumOver(n, T \ fresh, f)
  BY <1>1, <1>3, SumOverSplit
<1>5. QED
  BY <1>2, <1>4 DEF OwedShares, n, T, f

\* The amounts of a plan.
LEMMA AmountsTyped ==
  ASSUME NEW assignments \in Seq(AssetAssignment)
  PROVE  /\ Len(assignments) \in Nat
         /\ AssignedAmounts(assignments) \in [1..Len(assignments) -> Nat]
<1>1. \A k \in 1..Len(assignments) : assignments[k].amount \in Nat
  <2>1. \A k \in 1..Len(assignments) : assignments[k] \in AssetAssignment
    BY ElementOfSeq
  <2>2. QED
    BY <2>1 DEF AssetAssignment
<1>2. QED
  BY <1>1, LenProperties DEF AssignedAmounts

\* What the bequests still take of a mint is at most what they took at first.
LEMMA SpecificsBounded ==
  ASSUME NEW assignments \in Seq(AssetAssignment), NEW mint, NEW paid
  PROVE  /\ OwedSpecifics(assignments, mint, paid) \in Nat
         /\ OwedSpecifics(assignments, mint, paid) <=
              SumOver(Len(assignments), OfMint(assignments, mint), AssignedAmounts(assignments))
BY AmountsTyped, SumOverNat, SumOverSubset DEF OwedSpecifics

\* What the plan still owes of a mint is a natural number.
LEMMA SpecificsNat ==
  ASSUME TypeOK, NEW mint
  PROVE  UnpaidSpecifics(mint) \in Nat
<1>1. CASE plan = NoAccount
  BY <1>1 DEF UnpaidSpecifics
<1>2. CASE plan # NoAccount
  <2>1. plan.assignments \in Seq(AssetAssignment)
    BY <1>2 DEF TypeOK, AssetPlan
  <2>2. QED
    BY <1>2, <2>1, SpecificsBounded, OwedIs
<1>3. QED
  BY <1>1, <1>2

\* And in the next state.
LEMMA SpecificsPrimeNat ==
  ASSUME TypeOK', NEW mint
  PROVE  UnpaidSpecifics(mint)' \in Nat
<1>1. CASE plan' = NoAccount
  BY <1>1 DEF UnpaidSpecifics
<1>2. CASE plan' # NoAccount
  <2>1. plan'.assignments \in Seq(AssetAssignment)
    BY <1>2 DEF TypeOK, AssetPlan
  <2>2. QED
    BY <1>2, <2>1, SpecificsBounded, OwedIs
<1>3. QED
  BY <1>1, <1>2

\* Paying a bequest takes its amount off what its mint owes.
LEMMA OwedAfterBequest ==
  ASSUME NEW assignments \in Seq(AssetAssignment), NEW mint, NEW paid,
         NEW j \in OfMint(assignments, mint), j \notin paid,
         NEW after, after = paid \cup {j}
  PROVE  OwedSpecifics(assignments, mint, paid) =
             AssignedAmounts(assignments)[j] + OwedSpecifics(assignments, mint, after)
<1> DEFINE n == Len(assignments)
           T == OfMint(assignments, mint) \ paid
           f == AssignedAmounts(assignments)
<1>1. n \in Nat /\ f \in [1..n -> Nat]
  BY AmountsTyped
<1>2. j \in 1..n
  BY DEF OfMint
<1>3. OfMint(assignments, mint) \ (paid \cup {j}) = T \ {j} /\ {j} \subseteq T
  OBVIOUS
<1> HIDE DEF n, T, f
<1>4. SumOver(n, T, f) = SumOver(n, {j}, f) + SumOver(n, T \ {j}, f)
  BY <1>1, <1>3, SumOverSplit
<1>5. SumOver(n, {j}, f) = f[j]
  BY <1>1, <1>2, SumOverSingle
<1>6. QED
  BY <1>2, <1>3, <1>4, <1>5 DEF OwedSpecifics, n, T, f

\* And nothing off what the other mints owe.
LEMMA OwedByOthers ==
  ASSUME NEW assignments, NEW mint, NEW other, mint # other, NEW paid,
         NEW j \in OfMint(assignments, mint)
  PROVE  OwedSpecifics(assignments, other, paid \cup {j}) =
             OwedSpecifics(assignments, other, paid)
<1>1. OfMint(assignments, other) \ (paid \cup {j}) = OfMint(assignments, other) \ paid
  BY DEF OfMint
<1>2. QED
  BY <1>1 DEF OwedSpecifics

-------------------------------------------------------------------------------
(* The lamports.                                                               *)

SolvencyInv == LedgerInv /\ SolSolvent /\ TokenSolvent

SolSpecifics == UnpaidSpecifics(SOL)

\* A balance that grows covers what it covered.
LEMMA StillCovered ==
  ASSUME NEW held \in Nat, NEW more \in Nat, more >= held, NEW rent \in Nat,
         NEW owed \in Nat, NEW rest \in Nat
  PROVE  /\ owed <= held - rent => owed <= more - rent
         /\ owed + rest <= held - rent => owed + rest <= more - rent
OBVIOUS

\* What the invariant says of a vault in execution, in plain arithmetic.
LEMMA SolKnown ==
  ASSUME SolvencyInv, vault # NoAccount, log # NoAccount
  PROVE  LET owed == OwedShares(vault.beneficiaries, log.sol_snapshot, log.sol_paid_mask) IN
         /\ vault.beneficiaries \in Seq(Beneficiary)
         /\ ValidBeneficiaries(vault.beneficiaries)
         /\ log.sol_snapshot \in Nat /\ lamports \in Nat /\ vault.keeper_bounty \in Nat
         /\ owed \in Nat /\ owed <= log.sol_snapshot
         /\ Rent \in Nat /\ lamports >= Rent /\ Available = lamports - Rent
         /\ owed <= lamports - Rent
         /\ log.sol_snapshot > 0 /\ ~vault.executed =>
                owed + SolSpecifics + vault.keeper_bounty <= lamports - Rent
<1> DEFINE owed == OwedShares(vault.beneficiaries, log.sol_snapshot, log.sol_paid_mask)
<1>1. vault \in VaultConfig /\ log \in ExecutionLog /\ lamports \in Nat
  BY DEF SolvencyInv, LedgerInv, LifecycleInv, TypeOK
<1>2. /\ vault.beneficiaries \in Seq(Beneficiary) /\ vault.keeper_bounty \in Nat
      /\ log.sol_snapshot \in Nat
  BY <1>1 DEF VaultConfig, ExecutionLog
<1>3. ValidBeneficiaries(vault.beneficiaries)
  BY DEF SolvencyInv, LedgerInv, LifecycleInv, VaultInOrder
<1>4. owed \in Nat /\ owed <= log.sol_snapshot
  BY <1>2, <1>3, OwedBounded
<1>5. Rent \in Nat /\ lamports >= Rent
  BY BoundsAssumption DEF SolvencyInv, SolSolvent
<1>6. Available = lamports - Rent
  BY <1>1, <1>5 DEF Available, SatSub
<1>7. /\ owed <= Available
      /\ log.sol_snapshot > 0 /\ ~vault.executed =>
             owed + SolSpecifics + vault.keeper_bounty <= Available
  BY OwedIs DEF SolvencyInv, SolSolvent, SolSpecifics
<1> HIDE DEF owed
<1>8. QED
  BY <1>1, <1>2, <1>3, <1>4, <1>5, <1>6, <1>7 DEF owed

\* What a step must establish.
LEMMA SolGoal ==
  ASSUME lamports' \in Nat, NEW owed,
         owed = OwedShares(vault'.beneficiaries, log'.sol_snapshot, log'.sol_paid_mask),
         lamports' >= Rent, owed <= lamports' - Rent,
         log'.sol_snapshot > 0 /\ ~vault'.executed =>
             owed + SolSpecifics' + vault'.keeper_bounty <= lamports' - Rent
  PROVE  SolSolvent'
<1>1. Available' = lamports' - Rent
  BY BoundsAssumption DEF Available, SatSub
<1>2. owed = UnpaidShares(log.sol_snapshot, log.sol_paid_mask)'
  BY OwedIs
<1>3. QED
  BY <1>1, <1>2 DEF SolSolvent, SolSpecifics

\* Before an execution only the rent matters.
LEMMA SolUnbegun ==
  ASSUME log' = NoAccount, vault' # NoAccount => lamports' >= Rent
  PROVE  SolSolvent'
BY DEF SolSolvent

\* A step that neither pays out SOL nor changes a term of the execution.
LEMMA SolUntouched ==
  ASSUME SolvencyInv, TypeOK', vault # NoAccount, vault' # NoAccount,
         vault'.beneficiaries = vault.beneficiaries,
         vault'.keeper_bounty = vault.keeper_bounty,
         vault'.executed <=> vault.executed,
         log' = log, SolSpecifics' = SolSpecifics, lamports' >= lamports
  PROVE  SolSolvent'
<1>1. lamports' \in Nat /\ lamports \in Nat /\ Rent \in Nat /\ lamports >= Rent
  BY BoundsAssumption DEF TypeOK, SolvencyInv, LedgerInv, LifecycleInv, SolSolvent
<1>2. CASE log = NoAccount
  BY <1>1, <1>2, SolUnbegun
<1>3. CASE log # NoAccount
  <2> DEFINE owed == OwedShares(vault.beneficiaries, log.sol_snapshot, log.sol_paid_mask)
             rest == SolSpecifics + vault.keeper_bounty
             binds == log.sol_snapshot > 0 /\ ~vault.executed
  <2>1. /\ owed \in Nat /\ owed <= lamports - Rent /\ rest \in Nat
        /\ SolSpecifics \in Nat /\ vault.keeper_bounty \in Nat
        /\ binds => owed + rest <= lamports - Rent
    <3>1. SolSpecifics \in Nat
      BY SpecificsNat DEF SolvencyInv, LedgerInv, LifecycleInv, SolSpecifics
    <3>2. QED
      BY <1>1, <1>3, <3>1, SolKnown
  <2> HIDE DEF owed, rest, binds
  <2>3. owed <= lamports' - Rent /\ (binds => owed + rest <= lamports' - Rent)
    BY <1>1, <2>1, StillCovered
  <2>4. owed = OwedShares(vault'.beneficiaries, log'.sol_snapshot, log'.sol_paid_mask)
    BY DEF owed
  <2>5. log'.sol_snapshot > 0 /\ ~vault'.executed =>
            owed + SolSpecifics' + vault'.keeper_bounty <= lamports' - Rent
    BY <2>1, <2>3 DEF owed, rest, binds
  <2>6. lamports' >= Rent
    BY <1>1
  <2>7. QED
    BY <1>1, <2>3, <2>4, <2>5, <2>6, SolGoal
<1>4. QED
  BY <1>2, <1>3

\* begin_execution: the snapshot leaves the bequests and the bounty out.
LEMMA SolBegin ==
  ASSUME SolvencyInv, TypeOK', BeginExecution
  PROVE  SolSolvent'
<1> DEFINE bs == vault.beneficiaries
           snapshot == SolResidual
           owed == OwedShares(bs, snapshot, {})
           specifics == SolSpecifics
           bounty == vault.keeper_bounty
           planned == SpecificSum(SOL)
<1>1. /\ vault # NoAccount /\ vault \in VaultConfig /\ TypeOK
      /\ UNCHANGED <<vault, plan, lamports>>
      /\ log'.sol_snapshot = snapshot /\ log'.sol_paid_mask = {}
      /\ vault.has_asset_plan <=> plan # NoAccount
  BY DEF BeginExecution, VaultExists, SolvencyInv, LedgerInv, LifecycleInv, TypeOK,
     AccountsTogether
<1>2. bs \in Seq(Beneficiary) /\ ValidBeneficiaries(bs) /\ bounty \in Nat
  BY <1>1 DEF VaultConfig, SolvencyInv, LedgerInv, LifecycleInv, VaultInOrder
<1>3. lamports \in Nat /\ Rent \in Nat /\ lamports >= Rent
  BY <1>1, BoundsAssumption DEF TypeOK, SolvencyInv, SolSolvent
<1>4. planned \in Nat
  BY <1>1, SpecificSumNat
<1>5. Available = lamports - Rent
  BY <1>3 DEF Available, SatSub
<1>6. specifics \in Nat /\ specifics <= planned
  <2>1. CASE plan = NoAccount
    BY <1>1, <1>4, <2>1 DEF UnpaidSpecifics, SolSpecifics
  <2>2. CASE plan # NoAccount
    <3>1. plan.assignments \in Seq(AssetAssignment)
      BY <1>1, <2>2 DEF TypeOK, AssetPlan
    <3>2. planned = SumOver(Len(plan.assignments), OfMint(plan.assignments, SOL),
                            AssignedAmounts(plan.assignments))
      BY <1>1, <2>2 DEF SpecificSum
    <3>3. QED
      BY <2>2, <3>1, <3>2, SpecificsBounded, OwedIs DEF SolSpecifics
  <2>3. QED
    BY <2>1, <2>2
<1> HIDE DEF planned, specifics, bounty
<1>7. /\ snapshot \in Nat /\ snapshot <= lamports - Rent
      /\ snapshot > 0 => snapshot + planned + bounty = lamports - Rent
  BY <1>2, <1>3, <1>4, <1>5 DEF SolResidual, SatSub, planned, bounty
<1> HIDE DEF snapshot
<1>8. owed \in Nat /\ owed <= snapshot
  BY <1>2, <1>7, OwedBounded
<1> HIDE DEF owed, bs
<1>9. /\ owed <= lamports - Rent
      /\ snapshot > 0 => owed + specifics + bounty <= lamports - Rent
  BY <1>2, <1>3, <1>4, <1>6, <1>7, <1>8
<1>10. owed = OwedShares(vault'.beneficiaries, log'.sol_snapshot, log'.sol_paid_mask)
  BY <1>1 DEF owed, bs
<1>11. SolSpecifics' = specifics
  BY <1>1 DEF UnpaidSpecifics, SolSpecifics, specifics
<1>12. log'.sol_snapshot > 0 /\ ~vault'.executed =>
           owed + SolSpecifics' + vault'.keeper_bounty <= lamports' - Rent
  BY <1>1, <1>9, <1>11 DEF bounty
<1>13. QED
  BY <1>1, <1>3, <1>9, <1>10, <1>12, SolGoal

\* execute_sol_shares pays exactly what it takes off what is owed.
LEMMA SolShares ==
  ASSUME SolvencyInv, TypeOK', NEW batch \in SUBSET (1..MaxBeneficiaries),
         ExecuteSolShares(batch)
  PROVE  SolSolvent'
<1> DEFINE bs == vault.beneficiaries
           snapshot == log.sol_snapshot
           paid == log.sol_paid_mask
           fresh == batch \ paid
           f == SharesOf(bs, snapshot)
           total == SumOver(Len(bs), {i \in fresh : f[i] > 0}, f)
           before == OwedShares(bs, snapshot, paid)
           after == OwedShares(bs, snapshot, paid \cup fresh)
           specifics == SolSpecifics
           bounty == vault.keeper_bounty
<1>1. /\ vault # NoAccount /\ log # NoAccount /\ batch \subseteq 1..Len(bs)
      /\ UNCHANGED <<vault, plan>>
      /\ lamports' = lamports - total
  BY OwedIs DEF ExecuteSolShares, Indices, StillUnpaid
<1>2. /\ bs \in Seq(Beneficiary) /\ ValidBeneficiaries(bs) /\ bounty \in Nat
      /\ snapshot \in Nat /\ lamports \in Nat /\ Rent \in Nat
      /\ before <= lamports - Rent
      /\ snapshot > 0 /\ ~vault.executed =>
             before + specifics + bounty <= lamports - Rent
  BY <1>1, SolKnown
<1>3. specifics \in Nat
  BY SpecificsNat DEF SolvencyInv, LedgerInv, LifecycleInv, SolSpecifics
<1>4. after \in Nat
  BY <1>2, OwedBounded
<1>5. total \in Nat /\ before = total + after
  <2>1. Len(bs) \in Nat /\ f \in [1..Len(bs) -> Nat]
    BY <1>2, SharesTyped
  <2>2. total = SumOver(Len(bs), fresh, f)
    BY <2>1, SumOverPositive
  <2>3. before = SumOver(Len(bs), fresh, f) + after
    <3>1. fresh \in SUBSET ((1..Len(bs)) \ paid)
      BY <1>1
    <3>2. bs \in Seq(Beneficiary) /\ snapshot \in Nat
      BY <1>2
    <3> HIDE DEF fresh, paid, snapshot, bs
    <3>3. QED
      BY <3>1, <3>2, OwedAfterBatch
  <2>4. QED
    BY <2>1, <2>2, <2>3, SumOverNat
<1>6. log'.sol_snapshot = snapshot /\ log'.sol_paid_mask = paid \cup fresh
  <2>1. \E y, z : log' = [log EXCEPT !.sol_paid_mask = @ \cup (batch \ log.sol_paid_mask),
                                     !.transfer_count = y,
                                     !.total_sol_distributed = z]
    BY DEF ExecuteSolShares, StillUnpaid
  <2>2. log \in ExecutionLog
    BY <1>1 DEF SolvencyInv, LedgerInv, LifecycleInv, TypeOK
  <2>3. QED
    BY <2>1, <2>2 DEF ExecutionLog
<1> HIDE DEF total, before, after, specifics, bounty
<1>7. /\ lamports' \in Nat /\ lamports' >= Rent /\ after <= lamports' - Rent
      /\ snapshot > 0 /\ ~vault.executed =>
             after + specifics + bounty <= lamports' - Rent
  BY <1>1, <1>2, <1>3, <1>4, <1>5
<1>8. after = OwedShares(vault'.beneficiaries, log'.sol_snapshot, log'.sol_paid_mask)
  BY <1>1, <1>6 DEF after
<1>9. SolSpecifics' = specifics
  BY <1>1 DEF UnpaidSpecifics, SolSpecifics, specifics
<1>10. log'.sol_snapshot > 0 /\ ~vault'.executed =>
           after + SolSpecifics' + vault'.keeper_bounty <= lamports' - Rent
  BY <1>1, <1>6, <1>7, <1>9 DEF bounty
<1>11. QED
  BY <1>7, <1>8, <1>10, SolGoal

\* The plan after a bequest is paid.
LEMMA BequestPaid ==
  ASSUME TypeOK, NEW j \in 1..MaxAssignments, NEW mint, PayableSpecific(j, mint),
         plan' = [plan EXCEPT !.paid_mask = @ \cup {j}]
  PROVE  /\ plan.assignments[j].amount \in Nat
         /\ UnpaidSpecifics(mint) = plan.assignments[j].amount
                 + OwedSpecifics(plan'.assignments, mint, plan'.paid_mask)
         /\ plan' # NoAccount
         /\ \A other : mint # other =>
                OwedSpecifics(plan'.assignments, other, plan'.paid_mask)
                    = UnpaidSpecifics(other)
<1>1. /\ plan # NoAccount /\ plan \in AssetPlan
      /\ j \in OfMint(plan.assignments, mint) \ plan.paid_mask
  BY DEF PayableSpecific, TypeOK
<1>2. /\ plan.assignments \in Seq(AssetAssignment)
      /\ plan'.assignments = plan.assignments
      /\ plan'.paid_mask = plan.paid_mask \cup {j}
  BY <1>1 DEF AssetPlan
<1>3. plan' # NoAccount
  <2>1. j \in Nat
    BY BoundsAssumption
  <2>2. plan' \in AssetPlan
    BY <1>1, <2>1 DEF AssetPlan
  <2>3. QED
    BY <2>2, RecordsStay
<1>4. plan.assignments[j].amount \in Nat
  <2>1. j \in 1..Len(plan.assignments)
    BY <1>1 DEF OfMint
  <2>2. plan.assignments[j] \in AssetAssignment
    BY <1>2, <2>1, ElementOfSeq
  <2>3. QED
    BY <2>2 DEF AssetAssignment
<1>5. OwedSpecifics(plan.assignments, mint, plan.paid_mask) =
          plan.assignments[j].amount
            + OwedSpecifics(plan.assignments, mint, plan.paid_mask \cup {j})
  <2> DEFINE list == plan.assignments
             paid == plan.paid_mask
             after == paid \cup {j}
  <2>1. list \in Seq(AssetAssignment) /\ j \in OfMint(list, mint) /\ j \notin paid
        /\ after = paid \cup {j}
    BY <1>1, <1>2
  <2> HIDE DEF list, paid, after
  <2>2. OwedSpecifics(list, mint, paid) =
            AssignedAmounts(list)[j] + OwedSpecifics(list, mint, after)
    BY <2>1, OwedAfterBequest
  <2>3. AssignedAmounts(list)[j] = list[j].amount
    BY <2>1 DEF OfMint, AssignedAmounts
  <2>4. QED
    BY <2>2, <2>3 DEF list, paid, after
<1>6. ASSUME NEW other, mint # other
      PROVE  OwedSpecifics(plan.assignments, other, plan.paid_mask \cup {j})
                 = OwedSpecifics(plan.assignments, other, plan.paid_mask)
  BY <1>1, <1>6, OwedByOthers
<1>7. \A x : UnpaidSpecifics(x) = OwedSpecifics(plan.assignments, x, plan.paid_mask)
  BY <1>1 DEF UnpaidSpecifics, OwedSpecifics
<1>8. QED
  BY <1>2, <1>3, <1>4, <1>5, <1>6, <1>7

\* A bequest that fits into the balance is paid in full; without a snapshot no
\* share is owed, and the rent is never touched.
LEMMA PaidInFull ==
  ASSUME NEW held \in Nat, NEW rent \in Nat, held >= rent, NEW owed \in Nat, NEW rest \in Nat,
         NEW amount \in Nat, NEW bounty \in Nat, owed <= held - rent,
         NEW snapshot \in Nat, owed <= snapshot,
         snapshot > 0 => owed + (amount + rest) + bounty <= held - rent
  PROVE  LET left == held - Lesser(amount, held - rent) IN
         /\ left \in Nat /\ left >= rent /\ owed <= left - rent
         /\ snapshot > 0 => owed + rest + bounty <= left - rent
BY DEF Lesser

\* execute_specific_sol: no bequest is left to pay once the vault is executed.
LEMMA SolSpecific ==
  ASSUME SolvencyInv, TypeOK', NEW j \in 1..MaxAssignments, ExecuteSpecificSol(j)
  PROVE  SolSolvent'
<1> DEFINE snapshot == log.sol_snapshot
           owed == OwedShares(vault.beneficiaries, snapshot, log.sol_paid_mask)
           amount == plan.assignments[j].amount
           rest == OwedSpecifics(plan'.assignments, SOL, plan'.paid_mask)
           bounty == vault.keeper_bounty
<1>0. TypeOK
  BY DEF SolvencyInv, LedgerInv, LifecycleInv
<1>1. /\ vault # NoAccount /\ log # NoAccount /\ plan # NoAccount
      /\ PayableSpecific(j, SOL)
      /\ UNCHANGED <<vault, log>>
      /\ plan' = [plan EXCEPT !.paid_mask = @ \cup {j}]
      /\ lamports' = lamports - Lesser(amount, Available)
  BY DEF ExecuteSpecificSol, PayableSpecific
<1>2. ~vault.executed
  BY <1>1 DEF SolvencyInv, LedgerInv, DebtsSettled, PlanDue, PayableSpecific, OfMint
<1>3. /\ bounty \in Nat /\ snapshot \in Nat /\ lamports \in Nat /\ Rent \in Nat
      /\ owed \in Nat /\ owed <= snapshot
      /\ lamports >= Rent /\ Available = lamports - Rent
      /\ owed <= lamports - Rent
      /\ snapshot > 0 => owed + SolSpecifics + bounty <= lamports - Rent
  BY <1>1, <1>2, SolKnown
<1>4. amount \in Nat /\ SolSpecifics = amount + rest /\ plan' # NoAccount
  BY <1>0, <1>1, BequestPaid DEF SolSpecifics
<1>5. SolSpecifics' = rest
  BY <1>4, OwedIs DEF SolSpecifics
<1>6. rest \in Nat
  BY <1>5, SpecificsPrimeNat DEF SolSpecifics
<1> HIDE DEF snapshot, owed, amount, rest, bounty
<1>7. /\ lamports' >= Rent /\ owed <= lamports' - Rent
      /\ snapshot > 0 => owed + rest + bounty <= lamports' - Rent
  BY <1>1, <1>3, <1>4, <1>6, PaidInFull
<1>8. owed = OwedShares(vault'.beneficiaries, log'.sol_snapshot, log'.sol_paid_mask)
  BY <1>1 DEF owed, snapshot
<1>9. log'.sol_snapshot > 0 /\ ~vault'.executed =>
          owed + SolSpecifics' + vault'.keeper_bounty <= lamports' - Rent
  BY <1>1, <1>5, <1>7 DEF bounty, snapshot
<1>10. lamports' \in Nat
  BY DEF TypeOK
<1>11. QED
  BY <1>7, <1>8, <1>9, <1>10, SolGoal

\* finalize_execution finds every share paid, and the bounty leaves the rent.
LEMMA SolFinalize ==
  ASSUME SolvencyInv, TypeOK', NEW payer \in Payers, FinalizeExecution(payer)
  PROVE  SolSolvent'
<1>1. /\ vault # NoAccount /\ log # NoAccount
      /\ log.sol_paid_mask = Indices
      /\ vault' = [vault EXCEPT !.executed = TRUE, !.active = FALSE]
      /\ log' = [log EXCEPT !.completed = TRUE]
      /\ lamports' = lamports - Lesser(vault.keeper_bounty, Available)
  BY DEF FinalizeExecution
<1>2. vault \in VaultConfig /\ log \in ExecutionLog
  BY <1>1 DEF SolvencyInv, LedgerInv, LifecycleInv, TypeOK
<1>3. /\ vault'.executed = TRUE /\ vault'.beneficiaries = vault.beneficiaries
      /\ log'.sol_paid_mask = log.sol_paid_mask /\ log'.sol_snapshot = log.sol_snapshot
  BY <1>1, <1>2 DEF VaultConfig, ExecutionLog
<1>4. /\ vault.beneficiaries \in Seq(Beneficiary) /\ vault.keeper_bounty \in Nat
      /\ log.sol_snapshot \in Nat /\ lamports \in Nat /\ Rent \in Nat
      /\ lamports >= Rent /\ Available = lamports - Rent
  BY <1>1, SolKnown
<1>5. OwedShares(vault.beneficiaries, log.sol_snapshot, log.sol_paid_mask) = 0
  <2> DEFINE n == Len(vault.beneficiaries)
             f == SharesOf(vault.beneficiaries, log.sol_snapshot)
             S == (1..n) \ log.sol_paid_mask
  <2>1. n \in Nat /\ f \in [1..n -> Nat]
    BY <1>4, SharesTyped
  <2>2. S \cap (1..n) = {}
    BY <1>1 DEF Indices
  <2> HIDE DEF n, f, S
  <2>3. SumOver(n, S, f) = 0
    BY <2>1, <2>2, SumOverNone
  <2>4. QED
    BY <2>3 DEF OwedShares, n, f, S
<1>6. lamports' >= Rent /\ 0 <= lamports' - Rent
  <2>1. 0 \in Nat /\ 0 <= lamports - Rent
    BY <1>4
  <2>2. QED
    BY <1>1, <1>4, <2>1, PaidInFull
<1>7. 0 = OwedShares(vault'.beneficiaries, log'.sol_snapshot, log'.sol_paid_mask)
  BY <1>3, <1>5
<1>8. lamports' \in Nat
  BY DEF TypeOK
<1>9. QED
  BY <1>3, <1>6, <1>7, <1>8, SolGoal

-------------------------------------------------------------------------------
(* The tokens.                                                                 *)

\* What a plan owes of a mint, and what an ATA holds.
PlanOwes(p, mint) ==
  IF p = NoAccount THEN 0 ELSE OwedSpecifics(p.assignments, mint, p.paid_mask)

AtaHolds(balance) == IF balance = NoAccount THEN 0 ELSE balance

TokenCovers(bs, d, specifics, held) ==
  LET owed == OwedShares(bs, d.snapshot, d.paid_mask) IN
  /\ owed <= held
  /\ d.snapshot > 0 => owed + specifics <= held

\* The mint m is covered in the next state.
CoveredNext(m) ==
  dist'[m] # NoAccount /\ vault' # NoAccount =>
      TokenCovers(vault'.beneficiaries, dist'[m], PlanOwes(plan', m), AtaHolds(ata'[m]))

\* TokenSolvent as a function of the accounts' data.
LEMMA TokenSolventIs ==
  /\ TokenSolvent => \A m \in Mints : dist[m] # NoAccount /\ vault # NoAccount =>
         TokenCovers(vault.beneficiaries, dist[m], PlanOwes(plan, m), AtaHolds(ata[m]))
  /\ (\A m \in Mints : CoveredNext(m)) => TokenSolvent'
BY DEF TokenSolvent, TokenCovers, PlanOwes, AtaHolds, CoveredNext, UnpaidShares,
       OwedShares, SharesOf, Shares, Indices, UnpaidSpecifics, OwedSpecifics, AtaBalance

\* What the invariant says of an open distribution, in plain arithmetic.
LEMMA TokenKnown ==
  ASSUME SolvencyInv, NEW m \in Mints, vault # NoAccount, dist[m] # NoAccount
  PROVE  LET owed == OwedShares(vault.beneficiaries, dist[m].snapshot, dist[m].paid_mask) IN
         /\ vault.beneficiaries \in Seq(Beneficiary)
         /\ ValidBeneficiaries(vault.beneficiaries)
         /\ dist[m].snapshot \in Nat /\ dist[m] \in TokenDist
         /\ owed \in Nat /\ owed <= dist[m].snapshot
         /\ AtaHolds(ata[m]) \in Nat /\ PlanOwes(plan, m) \in Nat
         /\ owed <= AtaHolds(ata[m])
         /\ dist[m].snapshot > 0 => owed + PlanOwes(plan, m) <= AtaHolds(ata[m])
<1> DEFINE owed == OwedShares(vault.beneficiaries, dist[m].snapshot, dist[m].paid_mask)
<1>1. vault \in VaultConfig /\ dist[m] \in TokenDist /\ TypeOK
  BY DEF SolvencyInv, LedgerInv, LifecycleInv, TypeOK
<1>2. vault.beneficiaries \in Seq(Beneficiary) /\ dist[m].snapshot \in Nat
  BY <1>1 DEF VaultConfig, TokenDist
<1>3. ValidBeneficiaries(vault.beneficiaries)
  BY DEF SolvencyInv, LedgerInv, LifecycleInv, VaultInOrder
<1>4. owed \in Nat /\ owed <= dist[m].snapshot
  BY <1>2, <1>3, OwedBounded
<1>5. AtaHolds(ata[m]) \in Nat
  BY <1>1 DEF TypeOK, AtaHolds
<1>6. PlanOwes(plan, m) \in Nat
  BY <1>1, SpecificsNat, OwedIs DEF UnpaidSpecifics, PlanOwes, OwedSpecifics
<1>7. TokenCovers(vault.beneficiaries, dist[m], PlanOwes(plan, m), AtaHolds(ata[m]))
  BY TokenSolventIs DEF SolvencyInv
<1>8. QED
  BY <1>1, <1>2, <1>3, <1>4, <1>5, <1>6, <1>7 DEF TokenCovers

\* A mint whose distribution, bequests and balance a step leaves alone.
LEMMA TokenUntouched ==
  ASSUME SolvencyInv, TypeOK', NEW m \in Mints, vault # NoAccount,
         vault'.beneficiaries = vault.beneficiaries,
         dist'[m] = dist[m], PlanOwes(plan', m) = PlanOwes(plan, m),
         AtaHolds(ata'[m]) >= AtaHolds(ata[m])
  PROVE  CoveredNext(m)
<1>1. CASE dist[m] = NoAccount
  BY <1>1 DEF CoveredNext
<1>2. CASE dist[m] # NoAccount
  <2> DEFINE owed == OwedShares(vault.beneficiaries, dist[m].snapshot, dist[m].paid_mask)
  <2>1. /\ owed \in Nat /\ AtaHolds(ata[m]) \in Nat /\ PlanOwes(plan, m) \in Nat
        /\ owed <= AtaHolds(ata[m])
        /\ dist[m].snapshot > 0 => owed + PlanOwes(plan, m) <= AtaHolds(ata[m])
    BY <1>2, TokenKnown
  <2>2. AtaHolds(ata'[m]) \in Nat
    BY DEF TypeOK, AtaHolds
  <2>3. owed = OwedShares(vault'.beneficiaries, dist'[m].snapshot, dist'[m].paid_mask)
    OBVIOUS
  <2> HIDE DEF owed
  <2>4. 0 \in Nat /\ \A x \in Nat : x - 0 = x
    OBVIOUS
  <2>5. /\ owed <= AtaHolds(ata'[m])
        /\ dist[m].snapshot > 0 => owed + PlanOwes(plan, m) <= AtaHolds(ata'[m])
    BY <2>1, <2>2, <2>4, StillCovered
  <2>6. QED
    BY <2>3, <2>5 DEF CoveredNext, TokenCovers
<1>3. QED
  BY <1>1, <1>2

\* begin_token_dist: the snapshot leaves the bequests of the mint out.
LEMMA TokenBegin ==
  ASSUME SolvencyInv, NEW m \in Mints, BeginTokenDist(m)
  PROVE  CoveredNext(m)
<1> DEFINE bs == vault.beneficiaries
           snapshot == TokenResidual(m)
           owed == OwedShares(bs, snapshot, {})
           specifics == PlanOwes(plan, m)
           planned == SpecificSum(m)
           held == AtaHolds(ata[m])
<1>0. LifecycleInv /\ TypeOK
  BY DEF SolvencyInv, LedgerInv, LifecycleInv
<1>1. /\ vault # NoAccount /\ vault \in VaultConfig
      /\ UNCHANGED <<plan, ata>>
      /\ vault' = [vault EXCEPT !.open_token_dists = @ + 1]
      /\ vault.has_asset_plan <=> plan # NoAccount
  BY <1>0 DEF BeginTokenDist, LifecycleInv, TypeOK, AccountsTogether
<1>2. bs \in Seq(Beneficiary) /\ ValidBeneficiaries(bs) /\ vault'.beneficiaries = bs
  BY <1>0, <1>1 DEF VaultConfig, LifecycleInv, VaultInOrder
<1>3. dist'[m].snapshot = snapshot /\ dist'[m].paid_mask = {}
  <2>1. dist'[m] = [snapshot |-> TokenResidual(m), paid_mask |-> {}]
    BY <1>0, BegunDist
  <2>2. QED
    BY <2>1
<1>4. planned \in Nat /\ held \in Nat /\ AtaBalance(m) = held
  BY <1>0, <1>1, SpecificSumNat DEF AtaBalance, AtaHolds, TypeOK
<1>5. specifics \in Nat /\ specifics <= planned
  <2>1. CASE plan = NoAccount
    BY <1>1, <1>4, <2>1 DEF PlanOwes
  <2>2. CASE plan # NoAccount
    <3>1. plan.assignments \in Seq(AssetAssignment)
      BY <1>0, <2>2 DEF TypeOK, AssetPlan
    <3>2. planned = SumOver(Len(plan.assignments), OfMint(plan.assignments, m),
                            AssignedAmounts(plan.assignments))
      BY <1>1, <2>2 DEF SpecificSum
    <3>3. QED
      BY <2>2, <3>1, <3>2, SpecificsBounded DEF PlanOwes
  <2>3. QED
    BY <2>1, <2>2
<1> HIDE DEF planned, specifics, held
<1>6. /\ snapshot \in Nat /\ snapshot <= held
      /\ snapshot > 0 => snapshot + planned = held
  BY <1>4 DEF TokenResidual, SatSub, planned
<1> HIDE DEF snapshot
<1>7. owed \in Nat /\ owed <= snapshot
  BY <1>2, <1>6, OwedBounded
<1> HIDE DEF owed, bs
<1>8. owed <= held /\ (snapshot > 0 => owed + specifics <= held)
  BY <1>4, <1>5, <1>6, <1>7
<1>9. owed = OwedShares(vault'.beneficiaries, dist'[m].snapshot, dist'[m].paid_mask)
  BY <1>2, <1>3 DEF owed
<1>10. PlanOwes(plan', m) = specifics /\ AtaHolds(ata'[m]) = held
  BY <1>1 DEF specifics, held
<1>11. QED
  BY <1>3, <1>8, <1>9, <1>10 DEF CoveredNext, TokenCovers

\* A batch that debits at most what it takes off what is owed.
LEMMA BatchCovered ==
  ASSUME NEW held \in Nat, NEW total \in Nat, NEW paid \in Nat, NEW after \in Nat,
         NEW specifics \in Nat, total <= paid, paid + after <= held
  PROVE  /\ held - total \in Nat /\ after <= held - total
         /\ paid + after + specifics <= held => after + specifics <= held - total
OBVIOUS

\* execute_token_shares: a share the vault itself would receive stays in the ATA.
LEMMA TokenShares ==
  ASSUME SolvencyInv, NEW m \in Mints, NEW batch \in SUBSET (1..MaxBeneficiaries),
         ExecuteTokenShares(m, batch)
  PROVE  CoveredNext(m)
<1> DEFINE bs == vault.beneficiaries
           snapshot == dist[m].snapshot
           mask == dist[m].paid_mask
           fresh == batch \ mask
           f == SharesOf(bs, snapshot)
           leaving == {i \in {k \in fresh : f[k] > 0} : WalletOf(i) # VaultKey}
           total == SumOver(Len(bs), leaving, f)
           paid == SumOver(Len(bs), fresh, f)
           before == OwedShares(bs, snapshot, mask)
           after == OwedShares(bs, snapshot, mask \cup fresh)
           specifics == PlanOwes(plan, m)
           held == AtaHolds(ata[m])
<1>0. TypeOK
  BY DEF SolvencyInv, LedgerInv, LifecycleInv
<1>1. /\ vault # NoAccount /\ dist[m] # NoAccount /\ ata[m] # NoAccount
      /\ batch \subseteq 1..Len(bs)
      /\ UNCHANGED <<vault, plan>>
      /\ ata' = [ata EXCEPT ![m] = @ - total]
  BY OwedIs DEF ExecuteTokenShares, Indices, StillUnpaid
<1>2. /\ bs \in Seq(Beneficiary) /\ ValidBeneficiaries(bs)
      /\ snapshot \in Nat /\ dist[m] \in TokenDist
      /\ held \in Nat /\ specifics \in Nat
      /\ before <= held
      /\ snapshot > 0 => before + specifics <= held
  BY <1>1, TokenKnown
<1>3. after \in Nat
  BY <1>2, OwedBounded
<1>4. total \in Nat /\ paid \in Nat /\ total <= paid
  <2>1. Len(bs) \in Nat /\ f \in [1..Len(bs) -> Nat] /\ leaving \subseteq fresh
    BY <1>2, SharesTyped
  <2> HIDE DEF f, leaving, fresh, bs
  <2>2. QED
    BY <2>1, SumOverNat, SumOverSubset
<1>5. before = paid + after
  <2>1. fresh \in SUBSET ((1..Len(bs)) \ mask)
    BY <1>1
  <2>2. bs \in Seq(Beneficiary) /\ snapshot \in Nat
    BY <1>2
  <2> HIDE DEF fresh, mask, snapshot, bs
  <2>3. QED
    BY <2>1, <2>2, OwedAfterBatch
<1>6. dist'[m].snapshot = snapshot /\ dist'[m].paid_mask = mask \cup fresh
  <2>1. dist' = [dist EXCEPT ![m].paid_mask = @ \cup (batch \ dist[m].paid_mask)]
    BY DEF ExecuteTokenShares, StillUnpaid
  <2>2. dist \in [Mints -> TokenDist \cup {NoAccount}]
    BY <1>0 DEF TypeOK
  <2>3. QED
    BY <1>2, <2>1, <2>2 DEF TokenDist
<1>7. ata[m] = held /\ ata'[m] = held - total
  BY <1>0, <1>1 DEF TypeOK, AtaHolds
<1> HIDE DEF total, paid, before, after, specifics, held
<1>8. /\ held - total \in Nat /\ after <= held - total
      /\ snapshot > 0 => after + specifics <= held - total
  BY <1>2, <1>3, <1>4, <1>5, BatchCovered
<1>9. AtaHolds(ata'[m]) = held - total
  BY <1>7, <1>8, RecordsStay DEF AtaHolds
<1>10. after = OwedShares(vault'.beneficiaries, dist'[m].snapshot, dist'[m].paid_mask)
  BY <1>1, <1>6 DEF after
<1>11. PlanOwes(plan', m) = specifics
  BY <1>1 DEF specifics
<1>12. QED
  BY <1>6, <1>8, <1>9, <1>10, <1>11 DEF CoveredNext, TokenCovers

\* execute_specific_asset on the mint it pays.
LEMMA TokenSpecific ==
  ASSUME SolvencyInv, NEW m \in Mints, NEW j \in 1..MaxAssignments,
         ExecuteSpecificAsset(m, j)
  PROVE  CoveredNext(m)
<1> DEFINE snapshot == dist[m].snapshot
           owed == OwedShares(vault.beneficiaries, snapshot, dist[m].paid_mask)
           amount == plan.assignments[j].amount
           rest == OwedSpecifics(plan'.assignments, m, plan'.paid_mask)
           held == AtaHolds(ata[m])
           left == held - Lesser(amount, held)
<1>0. TypeOK
  BY DEF SolvencyInv, LedgerInv, LifecycleInv
<1>1. /\ vault # NoAccount /\ dist[m] # NoAccount /\ ata[m] # NoAccount
      /\ plan # NoAccount /\ PayableSpecific(j, m)
      /\ UNCHANGED <<vault, dist>>
      /\ plan' = [plan EXCEPT !.paid_mask = @ \cup {j}]
      /\ ata' = [ata EXCEPT ![m] = @ - Lesser(amount, ata[m])]
  BY DEF ExecuteSpecificAsset, PayableSpecific
<1>2. /\ snapshot \in Nat /\ held \in Nat /\ owed \in Nat
      /\ owed <= snapshot /\ owed <= held
      /\ snapshot > 0 => owed + PlanOwes(plan, m) <= held
  BY <1>1, TokenKnown
<1>3. PlanOwes(plan, m) = UnpaidSpecifics(m)
  BY <1>1 DEF PlanOwes, UnpaidSpecifics, OwedSpecifics
<1>4. amount \in Nat /\ UnpaidSpecifics(m) = amount + rest /\ plan' # NoAccount
  BY <1>0, <1>1, BequestPaid
<1>5. PlanOwes(plan', m) = rest
  BY <1>4 DEF PlanOwes
<1>6. rest \in Nat
  <2>1. plan'.assignments = plan.assignments /\ plan.assignments \in Seq(AssetAssignment)
    BY <1>0, <1>1 DEF TypeOK, AssetPlan
  <2>2. QED
    BY <2>1, SpecificsBounded
<1>7. ata[m] = held /\ ata'[m] = left
  BY <1>0, <1>1 DEF TypeOK, AtaHolds
<1> HIDE DEF snapshot, owed, amount, rest, held, left
<1>8. snapshot > 0 => owed + (amount + rest) <= held
  BY <1>2, <1>3, <1>4
<1>9. left \in Nat /\ owed <= left /\ (snapshot > 0 => owed + rest <= left)
  BY <1>2, <1>4, <1>6, <1>8 DEF left, Lesser
<1>10. AtaHolds(ata'[m]) = left
  BY <1>7, <1>9, RecordsStay DEF AtaHolds
<1>11. owed = OwedShares(vault'.beneficiaries, dist'[m].snapshot, dist'[m].paid_mask)
  BY <1>1 DEF owed, snapshot
<1>12. QED
  BY <1>1, <1>5, <1>9, <1>10, <1>11 DEF CoveredNext, TokenCovers, snapshot

-------------------------------------------------------------------------------
(* Every step.                                                                 *)

Solvent == SolSolvent' /\ TokenSolvent'

\* A step that pays out nothing and changes no term of an execution.
LEMMA NothingPaid ==
  ASSUME SolvencyInv, TypeOK', vault # NoAccount, vault' # NoAccount,
         vault'.beneficiaries = vault.beneficiaries,
         vault'.keeper_bounty = vault.keeper_bounty,
         vault'.executed <=> vault.executed,
         log' = log, plan' = plan, dist' = dist, lamports' >= lamports,
         \A m \in Mints : AtaHolds(ata'[m]) >= AtaHolds(ata[m])
  PROVE  Solvent
<1>1. SolSpecifics' = SolSpecifics
  BY DEF SolSpecifics, UnpaidSpecifics
<1>2. SolSolvent'
  BY <1>1, SolUntouched
<1>3. ASSUME NEW m \in Mints PROVE CoveredNext(m)
  BY <1>3, TokenUntouched
<1>4. QED
  BY <1>2, <1>3, TokenSolventIs DEF Solvent

\* Without an execution there is nothing to cover but the rent.
LEMMA NothingBegun ==
  ASSUME log' = NoAccount, vault' # NoAccount => lamports' >= Rent,
         \A m \in Mints : dist'[m] = NoAccount
  PROVE  Solvent
BY SolUnbegun DEF Solvent, TokenSolvent

\* The owner and the agent act before an execution, and leave the rent alone.
LEMMA SolventOwner ==
  ASSUME SolvencyInv, TypeOK', OwnerNext \/ AgentNext
  PROVE  Solvent
<1>0. LifecycleInv /\ TypeOK
  BY DEF SolvencyInv, LedgerInv, LifecycleInv
<1>1. lamports \in Nat /\ Rent \in Nat /\ (vault # NoAccount => lamports >= Rent)
  BY <1>0, BoundsAssumption DEF TypeOK, SolvencyInv, SolSolvent
<1>2. CASE CloseExecutedVaultByOwner
  <2>1. vault' = NoAccount
    BY <1>2 DEF CloseExecutedVaultByOwner, CloseCore
  <2>2. QED
    BY <2>1 DEF Solvent, SolSolvent, TokenSolvent
<1>3. CASE CloseRevokedVault
  BY <1>0, <1>3, LifeCloseRevoked
<1>4. ASSUME NEW agent, NEW interval, NEW grace, NEW bs, NEW mutable, NEW bounty,
             InitializeVault(agent, interval, grace, bs, mutable, bounty)
      PROVE  Solvent
  <2>1. lamports' = lamports + SatSub(Rent, lamports) /\ UNCHANGED <<log, dist>>
        /\ vault = NoAccount
    BY <1>4 DEF InitializeVault
  <2>2. lamports' >= Rent
    BY <1>1, <2>1 DEF SatSub
  <2>3. log = NoAccount /\ \A m \in Mints : dist[m] = NoAccount
    BY <1>0, <2>1 DEF LifecycleInv, AccountsTogether
  <2>4. QED
    BY <2>1, <2>2, <2>3, NothingBegun
<1>5. ASSUME VaultExists, NotFrozen, UNCHANGED <<log, dist>>,
             vault' # NoAccount => lamports' >= Rent
      PROVE  Solvent
  BY <1>0, <1>5, OwnerBeforeExecution, NothingBegun
<1>6. ASSUME NEW amount \in Amounts, WithdrawSolFromVault(amount) PROVE Solvent
  <2>1. amount \in Nat
    BY InputsAssumption
  <2>2. lamports' >= Rent
    BY <1>1, <1>6, <2>1 DEF WithdrawSolFromVault
  <2>3. QED
    BY <1>5, <1>6, <2>2 DEF WithdrawSolFromVault
<1>7. RevokeVault => Solvent
  BY <1>5 DEF RevokeVault, OpenForOwner
<1>8. ASSUME \/ \E agent \in Agents : RecordHeartbeat(agent) \/ RotateAgent(agent)
             \/ \E interval, grace, bs : UpdateVault(interval, grace, bs)
             \/ ClearAssetPlan
             \/ \E assignments \in PlanInputs :
                    SetAssetPlan(assignments) \/ UpdateAssetPlan(assignments)
             \/ \E m \in Mints, amount \in Amounts : WithdrawFromVault(m, amount)
      PROVE  Solvent
  <2>1. VaultExists /\ NotFrozen /\ UNCHANGED <<log, dist, lamports>>
    BY <1>8 DEF RecordHeartbeat, RotateAgent, UpdateVault, ClearAssetPlan, SetAssetPlan,
       UpdateAssetPlan, WithdrawFromVault, OpenForOwner
  <2>2. QED
    BY <1>1, <1>5, <2>1 DEF VaultExists
<1>9. QED
  BY <1>2, <1>3, <1>4, <1>6, <1>7, <1>8 DEF OwnerNext, AgentNext

\* The permissionless instructions.
LEMMA SolventCrank ==
  ASSUME SolvencyInv, TypeOK', CrankNext
  PROVE  Solvent
<1>0. LifecycleInv /\ TypeOK
  BY DEF SolvencyInv, LedgerInv, LifecycleInv
<1>a. lamports \in Nat /\ \A m \in Mints : AtaHolds(ata[m]) \in Nat
  BY <1>0 DEF TypeOK, AtaHolds
<1>1. CASE BeginExecution
  <2>1. UNCHANGED dist /\ \A m \in Mints : dist[m] = NoAccount
    BY <1>0, <1>1 DEF BeginExecution, LifecycleInv, DistsNeedLog
  <2>2. QED
    BY <1>1, <2>1, SolBegin DEF Solvent, TokenSolvent
<1>2. ASSUME NEW m \in Mints, BeginTokenDist(m) PROVE Solvent
  <2>1. /\ vault # NoAccount /\ UNCHANGED <<log, plan, lamports, ata>>
        /\ vault' = [vault EXCEPT !.open_token_dists = @ + 1]
    BY <1>2 DEF BeginTokenDist
  <2>2. vault \in VaultConfig
    BY <1>0, <2>1 DEF TypeOK
  <2>3. /\ vault'.beneficiaries = vault.beneficiaries
        /\ vault'.keeper_bounty = vault.keeper_bounty
        /\ vault'.executed = vault.executed
        /\ vault' \in VaultConfig
    BY <2>1, <2>2 DEF VaultConfig
  <2>4. SolSpecifics' = SolSpecifics
    BY <2>1 DEF SolSpecifics, UnpaidSpecifics
  <2>5. lamports' >= lamports
    BY <1>a, <2>1
  <2>6. SolSolvent'
    BY <2>1, <2>3, <2>4, <2>5, SolUntouched, RecordsStay
  <2>7. ASSUME NEW x \in Mints, x # m PROVE CoveredNext(x)
    <3>1. dist'[x] = dist[x]
      BY <1>0, <1>2, <2>7, BegunDist
    <3>2. AtaHolds(ata'[x]) >= AtaHolds(ata[x])
      BY <1>a, <2>1, <2>7
    <3>3. QED
      BY <2>1, <2>3, <3>1, <3>2, TokenUntouched
  <2>8. QED
    BY <1>2, <2>6, <2>7, TokenBegin, TokenSolventIs DEF Solvent
<1>3. ASSUME NEW m \in Mints, NEW j \in 1..MaxAssignments, ExecuteSpecificAsset(m, j)
      PROVE  Solvent
  <2>1. /\ vault # NoAccount /\ UNCHANGED <<vault, log, dist, lamports>>
        /\ PayableSpecific(j, m) /\ plan # NoAccount
        /\ plan' = [plan EXCEPT !.paid_mask = @ \cup {j}]
        /\ \A x \in Mints : x # m => ata'[x] = ata[x]
    BY <1>0, <1>3 DEF ExecuteSpecificAsset, PayableSpecific, TypeOK
  <2>2. /\ plan' # NoAccount
        /\ \A x : x # m => OwedSpecifics(plan'.assignments, x, plan'.paid_mask)
                               = UnpaidSpecifics(x)
    BY <1>0, <2>1, BequestPaid
  <2>3. ASSUME NEW x, x # m PROVE PlanOwes(plan', x) = PlanOwes(plan, x)
    BY <2>1, <2>2, <2>3 DEF PlanOwes, UnpaidSpecifics, OwedSpecifics
  <2>4. SolSpecifics' = SolSpecifics
    <3>1. SOL # m
      BY KeysAssumption
    <3>2. SolSpecifics' = OwedSpecifics(plan'.assignments, SOL, plan'.paid_mask)
      BY <2>2, OwedIs DEF SolSpecifics
    <3>3. QED
      BY <2>2, <3>1, <3>2 DEF SolSpecifics
  <2>5. lamports' >= lamports
    BY <1>a, <2>1
  <2>6. SolSolvent'
    BY <2>1, <2>4, <2>5, SolUntouched
  <2>7. ASSUME NEW x \in Mints, x # m PROVE CoveredNext(x)
    <3>1. AtaHolds(ata'[x]) >= AtaHolds(ata[x])
      BY <1>a, <2>1, <2>7
    <3>2. QED
      BY <2>1, <2>3, <2>7, <3>1, TokenUntouched
  <2>8. QED
    BY <1>3, <2>6, <2>7, TokenSpecific, TokenSolventIs DEF Solvent
<1>4. ASSUME NEW j \in 1..MaxAssignments, ExecuteSpecificSol(j) PROVE Solvent
  <2>1. /\ vault # NoAccount /\ UNCHANGED <<vault, log, dist, ata>>
        /\ PayableSpecific(j, SOL) /\ plan # NoAccount
        /\ plan' = [plan EXCEPT !.paid_mask = @ \cup {j}]
    BY <1>4 DEF ExecuteSpecificSol, PayableSpecific
  <2>2. /\ plan' # NoAccount
        /\ \A x : x # SOL => OwedSpecifics(plan'.assignments, x, plan'.paid_mask)
                                 = UnpaidSpecifics(x)
    BY <1>0, <2>1, BequestPaid
  <2>3. ASSUME NEW x \in Mints PROVE CoveredNext(x)
    <3>1. x # SOL
      BY KeysAssumption
    <3>2. PlanOwes(plan', x) = PlanOwes(plan, x)
      BY <2>1, <2>2, <3>1 DEF PlanOwes, UnpaidSpecifics, OwedSpecifics
    <3>3. AtaHolds(ata'[x]) >= AtaHolds(ata[x])
      BY <1>a, <2>1
    <3>4. QED
      BY <2>1, <3>2, <3>3, TokenUntouched
  <2>4. QED
    BY <1>4, <2>3, SolSpecific, TokenSolventIs DEF Solvent
<1>5. ASSUME NEW batch \in SUBSET (1..MaxBeneficiaries), ExecuteSolShares(batch)
      PROVE  Solvent
  <2>1. vault # NoAccount /\ UNCHANGED <<vault, plan, dist, ata>>
    BY <1>5 DEF ExecuteSolShares
  <2>2. ASSUME NEW x \in Mints PROVE CoveredNext(x)
    BY <1>a, <2>1, TokenUntouched
  <2>3. QED
    BY <1>5, <2>2, SolShares, TokenSolventIs DEF Solvent
<1>6. ASSUME NEW m \in Mints, NEW batch \in SUBSET (1..MaxBeneficiaries),
             ExecuteTokenShares(m, batch)
      PROVE  Solvent
  <2>1. /\ vault # NoAccount /\ UNCHANGED <<vault, log, plan, lamports>>
        /\ \A x \in Mints : x # m => ata'[x] = ata[x]
    BY <1>0, <1>6 DEF ExecuteTokenShares, TypeOK
  <2>2. SolSpecifics' = SolSpecifics
    BY <2>1 DEF SolSpecifics, UnpaidSpecifics
  <2>3. lamports' >= lamports
    BY <1>a, <2>1
  <2>4. SolSolvent'
    BY <2>1, <2>2, <2>3, SolUntouched
  <2>5. ASSUME NEW x \in Mints, x # m PROVE CoveredNext(x)
    <3>1. dist'[x] = dist[x]
      BY <1>0, <1>6, <2>5, TokenSharesTyped
    <3>2. AtaHolds(ata'[x]) >= AtaHolds(ata[x])
      BY <1>a, <2>1, <2>5
    <3>3. QED
      BY <2>1, <3>1, <3>2, TokenUntouched
  <2>6. QED
    BY <1>6, <2>4, <2>5, TokenShares, TokenSolventIs DEF Solvent
<1>7. ASSUME NEW payer \in Payers, FinalizeExecution(payer) PROVE Solvent
  <2>1. /\ vault # NoAccount /\ UNCHANGED <<plan, dist, ata>>
        /\ vault' = [vault EXCEPT !.executed = TRUE, !.active = FALSE]
    BY <1>7 DEF FinalizeExecution
  <2>2. vault'.beneficiaries = vault.beneficiaries
    BY <1>0, <2>1 DEF TypeOK, VaultConfig
  <2>3. ASSUME NEW x \in Mints PROVE CoveredNext(x)
    BY <1>a, <2>1, <2>2, TokenUntouched
  <2>4. QED
    BY <1>7, <2>3, SolFinalize, TokenSolventIs DEF Solvent
<1>8. ASSUME NEW m \in Mints, CloseTokenDist(m) PROVE Solvent
  <2>1. /\ vault # NoAccount /\ UNCHANGED <<log, plan, lamports>>
        /\ \E n : vault' = [vault EXCEPT !.open_token_dists = n]
        /\ dist'[m] = NoAccount
        /\ \A x \in Mints : x # m => dist'[x] = dist[x] /\ ata'[x] = ata[x]
    BY <1>0, <1>8 DEF CloseTokenDist, TypeOK
  <2>2. /\ vault'.beneficiaries = vault.beneficiaries
        /\ vault'.keeper_bounty = vault.keeper_bounty
        /\ vault'.executed = vault.executed
    BY <1>0, <2>1 DEF TypeOK, VaultConfig
  <2>3. SolSpecifics' = SolSpecifics
    BY <2>1 DEF SolSpecifics, UnpaidSpecifics
  <2>4. lamports' >= lamports
    BY <1>a, <2>1
  <2>5. SolSolvent'
    <3>1. CASE vault' = NoAccount
      BY <3>1 DEF SolSolvent
    <3>2. CASE vault' # NoAccount
      BY <2>1, <2>2, <2>3, <2>4, <3>2, SolUntouched
    <3>3. QED
      BY <3>1, <3>2
  <2>6. ASSUME NEW x \in Mints PROVE CoveredNext(x)
    <3>1. CASE x = m
      BY <2>1, <3>1 DEF CoveredNext
    <3>2. CASE x # m
      BY <1>a, <2>1, <2>2, <3>2, TokenUntouched
    <3>3. QED
      BY <3>1, <3>2
  <2>7. QED
    BY <2>5, <2>6, TokenSolventIs DEF Solvent
<1>9. ASSUME NEW payer \in Payers, CloseExecutedVault(payer) PROVE Solvent
  <2>1. vault' = NoAccount
    BY <1>9 DEF CloseExecutedVault, CloseCore
  <2>2. QED
    BY <2>1 DEF Solvent, SolSolvent, TokenSolvent
<1>10. QED
  BY <1>1, <1>2, <1>3, <1>4, <1>5, <1>6, <1>7, <1>8, <1>9 DEF CrankNext

\* Transfers into the vault, the clock and the mint issuers.
LEMMA SolventEnvironment ==
  ASSUME SolvencyInv, TypeOK', EnvironmentNext \/ UNCHANGED vars
  PROVE  Solvent
<1>0. LifecycleInv /\ TypeOK
  BY DEF SolvencyInv, LedgerInv, LifecycleInv
<1>1. UNCHANGED <<vault, log, plan, dist>>
  BY DEF EnvironmentNext, Tick, DepositSol, CreateVaultAta, DepositTokens, Freeze, Thaw
<1>2. lamports \in Nat /\ Amounts \subseteq Nat
  BY <1>0, InputsAssumption DEF TypeOK
<1>3. lamports' >= lamports
  <2>1. ASSUME NEW from \in Depositors, NEW amount \in Amounts, DepositSol(from, amount)
        PROVE  lamports' >= lamports
    <3>1. amount \in Nat /\ lamports' = lamports + amount
      BY <1>2, <2>1 DEF DepositSol
    <3>2. QED
      BY <1>2, <3>1
  <2>2. CASE lamports' = lamports
    BY <1>2, <2>2
  <2>3. QED
    BY <2>1, <2>2 DEF EnvironmentNext, Tick, CreateVaultAta, DepositTokens, Freeze, Thaw
<1>4. \A m \in Mints : AtaHolds(ata'[m]) >= AtaHolds(ata[m])
  <2>0. \A m \in Mints : AtaHolds(ata[m]) \in Nat
    BY <1>0 DEF TypeOK, AtaHolds
  <2>1. CASE ata' = ata
    BY <2>0, <2>1
  <2>2. ASSUME NEW m \in Mints, CreateVaultAta(m), NEW x \in Mints
        PROVE  AtaHolds(ata'[x]) >= AtaHolds(ata[x])
    <3>1. AtaHolds(ata'[x]) = AtaHolds(ata[x])
      BY <1>0, <2>2, RecordsStay DEF CreateVaultAta, AtaHolds, TypeOK
    <3>2. QED
      BY <2>0, <3>1
  <2>3. ASSUME NEW from \in Depositors, NEW m \in Mints, NEW amount \in Amounts,
               DepositTokens(from, m, amount), NEW x \in Mints
        PROVE  AtaHolds(ata'[x]) >= AtaHolds(ata[x])
    <3>1. amount \in Nat /\ ata[m] \in Nat /\ ata[m] + amount \in Nat
          /\ ata' = [ata EXCEPT ![m] = @ + amount] /\ ata[m] # NoAccount
      BY <1>0, <1>2, <2>3 DEF DepositTokens, TypeOK
    <3>2. CASE x = m
      <4>1. AtaHolds(ata'[x]) = ata[m] + amount /\ AtaHolds(ata[x]) = ata[m]
        BY <1>0, <3>1, <3>2, RecordsStay DEF AtaHolds, TypeOK
      <4>2. QED
        BY <3>1, <4>1
    <3>3. CASE x # m
      <4>1. ata'[x] = ata[x]
        BY <1>0, <3>1, <3>3 DEF TypeOK
      <4>2. QED
        BY <2>0, <4>1
    <3>4. QED
      BY <3>2, <3>3
  <2>4. QED
    BY <2>1, <2>2, <2>3 DEF EnvironmentNext, Tick, DepositSol, Freeze, Thaw
<1>5. CASE vault = NoAccount
  <2>1. vault' = NoAccount
    BY <1>1, <1>5
  <2>2. QED
    BY <2>1 DEF Solvent, SolSolvent, TokenSolvent
<1>6. CASE vault # NoAccount
  BY <1>1, <1>3, <1>4, <1>6, NothingPaid
<1>7. QED
  BY <1>5, <1>6

\* SolvencyInv is inductive.
LEMMA SolvencyNext ==
  ASSUME SolvencyInv, [Next]_vars
  PROVE  SolvencyInv'
<1>1. LedgerInv' /\ TypeOK'
  BY LedgerNext DEF SolvencyInv, LedgerInv, LifecycleInv
<1>2. Solvent
  BY <1>1, SolventOwner, SolventCrank, SolventEnvironment DEF Next
<1>3. QED
  BY <1>1, <1>2 DEF SolvencyInv, Solvent

\* The invariant of every reachable chain.
THEOREM SolvencyInvariant == Spec => []SolvencyInv
<1>1. Init => SolvencyInv
  BY LedgerInit DEF Init, SolvencyInv, SolSolvent, TokenSolvent
<1>2. QED
  BY <1>1, SolvencyNext, PTL DEF Spec

\* The rent and every SOL share still owed are always in the vault; so are, as
\* long as the residual is not empty, every bequest still owed and the bounty:
\* no crank of execute_sol_shares or execute_specific_sol can be starved.
THEOREM SolAlwaysSolvent == Spec => []SolSolvent
<1>1. SolvencyInv => SolSolvent
  BY DEF SolvencyInv
<1>2. QED
  BY <1>1, SolvencyInvariant, PTL

\* The same for every open distribution of every mint.
THEOREM TokensAlwaysSolvent == Spec => []TokenSolvent
<1>1. SolvencyInv => TokenSolvent
  BY DEF SolvencyInv
<1>2. QED
  BY <1>1, SolvencyInvariant, PTL

-------------------------------------------------------------------------------
(* Who receives the estate.                                                    *)

HeirWallets == {WalletOf(i) : i \in Indices}

\* No share exceeds the 10000 basis points that the shares add up to.
LEMMA ShareAtMostAll ==
  ASSUME NEW bs \in Seq(Beneficiary), ValidBeneficiaries(bs), NEW j \in 1..Len(bs)
  PROVE  bs[j].share_bps \in Nat /\ bs[j].share_bps <= 10000
<1> DEFINE n == Len(bs)
           f == [i \in 1..n |-> bs[i].share_bps]
<1>1. n \in Nat /\ f \in [1..n -> Nat] /\ bs[j].share_bps \in Nat
  <2>1. 0 \in Nat
    OBVIOUS
  <2>2. QED
    BY <2>1, SharesTyped
<1>2. SumTo(n, f) = 10000 /\ f[j] = bs[j].share_bps /\ j \in 1..n
  BY DEF ValidBeneficiaries
<1>3. SumOver(n, 1..n, f) = SumTo(n, f)
  <2>1. [k \in 1..n |-> IF k \in 1..n THEN f[k] ELSE 0] = f
    BY <1>1
  <2>2. QED
    BY <2>1 DEF SumOver
<1> HIDE DEF n, f
<1>4. SumOver(n, {j}, f) = f[j]
  <2>1. n \in Nat /\ f \in [1..n -> Nat] /\ j \in 1..n
    BY <1>1, <1>2
  <2>2. QED
    BY <2>1, SumOverSingle
<1>5. SumOver(n, {j}, f) <= SumOver(n, 1..n, f)
  <2>1. {j} \subseteq 1..n
    BY <1>2
  <2>2. QED
    BY <1>1, <2>1, SumOverSubset
<1>6. QED
  BY <1>1, <1>2, <1>3, <1>4, <1>5

\* largest_share_index finds the first of the largest shares.
LEMMA LargestIsAnHeir ==
  ASSUME NEW bs \in Seq(Beneficiary), ValidBeneficiaries(bs)
  PROVE  /\ LargestShareIndex(bs) \in 1..Len(bs)
         /\ \A k \in 1..Len(bs) : bs[k].share_bps <= bs[LargestShareIndex(bs)].share_bps
         /\ \A k \in 1..(LargestShareIndex(bs) - 1) :
                bs[k].share_bps < bs[LargestShareIndex(bs)].share_bps
<1> DEFINE n == Len(bs)
           Missing == {10000 - bs[i].share_bps : i \in 1..n}
<1>1. n \in Nat /\ n >= 1 /\ \A i \in 1..n : bs[i].share_bps \in Nat /\ bs[i].share_bps <= 10000
  <2>1. n \in 1..MaxBeneficiaries
    BY DEF ValidBeneficiaries
  <2>2. n \in Nat /\ n >= 1
    BY <2>1, BoundsAssumption
  <2>3. QED
    BY <2>2, ShareAtMostAll
<1>2. Missing \subseteq Nat /\ Missing # {}
  BY <1>1
<1> HIDE DEF Missing
<1>3. PICK least \in Missing : \A y \in Missing : least <= y
  BY <1>2, LeastNat
<1>4. PICK top \in 1..n : least = 10000 - bs[top].share_bps
  BY <1>3 DEF Missing
<1>5. \A k \in 1..n : bs[k].share_bps <= bs[top].share_bps
  <2> TAKE k \in 1..n
  <2>1. 10000 - bs[k].share_bps \in Missing
    BY DEF Missing
  <2>2. 10000 - bs[top].share_bps <= 10000 - bs[k].share_bps
    BY <1>3, <1>4, <2>1
  <2>3. bs[top].share_bps \in Nat /\ bs[k].share_bps \in Nat
    BY <1>1
  <2>4. QED
    BY <2>2, <2>3
<1> DEFINE Tops == {i \in 1..n : bs[i].share_bps = bs[top].share_bps}
<1>6. Tops \subseteq Nat /\ Tops # {}
  BY <1>1
<1> HIDE DEF Tops
<1>7. PICK first \in Tops : \A y \in Tops : first <= y
  BY <1>6, LeastNat
<1>8. first \in 1..n /\ bs[first].share_bps = bs[top].share_bps
  BY <1>7 DEF Tops
<1>9. \A k \in 1..(first - 1) : bs[k].share_bps < bs[first].share_bps
  <2> TAKE k \in 1..(first - 1)
  <2>1. k \in 1..n /\ k < first /\ k \in Nat /\ first \in Nat
    BY <1>1, <1>8
  <2>2. k \notin Tops
    BY <1>7, <2>1
  <2>3. bs[k].share_bps # bs[top].share_bps
    BY <2>1, <2>2 DEF Tops
  <2>4. bs[k].share_bps <= bs[top].share_bps /\ bs[k].share_bps \in Nat
        /\ bs[top].share_bps \in Nat
    BY <1>1, <1>5, <2>1
  <2>5. QED
    BY <1>8, <2>3, <2>4
<1>10. QED
  BY <1>5, <1>8, <1>9 DEF LargestShareIndex

\* The dust goes to a beneficiary of the vault.
LEMMA LargestInherits ==
  ASSUME SolvencyInv, vault # NoAccount
  PROVE  LargestWallet \in HeirWallets
<1>1. vault.beneficiaries \in Seq(Beneficiary) /\ ValidBeneficiaries(vault.beneficiaries)
  BY DEF SolvencyInv, LedgerInv, LifecycleInv, TypeOK, VaultConfig, VaultInOrder
<1>2. LargestShareIndex(vault.beneficiaries) \in Indices
  BY <1>1, LargestIsAnHeir DEF Indices
<1>3. QED
  BY <1>2 DEF LargestWallet, HeirWallets

\* A step that credits no account outside the heirs.
HeirsOnly ==
  /\ \A a \in Accounts \ HeirWallets : sol'[a] <= sol[a]
  /\ \A m \in Mints, a \in Accounts \ HeirWallets : tokens'[m][a] <= tokens[m][a]

\* Balances that do not change satisfy it.
LEMMA SameSol ==
  ASSUME TypeOK, sol' = sol
  PROVE  \A a \in Accounts \ HeirWallets : sol'[a] <= sol[a]
<1>1. \A a \in Accounts : sol[a] \in Nat
  BY DEF TypeOK
<1>2. QED
  BY <1>1

\* So do the balances of one mint.
LEMMA SameTokens ==
  ASSUME TypeOK, NEW m \in Mints, tokens'[m] = tokens[m]
  PROVE  \A a \in Accounts \ HeirWallets : tokens'[m][a] <= tokens[m][a]
<1>1. \A a \in Accounts : tokens[m][a] \in Nat
  BY DEF TypeOK
<1>2. QED
  BY <1>1

\* A batch credits only the beneficiaries it pays.
LEMMA BatchToHeirs ==
  ASSUME TypeOK, vault # NoAccount, NEW held \in [Accounts -> Nat], NEW paid \in SUBSET Indices,
         NEW amounts \in [1..Len(vault.beneficiaries) -> Nat], NEW a \in Accounts \ HeirWallets
  PROVE  Credited(held, paid, amounts)[a] <= held[a]
<1> DEFINE S == {i \in paid : WalletOf(i) = a}
           n == Len(vault.beneficiaries)
<1>1. S \cap (1..n) = {}
  BY DEF HeirWallets, Indices
<1>2. n \in Nat
  BY SharesNat
<1> HIDE DEF S, n
<1>3. SumOver(n, S, amounts) = 0
  BY <1>1, <1>2, SumOverNone DEF n
<1>4. Credited(held, paid, amounts)[a] = held[a] + SumOver(n, S, amounts)
  BY DEF Credited, S, n
<1>5. held[a] \in Nat
  OBVIOUS
<1>6. QED
  BY <1>3, <1>4, <1>5

\* The two share batches.
LEMMA EstateShares ==
  ASSUME SolvencyInv, NEW batch \in SUBSET (1..MaxBeneficiaries),
         ExecuteSolShares(batch) \/ \E m \in Mints : ExecuteTokenShares(m, batch)
  PROVE  HeirsOnly
<1>0. TypeOK
  BY DEF SolvencyInv, LedgerInv, LifecycleInv
<1>1. CASE ExecuteSolShares(batch)
  <2> DEFINE shares == Shares(log.sol_snapshot)
             paying == {i \in StillUnpaid(batch, log.sol_paid_mask) : shares[i] > 0}
  <2>1. /\ vault # NoAccount /\ log # NoAccount /\ tokens' = tokens
        /\ paying \in SUBSET Indices
        /\ sol' = Credited(sol, paying, shares)
    BY <1>1 DEF ExecuteSolShares, StillUnpaid
  <2>2. log.sol_snapshot \in Nat
    BY <1>0, <2>1 DEF TypeOK, ExecutionLog
  <2>3. shares \in [1..Len(vault.beneficiaries) -> Nat] /\ sol \in [Accounts -> Nat]
    BY <1>0, <2>1, <2>2, SharesNat DEF TypeOK
  <2> HIDE DEF shares, paying
  <2>4. \A a \in Accounts \ HeirWallets : sol'[a] <= sol[a]
    BY <1>0, <2>1, <2>3, BatchToHeirs
  <2>5. QED
    BY <1>0, <2>1, <2>4, SameTokens DEF HeirsOnly
<1>2. ASSUME NEW m \in Mints, ExecuteTokenShares(m, batch) PROVE HeirsOnly
  <2> DEFINE shares == Shares(dist[m].snapshot)
             paying == {i \in StillUnpaid(batch, dist[m].paid_mask) : shares[i] > 0}
             leaving == {i \in paying : WalletOf(i) # VaultKey}
  <2>1. /\ vault # NoAccount /\ dist[m] # NoAccount /\ sol' = sol
        /\ leaving \in SUBSET Indices
        /\ tokens' = [tokens EXCEPT ![m] = Credited(tokens[m], leaving, shares)]
    BY <1>0, <1>2 DEF ExecuteTokenShares, StillUnpaid, TypeOK
  <2>2. dist[m].snapshot \in Nat
    BY <1>0, <2>1 DEF TypeOK, TokenDist
  <2>3. /\ shares \in [1..Len(vault.beneficiaries) -> Nat]
        /\ tokens[m] \in [Accounts -> Nat]
    BY <1>0, <2>1, <2>2, SharesNat DEF TypeOK
  <2> HIDE DEF shares, leaving
  <2>4. tokens'[m] = Credited(tokens[m], leaving, shares)
        /\ \A x \in Mints : x # m => tokens'[x] = tokens[x]
    BY <1>0, <2>1 DEF TypeOK
  <2>5. \A a \in Accounts \ HeirWallets : tokens'[m][a] <= tokens[m][a]
    BY <1>0, <2>1, <2>3, <2>4, BatchToHeirs
  <2>6. QED
    BY <1>0, <2>1, <2>4, <2>5, SameSol, SameTokens DEF HeirsOnly
<1>3. QED
  BY <1>1, <1>2

\* The two payments of a specific bequest.
LEMMA EstateSpecific ==
  ASSUME SolvencyInv, NEW j \in 1..MaxAssignments,
         ExecuteSpecificSol(j) \/ \E m \in Mints : ExecuteSpecificAsset(m, j)
  PROVE  HeirsOnly
<1> DEFINE w == WalletOf(plan.assignments[j].beneficiary_index)
<1>0. TypeOK
  BY DEF SolvencyInv, LedgerInv, LifecycleInv
<1>1. w \in HeirWallets
  BY DEF ExecuteSpecificSol, ExecuteSpecificAsset, PayableSpecific, HeirWallets
<1> HIDE DEF w
<1>2. CASE ExecuteSpecificSol(j)
  <2>1. tokens' = tokens /\ \E v : sol' = [sol EXCEPT ![w] = v]
    BY <1>2 DEF ExecuteSpecificSol, w
  <2>2. \A a \in Accounts \ HeirWallets : sol'[a] = sol[a] /\ sol[a] \in Nat
    BY <1>0, <1>1, <2>1 DEF TypeOK
  <2>3. \A a \in Accounts \ HeirWallets : sol'[a] <= sol[a]
    BY <2>2
  <2>4. QED
    BY <1>0, <2>1, <2>3, SameTokens DEF HeirsOnly
<1>3. ASSUME NEW m \in Mints, ExecuteSpecificAsset(m, j) PROVE HeirsOnly
  <2>1. sol' = sol /\ \E v : tokens' = [tokens EXCEPT ![m][w] = v]
    BY <1>3 DEF ExecuteSpecificAsset, w
  <2>2. /\ \A a \in Accounts \ HeirWallets : tokens'[m][a] = tokens[m][a] /\ tokens[m][a] \in Nat
        /\ \A x \in Mints : x # m => tokens'[x] = tokens[x]
    BY <1>0, <1>1, <2>1 DEF TypeOK
  <2>3. \A a \in Accounts \ HeirWallets : tokens'[m][a] <= tokens[m][a]
    BY <2>2
  <2>4. QED
    BY <1>0, <2>1, <2>2, <2>3, SameSol, SameTokens DEF HeirsOnly
<1>4. QED
  BY <1>2, <1>3

\* close_token_dist sweeps the dust to the largest share.
LEMMA EstateCloseDist ==
  ASSUME SolvencyInv, NEW m \in Mints, CloseTokenDist(m)
  PROVE  HeirsOnly
<1>0. TypeOK
  BY DEF SolvencyInv, LedgerInv, LifecycleInv
<1>1. /\ vault # NoAccount /\ sol' = sol
      /\ tokens' = [tokens EXCEPT ![m] =
             [a \in Accounts |-> tokens[m][a] + IF a = LargestWallet THEN ata[m] ELSE 0]]
  BY <1>0 DEF CloseTokenDist, TypeOK
<1>2. LargestWallet \in HeirWallets
  BY <1>1, LargestInherits
<1>3. /\ \A a \in Accounts \ HeirWallets : tokens'[m][a] = tokens[m][a] + 0
      /\ \A x \in Mints : x # m => tokens'[x] = tokens[x]
      /\ \A a \in Accounts : tokens[m][a] \in Nat
  BY <1>0, <1>1, <1>2 DEF TypeOK
<1>4. \A a \in Accounts \ HeirWallets : tokens'[m][a] <= tokens[m][a]
  BY <1>3
<1>5. QED
  BY <1>0, <1>1, <1>3, <1>4, SameSol, SameTokens DEF HeirsOnly

\* What EstateOnlyToHeirs asks of a step.
Allowance == IF vault' = NoAccount THEN Rent
             ELSE IF vault'.executed # vault.executed THEN vault.keeper_bounty ELSE 0

EstateKept ==
  /\ \A a \in Accounts \ HeirWallets : sol'[a] - sol[a] <= Allowance
  /\ \A m \in Mints, a \in Accounts \ HeirWallets : tokens'[m][a] <= tokens[m][a]

\* A balance that grows by an allowance at most.
LEMMA Within ==
  ASSUME NEW x \in Nat, NEW y \in Nat, NEW c \in Nat, y <= x + c
  PROVE  y - x <= c
OBVIOUS

\* A balance that does not grow.
LEMMA NotMore ==
  ASSUME NEW x \in Nat, NEW y \in Nat, NEW c \in Nat, y <= x
  PROVE  y - x <= c
OBVIOUS

\* A step that credits only the heirs keeps within every allowance.
LEMMA HeirsOnlyEnough ==
  ASSUME SolvencyInv, TypeOK', vault # NoAccount, HeirsOnly
  PROVE  EstateKept
<1>1. Allowance \in Nat
  BY BoundsAssumption DEF Allowance, SolvencyInv, LedgerInv, LifecycleInv, TypeOK, VaultConfig
<1>2. \A a \in Accounts : sol[a] \in Nat /\ sol'[a] \in Nat
  BY DEF SolvencyInv, LedgerInv, LifecycleInv, TypeOK
<1>3. QED
  BY <1>1, <1>2, NotMore DEF HeirsOnly, EstateKept

\* finalize_execution pays its caller the bounty at most.
LEMMA EstateFinalize ==
  ASSUME SolvencyInv, TypeOK', NEW payer \in Payers, FinalizeExecution(payer)
  PROVE  EstateKept
<1> DEFINE amt == Lesser(vault.keeper_bounty, Available)
<1>0. TypeOK
  BY DEF SolvencyInv, LedgerInv, LifecycleInv
<1>1. /\ vault # NoAccount /\ ~vault.executed /\ tokens' = tokens
      /\ vault' = [vault EXCEPT !.executed = TRUE, !.active = FALSE]
      /\ sol' = [sol EXCEPT ![payer] = sol[payer] + amt]
  BY DEF FinalizeExecution
<1>2. vault \in VaultConfig /\ vault.keeper_bounty \in Nat
  BY <1>0, <1>1 DEF TypeOK, VaultConfig
<1>3. vault' \in VaultConfig /\ vault'.executed = TRUE
  BY <1>1, <1>2 DEF VaultConfig
<1>4. Allowance = vault.keeper_bounty
  BY <1>1, <1>3, RecordsStay DEF Allowance
<1>5. amt \in Nat /\ amt <= vault.keeper_bounty
  BY <1>0, <1>2, AvailableNat, SatSubNat
<1> HIDE DEF amt
<1>6. \A a \in Accounts : /\ sol[a] \in Nat /\ sol'[a] \in Nat
                          /\ sol'[a] = sol[a] \/ sol'[a] = sol[a] + amt
  BY <1>0, <1>1 DEF TypeOK
<1>7. \A a \in Accounts : sol'[a] <= sol[a] + vault.keeper_bounty
  BY <1>2, <1>5, <1>6
<1>8. \A a \in Accounts : sol'[a] - sol[a] <= Allowance
  BY <1>2, <1>4, <1>6, <1>7, Within
<1>9. QED
  BY <1>0, <1>1, <1>8, SameTokens DEF EstateKept

\* A core close gives the dust to an heir and the rent to its caller.
LEMMA EstateClose ==
  ASSUME SolvencyInv, TypeOK', NEW rentTo, vault # NoAccount, CloseCore(rentTo),
         \A i \in Indices : WalletOf(i) # VaultKey
  PROVE  EstateKept
<1>0. TypeOK
  BY DEF SolvencyInv, LedgerInv, LifecycleInv
<1>1. LargestWallet \in HeirWallets /\ LargestWallet # VaultKey
  BY LargestInherits DEF HeirWallets
<1>2. /\ lamports \in Nat /\ Rent \in Nat /\ lamports >= Rent
      /\ Available = lamports - Rent
  BY <1>0, BoundsAssumption DEF TypeOK, SolvencyInv, SolSolvent, Available, SatSub
<1>3. lamports - Available = Rent
  BY <1>2
<1>4. /\ vault' = NoAccount /\ tokens' = tokens
      /\ sol' = [a \in Accounts |->
              sol[a] + (IF a = LargestWallet THEN Available ELSE 0)
                     + (IF a = rentTo THEN lamports - Available ELSE 0)]
  BY <1>1 DEF CloseCore
<1>5. \A a \in Accounts : sol[a] \in Nat /\ sol'[a] \in Nat
  BY <1>0 DEF TypeOK
<1>6. ASSUME NEW a \in Accounts \ HeirWallets PROVE sol'[a] <= sol[a] + Rent
  <2>1. sol'[a] = sol[a] + 0 + (IF a = rentTo THEN Rent ELSE 0)
    BY <1>1, <1>3, <1>4
  <2>2. QED
    BY <1>2, <1>5, <2>1
<1>7. Allowance = Rent
  BY <1>4 DEF Allowance
<1>8. \A a \in Accounts \ HeirWallets : sol'[a] - sol[a] <= Allowance
  BY <1>2, <1>5, <1>6, <1>7, Within
<1>9. QED
  BY <1>0, <1>4, <1>8, SameTokens DEF EstateKept

\* Transfers into the vault credit nobody.
LEMMA EstateEnvironment ==
  ASSUME SolvencyInv, EnvironmentNext \/ UNCHANGED vars
  PROVE  HeirsOnly
<1>0. TypeOK
  BY DEF SolvencyInv, LedgerInv, LifecycleInv
<1>1. Amounts \subseteq Nat
  BY InputsAssumption
<1>2. ASSUME NEW from \in Depositors, NEW amount \in Amounts, DepositSol(from, amount)
      PROVE  HeirsOnly
  <2>1. tokens' = tokens /\ sol' = [sol EXCEPT ![from] = @ - amount] /\ amount \in Nat
    BY <1>1, <1>2 DEF DepositSol
  <2>2. \A a \in Accounts : sol[a] \in Nat /\ (sol'[a] = sol[a] \/ sol'[a] = sol[a] - amount)
    BY <1>0, <2>1 DEF TypeOK
  <2>3. \A a \in Accounts : sol'[a] <= sol[a]
    BY <2>1, <2>2
  <2>4. QED
    BY <1>0, <2>1, <2>3, SameTokens DEF HeirsOnly
<1>3. ASSUME NEW from \in Depositors, NEW m \in Mints, NEW amount \in Amounts,
             DepositTokens(from, m, amount)
      PROVE  HeirsOnly
  <2>1. sol' = sol /\ tokens' = [tokens EXCEPT ![m][from] = @ - amount] /\ amount \in Nat
    BY <1>1, <1>3 DEF DepositTokens
  <2>2. /\ \A a \in Accounts : /\ tokens[m][a] \in Nat
                               /\ \/ tokens'[m][a] = tokens[m][a]
                                  \/ tokens'[m][a] = tokens[m][a] - amount
        /\ \A x \in Mints : x # m => tokens'[x] = tokens[x]
    BY <1>0, <2>1 DEF TypeOK
  <2>3. \A a \in Accounts : tokens'[m][a] <= tokens[m][a]
    BY <2>1, <2>2
  <2>4. QED
    BY <1>0, <2>1, <2>2, <2>3, SameSol, SameTokens DEF HeirsOnly
<1>4. CASE UNCHANGED <<sol, tokens>>
  BY <1>0, <1>4, SameSol, SameTokens DEF HeirsOnly
<1>5. QED
  BY <1>2, <1>3, <1>4 DEF EnvironmentNext, Tick, CreateVaultAta, Freeze, Thaw

\* After grace the owner and the agent are shut out, but for the core close.
LEMMA EstateOwner ==
  ASSUME SolvencyInv, TypeOK', OwnerNext \/ AgentNext, VaultExists, GraceElapsed,
         \A i \in Indices : WalletOf(i) # VaultKey
  PROVE  EstateKept
<1>0. LifecycleInv /\ TypeOK
  BY DEF SolvencyInv, LedgerInv, LifecycleInv
<1>1. ~NotFrozen
  <2>1. vault.heartbeat_interval \in Nat /\ vault.grace_period \in Nat /\ heartbeat \in Nat
        /\ now \in Nat
    BY <1>0 DEF TypeOK, VaultConfig, VaultExists
  <2>2. QED
    BY <2>1 DEF NotFrozen, GraceElapsed, Deadline
<1>2. CloseExecutedVaultByOwner
  BY <1>0, <1>1, LifeCloseRevoked DEF OwnerNext, AgentNext, InitializeVault, UpdateVault,
     RotateAgent, RecordHeartbeat, SetAssetPlan, UpdateAssetPlan, ClearAssetPlan,
     RevokeVault, WithdrawSolFromVault, WithdrawFromVault, OpenForOwner, VaultExists
<1>3. QED
  BY <1>2, EstateClose DEF CloseExecutedVaultByOwner, VaultExists

\* Every step after grace.
LEMMA EstateStep ==
  ASSUME SolvencyInv, [Next]_vars, VaultExists, GraceElapsed,
         \A i \in Indices : WalletOf(i) # VaultKey
  PROVE  EstateKept
<1>0. TypeOK' /\ TypeOK /\ vault # NoAccount
  BY TypeNext DEF SolvencyInv, LedgerInv, LifecycleInv, VaultExists
<1>1. CASE HeirsOnly
  BY <1>0, <1>1, HeirsOnlyEnough
<1>2. CASE OwnerNext \/ AgentNext
  BY <1>0, <1>2, EstateOwner
<1>3. CASE EnvironmentNext \/ UNCHANGED vars
  BY <1>1, <1>3, EstateEnvironment
<1>4. CASE CrankNext
  <2>1. ASSUME BeginExecution \/ \E m \in Mints : BeginTokenDist(m)
        PROVE  HeirsOnly
    <3>1. UNCHANGED <<sol, tokens>>
      BY <2>1 DEF BeginExecution, BeginTokenDist
    <3>2. QED
      BY <1>0, <3>1, SameSol, SameTokens DEF HeirsOnly
  <2>2. ASSUME NEW payer \in Payers, CloseExecutedVault(payer) PROVE EstateKept
    BY <1>0, <2>2, EstateClose DEF CloseExecutedVault
  <2>3. QED
    BY <1>0, <1>1, <1>4, <2>1, <2>2, EstateShares, EstateSpecific, EstateCloseDist,
       EstateFinalize DEF CrankNext
<1>5. QED
  BY <1>2, <1>3, <1>4 DEF Next

\* Once grace has elapsed no instruction moves the estate to anybody but its
\* beneficiaries, apart from the bounty and, at the close, the rent.
THEOREM EstateGoesToHeirs == Spec => EstateOnlyToHeirs
<1>1. SolvencyInv /\ [Next]_vars =>
          [VaultExists /\ GraceElapsed /\ (\A i \in Indices : WalletOf(i) # VaultKey)
              => EstateKept]_vars
  BY EstateStep
<1>2. QED
  BY <1>1, SolvencyInvariant, PTL DEF Spec, EstateOnlyToHeirs, EstateKept, Allowance, HeirWallets

-------------------------------------------------------------------------------
(* The reference, as a function of the terms and of the opening ledger.        *)

MintAmounts(list, x) == Restricted(Len(list), OfMint(list, x), AssignedAmounts(list))

AmountsBefore(list, x) == PrefixSums(Len(list), MintAmounts(list, x))

LEMMA AmountsBeforeDef ==
  ASSUME NEW list \in Seq(AssetAssignment), NEW x
  PROVE  /\ Len(list) \in Nat
         /\ MintAmounts(list, x) \in [1..Len(list) -> Nat]
         /\ IsPrefixSums(AmountsBefore(list, x), Len(list), MintAmounts(list, x))
         /\ \A k \in 1..Len(list) :
              MintAmounts(list, x)[k] = IF list[k].mint = x THEN list[k].amount ELSE 0
<1>1. Len(list) \in Nat /\ AssignedAmounts(list) \in [1..Len(list) -> Nat]
  BY AmountsTyped
<1>2. MintAmounts(list, x) \in [1..Len(list) -> Nat]
  BY <1>1, SumOverIs DEF MintAmounts
<1>3. IsPrefixSums(AmountsBefore(list, x), Len(list), MintAmounts(list, x))
  BY <1>1, <1>2, PrefixSumsDef DEF AmountsBefore
<1>4. \A k \in 1..Len(list) :
         MintAmounts(list, x)[k] = IF list[k].mint = x THEN list[k].amount ELSE 0
  BY DEF MintAmounts, Restricted, OfMint, AssignedAmounts
<1> QED
  BY <1>1, <1>2, <1>3, <1>4

\* Two saturating subtractions are one of the sum.
LEMMA SatSubTwice ==
  ASSUME NEW e \in Nat, NEW p \in Nat, NEW q \in Nat
  PROVE  SatSub(SatSub(e, p), q) = SatSub(e, p + q)
BY DEF SatSub

\* LeftOf satisfies its recursive definition, and is the estate less the bequests.
LEMMA LeftIs ==
  ASSUME NEW list \in Seq(AssetAssignment), NEW x, NEW e \in Nat
  PROVE  LeftOf(list, x, e) = [k \in 0..Len(list) |-> SatSub(e, AmountsBefore(list, x)[k])]
<1> DEFINE n == Len(list)
           P == AmountsBefore(list, x)
           L == [k \in 0..n |-> SatSub(e, P[k])]
           took(k) == IF list[k].mint = x THEN list[k].amount ELSE 0
           Step(s) == [k \in 0..n |-> IF k = 0 THEN e ELSE SatSub(s[k - 1], took(k))]
           h == LeftOf(list, x, e)
<1>1. /\ n \in Nat /\ P \in [0..n -> Nat] /\ P[0] = 0
      /\ \A k \in 1..n : took(k) \in Nat /\ P[k] = P[k - 1] + took(k)
  <2> DEFINE f == MintAmounts(list, x)
  <2>1. /\ n \in Nat /\ f \in [1..n -> Nat] /\ IsPrefixSums(P, n, f)
        /\ \A k \in 1..n : f[k] = took(k)
    BY AmountsBeforeDef
  <2> HIDE DEF n, P, f, took
  <2>2. P \in [0..n -> Nat] /\ P[0] = 0 /\ \A k \in 1..n : P[k] = P[k - 1] + f[k]
    BY <2>1 DEF IsPrefixSums
  <2>3. \A k \in 1..n : took(k) \in Nat
    BY <2>1
  <2> QED
    BY <2>1, <2>2, <2>3
<1>2. h = CHOOSE s : s = Step(s)
  BY DEF LeftOf
<1> HIDE DEF P, took, h
<1>3. \A k \in 1..n : k - 1 \in 0..n /\ k # 0 /\ k \in 0..n
  BY <1>1
<1>4. ASSUME NEW k \in 1..n
      PROVE  L[k] = SatSub(L[k - 1], took(k))
  <2>1. P[k - 1] \in Nat /\ took(k) \in Nat /\ P[k] = P[k - 1] + took(k)
    BY <1>1, <1>3
  <2>2. L[k] = SatSub(e, P[k]) /\ L[k - 1] = SatSub(e, P[k - 1])
    BY <1>3
  <2>3. SatSub(SatSub(e, P[k - 1]), took(k)) = SatSub(e, P[k - 1] + took(k))
    BY <2>1, SatSubTwice
  <2> HIDE DEF L
  <2> QED
    BY <2>1, <2>2, <2>3
<1>5. L[0] = e
  <2>1. 0 \in 0..n /\ SatSub(e, 0) = e
    BY <1>1 DEF SatSub
  <2> QED
    BY <1>1, <2>1
<1>6. L = Step(L)
  <2>1. ASSUME NEW k \in 0..n PROVE L[k] = Step(L)[k]
    <3>1. CASE k = 0
      BY <1>5, <3>1
    <3>2. CASE k # 0
      <4>1. k \in 1..n
        BY <1>1, <3>2
      <4> QED
        BY <1>4, <3>2, <4>1
    <3> QED
      BY <3>1, <3>2
  <2>2. L = [k \in 0..n |-> L[k]] /\ Step(L) = [k \in 0..n |-> Step(L)[k]]
    OBVIOUS
  <2> HIDE DEF L, Step
  <2> QED
    BY <2>1, <2>2
<1>7. h = Step(h)
  BY <1>2, <1>6
<1>8. h[0] = e /\ (\A k \in 1..n : h[k] = SatSub(h[k - 1], took(k))) /\ h = [k \in 0..n |-> h[k]]
  <2>1. 0 \in 0..n
    BY <1>1
  <2> QED
    BY <1>3, <1>7, <2>1
<1> DEFINE Good == {k \in 0..n : h[k] = L[k]}
<1>9. 0 \in Good
  BY <1>1, <1>5, <1>8
<1>10. ASSUME NEW k \in 1..n, k - 1 \in Good PROVE k \in Good
  BY <1>3, <1>4, <1>8, <1>10
<1>11. \A k \in 0..n : k \in Good
  <2> HIDE DEF Good
  <2> QED
    BY <1>1, <1>9, <1>10, IntervalInduction
<1>12. \A k \in 0..n : h[k] = L[k]
  BY <1>11
<1>13. L = [k \in 0..n |-> L[k]]
  OBVIOUS
<1> QED
  <2> HIDE DEF L
  <2>1. h = L
    BY <1>8, <1>12, <1>13
  <2> QED
    BY <2>1 DEF L, P, h

AfterOf(list, x, e) == LeftOf(list, x, e)[Len(list)]

GrantOf(list, x, e) == [j \in 1..Len(list) |-> LeftOf(list, x, e)[j - 1] - LeftOf(list, x, e)[j]]

Bequeathed(list, some) == SumOver(Len(list), some, AssignedAmounts(list))

\* The sum of the first j - 1 values is the sum over the indices below j.
LEMMA PrefixIsSum ==
  ASSUME NEW n \in Nat, NEW f \in [1..n -> Nat], NEW S, NEW j \in 1..n
  PROVE  PrefixSums(n, Restricted(n, S, f))[j - 1] = SumOver(n, {k \in S : k < j}, f)
<1> DEFINE T == {k \in S : k < j}
           g == Restricted(n, S, f)
           h == Restricted(n, T, f)
           G == PrefixSums(n, g)
           H == PrefixSums(n, h)
           Good == {k \in 0..n : H[k] = IF k < j THEN G[k] ELSE G[j - 1]}
<1>1. g \in [1..n -> Nat] /\ h \in [1..n -> Nat] /\ SumOver(n, T, f) = SumTo(n, h)
  BY SumOverIs
<1>2. IsPrefixSums(G, n, g) /\ IsPrefixSums(H, n, h)
  BY <1>1, PrefixSumsDef
<1>3. \A k \in 1..n : h[k] = IF k < j THEN g[k] ELSE 0
  BY DEF Restricted
<1> HIDE DEF T, g, h, G, H
<1>4. 0 \in Good
  <2>1. 0 \in 0..n /\ 0 < j
    OBVIOUS
  <2> QED
    BY <1>2, <2>1 DEF IsPrefixSums
<1>5. ASSUME NEW k \in 1..n, k - 1 \in Good PROVE k \in Good
  <2>0. k \in 0..n /\ k - 1 \in 0..n /\ j - 1 \in 0..n /\ k \in Nat /\ j \in Nat
    OBVIOUS
  <2>1. /\ H[k] = H[k - 1] + h[k] /\ G[k] = G[k - 1] + g[k]
        /\ H[k - 1] = IF k - 1 < j THEN G[k - 1] ELSE G[j - 1]
    BY <1>2, <1>5 DEF IsPrefixSums
  <2>2. H[k - 1] \in Nat /\ G[k - 1] \in Nat /\ G[j - 1] \in Nat
    BY <1>2, <2>0 DEF IsPrefixSums
  <2>3. CASE k < j
    BY <1>3, <2>0, <2>1, <2>2, <2>3
  <2>4. CASE k = j
    BY <1>3, <2>0, <2>1, <2>2, <2>4
  <2>5. CASE k > j
    BY <1>3, <2>0, <2>1, <2>2, <2>5
  <2> QED
    BY <2>0, <2>3, <2>4, <2>5
<1>6. \A k \in 0..n : k \in Good
  <2> HIDE DEF Good
  <2> QED
    BY <1>4, <1>5, IntervalInduction
<1>7. H[n] = G[j - 1]
  <2>1. n \in 0..n /\ ~(n < j)
    OBVIOUS
  <2>2. n \in Good
    BY <1>6, <2>1
  <2> QED
    BY <2>1, <2>2
<1> QED
  BY <1>1, <1>7 DEF SumTo, T, g, h, G, H

\* What the bequests leave, and what they are granted.
LEMMA GrantsAre ==
  ASSUME NEW list \in Seq(AssetAssignment), NEW x, NEW e \in Nat
  PROVE  /\ Bequeathed(list, OfMint(list, x)) \in Nat
         /\ AfterOf(list, x, e) = SatSub(e, Bequeathed(list, OfMint(list, x)))
         /\ GrantOf(list, x, e) \in [1..Len(list) -> Nat]
         /\ \A j \in OfMint(list, x) :
              LET before == Bequeathed(list, LowerIndexSameMint(list, x, j)) IN
              /\ before \in Nat /\ list[j].amount \in Nat
              /\ GrantOf(list, x, e)[j] = SatSub(e, before) - SatSub(e, before + list[j].amount)
         /\ \A j \in (1..Len(list)) \ OfMint(list, x) : GrantOf(list, x, e)[j] = 0
<1> DEFINE n == Len(list)
           f == AssignedAmounts(list)
           S == OfMint(list, x)
           g == MintAmounts(list, x)
           P == AmountsBefore(list, x)
           L == LeftOf(list, x, e)
           G == GrantOf(list, x, e)
<1>1. n \in Nat /\ f \in [1..n -> Nat]
  BY AmountsTyped
<1>2. /\ g \in [1..n -> Nat] /\ P \in [0..n -> Nat]
      /\ \A k \in 1..n : P[k] = P[k - 1] + g[k]
      /\ \A k \in 1..n : g[k] = IF list[k].mint = x THEN list[k].amount ELSE 0
  <2>1. g \in [1..n -> Nat] /\ IsPrefixSums(P, n, g)
    BY AmountsBeforeDef
  <2>2. \A k \in 1..n : g[k] = IF list[k].mint = x THEN list[k].amount ELSE 0
    BY AmountsBeforeDef
  <2> HIDE DEF P, g, n
  <2> QED
    BY <2>1, <2>2 DEF IsPrefixSums
<1>3. \A k \in 0..n : L[k] = SatSub(e, P[k])
  <2>1. L = [k \in 0..n |-> SatSub(e, P[k])]
    BY LeftIs
  <2> QED
    BY <2>1
<1>4. Bequeathed(list, S) \in Nat
  BY <1>1, SumOverNat DEF Bequeathed
<1>5. AfterOf(list, x, e) = SatSub(e, Bequeathed(list, S))
  <2>1. SumOver(n, S, f) = SumTo(n, Restricted(n, S, f))
    BY <1>1, SumOverIs
  <2>2. P[n] = SumTo(n, Restricted(n, S, f))
    BY DEF AmountsBefore, MintAmounts, SumTo
  <2>3. n \in 0..n
    BY <1>1
  <2> QED
    BY <1>3, <2>1, <2>2, <2>3 DEF AfterOf, Bequeathed
<1>6. ASSUME NEW j \in 1..n
      PROVE  /\ P[j - 1] \in Nat /\ g[j] \in Nat /\ P[j] = P[j - 1] + g[j]
             /\ G[j] = SatSub(e, P[j - 1]) - SatSub(e, P[j - 1] + g[j])
  <2>1. j - 1 \in 0..n /\ j \in 0..n
    BY <1>1
  <2>2. G[j] = L[j - 1] - L[j]
    BY DEF GrantOf
  <2> HIDE DEF P, g, L, G
  <2> QED
    BY <1>2, <1>3, <2>1, <2>2
<1>7. G \in [1..n -> Nat]
  <2>1. \A p \in Nat, q \in Nat : SatSub(e, p) - SatSub(e, p + q) \in Nat
    BY DEF SatSub
  <2>2. \A j \in 1..n : G[j] \in Nat
    <3> TAKE j \in 1..n
    <3> HIDE DEF P, g, G
    <3> QED
      BY <1>6, <2>1
  <2>3. G = [j \in 1..n |-> L[j - 1] - L[j]]
    BY DEF GrantOf
  <2>4. \A j \in 1..n : G[j] = L[j - 1] - L[j]
    BY <2>3
  <2> HIDE DEF L, G
  <2> QED
    BY <2>2, <2>3, <2>4
<1>8. ASSUME NEW j \in S
      PROVE  /\ Bequeathed(list, LowerIndexSameMint(list, x, j)) \in Nat
             /\ list[j].amount \in Nat
             /\ G[j] = SatSub(e, Bequeathed(list, LowerIndexSameMint(list, x, j)))
                         - SatSub(e, Bequeathed(list, LowerIndexSameMint(list, x, j))
                                       + list[j].amount)
  <2>1. j \in 1..n /\ g[j] = list[j].amount
    BY <1>2 DEF OfMint
  <2>2. P[j - 1] = SumOver(n, {k \in S : k < j}, f)
    <3>1. PrefixSums(n, Restricted(n, S, f))[j - 1] = SumOver(n, {k \in S : k < j}, f)
      <4> HIDE DEF S, f, n
      <4> QED
        BY <1>1, <2>1, PrefixIsSum
    <3> QED
      BY <3>1 DEF AmountsBefore, MintAmounts
  <2>3. P[j - 1] = Bequeathed(list, LowerIndexSameMint(list, x, j))
    BY <2>2 DEF Bequeathed, LowerIndexSameMint
  <2> HIDE DEF P, g, G, S, n
  <2> QED
    BY <1>6, <2>1, <2>3
<1>9. ASSUME NEW j \in (1..n) \ S
      PROVE  G[j] = 0
  <2>1. j \in 1..n /\ g[j] = 0
    BY <1>2 DEF OfMint
  <2>2. \A p \in Nat : SatSub(e, p) - SatSub(e, p + 0) = 0
    BY DEF SatSub
  <2> HIDE DEF P, g, G, S, n
  <2> QED
    BY <1>6, <2>1, <2>2
<1> QED
  BY <1>4, <1>5, <1>7, <1>8, <1>9

-------------------------------------------------------------------------------
(* What the vault should hold and what an heir should have received, after the  *)
(* shares ps and the bequests pb were paid.                                     *)

SharedOut(bs, s, some) ==
  SumOver(Len(bs), {i \in some : bs[i].wallet # VaultKey}, SharesOf(bs, s))

SharedWith(bs, s, w, some) ==
  SumOver(Len(bs), {i \in some : bs[i].wallet = w}, SharesOf(bs, s))

GrantedWith(x, list, bs, e, w, some) ==
  SumOver(Len(list), {j \in some : bs[list[j].beneficiary_index].wallet = w}, GrantOf(list, x, e))

Worth(list, bs, e, s, ps, pb, executed) ==
  (IF executed THEN s ELSE SatSub(e, Bequeathed(list, pb))) - SharedOut(bs, s, ps)

Receives(x, list, bs, e, s, w, ps, pb) ==
  GrantedWith(x, list, bs, e, w, pb) + SharedWith(bs, s, w, ps)

\* Sums over disjoint sets add.
LEMMA SumOverUnion ==
  ASSUME NEW n \in Nat, NEW f \in [1..n -> Nat], NEW S, NEW T, NEW U,
         S \subseteq U, U \ S = T
  PROVE  SumOver(n, U, f) = SumOver(n, S, f) + SumOver(n, T, f)
BY SumOverSplit

\* What leaves the vault never exceeds the snapshot, rounding included.
LEMMA SharedBounded ==
  ASSUME NEW bs \in Seq(Beneficiary), ValidBeneficiaries(bs), NEW s \in Nat,
         NEW some \in SUBSET (1..Len(bs))
  PROVE  /\ SharedOut(bs, s, some) \in Nat /\ SharedOut(bs, s, some) <= s
         /\ \A w : SharedWith(bs, s, w, some) \in Nat
<1> DEFINE n == Len(bs)
           f == SharesOf(bs, s)
           S == {i \in some : bs[i].wallet # VaultKey}
           T == (1..n) \ {}
<1>1. n \in Nat /\ f \in [1..n -> Nat]
  BY SharesTyped
<1>2. OwedShares(bs, s, {}) \in Nat /\ OwedShares(bs, s, {}) <= s
  BY OwedBounded
<1>3. S \subseteq T
  OBVIOUS
<1>4. \A w : SharedWith(bs, s, w, some) \in Nat
  <2> HIDE DEF n, f
  <2> QED
    BY <1>1, SumOverNat DEF SharedWith, n, f
<1> HIDE DEF n, f, S, T
<1>5. SumOver(n, S, f) \in Nat /\ SumOver(n, T, f) \in Nat /\ SumOver(n, S, f) <= SumOver(n, T, f)
  BY <1>1, <1>3, SumOverNat, SumOverSubset
<1>6. OwedShares(bs, s, {}) = SumOver(n, T, f) /\ SharedOut(bs, s, some) = SumOver(n, S, f)
  BY DEF OwedShares, SharedOut, n, f, S, T
<1> QED
  BY <1>2, <1>4, <1>5, <1>6

\* A batch adds its own shares to what went out, and to what each heir received.
BatchAdds(bs, s, ps, fresh) ==
  /\ SharedOut(bs, s, ps \cup fresh) = SharedOut(bs, s, ps) + SharedOut(bs, s, fresh)
  /\ \A w : SharedWith(bs, s, w, ps \cup fresh)
              = SharedWith(bs, s, w, ps) + SharedWith(bs, s, w, fresh)

LEMMA SharedGrows ==
  ASSUME NEW bs \in Seq(Beneficiary), NEW s \in Nat, NEW ps, NEW fresh, fresh \cap ps = {}
  PROVE  BatchAdds(bs, s, ps, fresh)
<1> DEFINE n == Len(bs)
           f == SharesOf(bs, s)
<1>1. n \in Nat /\ f \in [1..n -> Nat]
  BY SharesTyped
<1>2. SharedOut(bs, s, ps \cup fresh) = SharedOut(bs, s, ps) + SharedOut(bs, s, fresh)
  <2> DEFINE S == {i \in ps : bs[i].wallet # VaultKey}
             T == {i \in fresh : bs[i].wallet # VaultKey}
             U == {i \in ps \cup fresh : bs[i].wallet # VaultKey}
  <2>1. S \subseteq U /\ U \ S = T
    OBVIOUS
  <2> HIDE DEF n, f, S, T, U
  <2>2. SumOver(n, U, f) = SumOver(n, S, f) + SumOver(n, T, f)
    BY <1>1, <2>1, SumOverUnion
  <2> QED
    BY <2>2 DEF SharedOut, n, f, S, T, U
<1>3. ASSUME NEW w
      PROVE  SharedWith(bs, s, w, ps \cup fresh)
               = SharedWith(bs, s, w, ps) + SharedWith(bs, s, w, fresh)
  <2> DEFINE S == {i \in ps : bs[i].wallet = w}
             T == {i \in fresh : bs[i].wallet = w}
             U == {i \in ps \cup fresh : bs[i].wallet = w}
  <2>1. S \subseteq U /\ U \ S = T
    OBVIOUS
  <2> HIDE DEF n, f, S, T, U
  <2>2. SumOver(n, U, f) = SumOver(n, S, f) + SumOver(n, T, f)
    BY <1>1, <2>1, SumOverUnion
  <2> QED
    BY <2>2 DEF SharedWith, n, f, S, T, U
<1> QED
  BY <1>2, <1>3 DEF BatchAdds

\* A paid bequest adds its amount to what was bequeathed, and its grant to what
\* its beneficiary was granted.
GrantGrows(x, list, bs, e, pb, j) ==
  /\ Bequeathed(list, pb \cup {j}) = Bequeathed(list, pb) + list[j].amount
  /\ \A w : /\ GrantedWith(x, list, bs, e, w, pb) \in Nat
            /\ GrantedWith(x, list, bs, e, w, pb \cup {j})
                 = GrantedWith(x, list, bs, e, w, pb)
                     + (IF bs[list[j].beneficiary_index].wallet = w
                          THEN GrantOf(list, x, e)[j] ELSE 0)

LEMMA GrantedGrows ==
  ASSUME NEW list \in Seq(AssetAssignment), NEW x, NEW bs, NEW e \in Nat, NEW pb,
         NEW j \in OfMint(list, x), j \notin pb
  PROVE  GrantGrows(x, list, bs, e, pb, j)
<1> DEFINE n == Len(list)
           f == AssignedAmounts(list)
           g == GrantOf(list, x, e)
           J == {j}
<1>1. n \in Nat /\ f \in [1..n -> Nat]
  BY AmountsTyped
<1>2. n \in Nat /\ g \in [1..n -> Nat]
  BY <1>1, GrantsAre
<1>3. j \in 1..n /\ f[j] = list[j].amount
  BY DEF OfMint, AssignedAmounts
<1>4. Bequeathed(list, pb \cup {j}) = Bequeathed(list, pb) + list[j].amount
  <2> DEFINE U == pb \cup {j}
  <2>1. pb \subseteq U /\ U \ pb = J
    OBVIOUS
  <2>2. SumOver(n, J, f) = f[j]
    <3> HIDE DEF n, f
    <3> QED
      BY <1>1, <1>3, SumOverSingle
  <2> HIDE DEF n, f, U, J
  <2>3. SumOver(n, U, f) = SumOver(n, pb, f) + SumOver(n, J, f)
    BY <1>1, <2>1, SumOverUnion
  <2> QED
    BY <1>3, <2>2, <2>3 DEF Bequeathed, n, f, U
<1>5. ASSUME NEW w
      PROVE  /\ GrantedWith(x, list, bs, e, w, pb) \in Nat
             /\ GrantedWith(x, list, bs, e, w, pb \cup {j})
                  = GrantedWith(x, list, bs, e, w, pb)
                      + (IF bs[list[j].beneficiary_index].wallet = w THEN g[j] ELSE 0)
  <2> DEFINE S == {k \in pb : bs[list[k].beneficiary_index].wallet = w}
             U == {k \in pb \cup {j} : bs[list[k].beneficiary_index].wallet = w}
             hit == bs[list[j].beneficiary_index].wallet = w
             before == GrantedWith(x, list, bs, e, w, pb)
             after == GrantedWith(x, list, bs, e, w, pb \cup {j})
  <2>1. before = SumOver(n, S, g) /\ after = SumOver(n, U, g)
    BY DEF GrantedWith
  <2>2. SumOver(n, S, g) \in Nat
    <3> HIDE DEF n, g, S
    <3> QED
      BY <1>2, SumOverNat
  <2>3. CASE hit
    <3>1. S \subseteq U /\ U \ S = J
      BY <2>3
    <3>2. SumOver(n, J, g) = g[j]
      <4> HIDE DEF n, g
      <4> QED
        BY <1>2, <1>3, SumOverSingle
    <3> HIDE DEF n, g, S, U, J, hit, before, after
    <3>3. SumOver(n, U, g) = SumOver(n, S, g) + SumOver(n, J, g)
      BY <1>2, <3>1, SumOverUnion
    <3>4. before \in Nat /\ after = before + g[j]
      BY <2>1, <2>2, <3>2, <3>3
    <3> QED
      BY <2>3, <3>4 DEF before, after, hit
  <2>4. CASE ~hit
    <3>1. U = S
      BY <2>4
    <3> HIDE DEF n, g, S, U, hit, before, after
    <3>2. before \in Nat /\ after = before + 0
      BY <2>1, <2>2, <3>1
    <3> QED
      BY <2>4, <3>2 DEF before, after, hit
  <2> QED
    BY <2>3, <2>4
<1> QED
  BY <1>4, <1>5 DEF GrantGrows

-------------------------------------------------------------------------------
(* BooksBalance as a function of the accounts' data, and what each kind of step *)
(* does to it.                                                                  *)

HeirsOf(bs) ==
  {bs[i].wallet : i \in 1..Len(bs)} \ ({Owner, FeeWallet, VaultKey} \cup Payers \cup Depositors)

Tally(x, list, bs, e, s, held0, late, ps, pb, executed, est, held) ==
  /\ \A j \in pb : LowerIndexSameMint(list, x, j) \subseteq pb
  /\ Agrees(late, est, Worth(list, bs, e, s, ps, pb, executed))
  /\ \A w \in HeirsOf(bs) :
         Agrees(late, held[w] - held0[w], Receives(x, list, bs, e, s, w, ps, pb))

\* The heirs are accounts of which the ledgers keep a balance.
LEMMA HeirsHaveAccounts ==
  ASSUME NEW bs \in Seq(Beneficiary)
  PROVE  HeirsOf(bs) \subseteq Accounts
<1>1. \A i \in 1..Len(bs) : bs[i] \in Beneficiary
  BY ElementOfSeq
<1> QED
  BY <1>1 DEF HeirsOf, Beneficiary, Accounts

\* The sums of a tally are natural numbers, and the shares that went out are
\* covered by what the bequests and the bounty leave.
TallyTyped(x, list, bs, e, r, s, ps, pb) ==
  LET spec == Bequeathed(list, OfMint(list, x))
      out == SharedOut(bs, s, ps) IN
  /\ spec \in Nat /\ s \in Nat /\ s = SatSub(SatSub(e, spec), r)
  /\ out \in Nat /\ out <= s
  /\ Bequeathed(list, pb) \in Nat
  /\ \A w : Receives(x, list, bs, e, s, w, ps, pb) \in Nat

LEMMA TallyNat ==
  ASSUME NEW list \in Seq(AssetAssignment), NEW x, NEW bs \in Seq(Beneficiary),
         ValidBeneficiaries(bs), NEW e \in Nat, NEW r \in Nat, NEW s,
         s = SatSub(AfterOf(list, x, e), r),
         NEW ps \in SUBSET (1..Len(bs)), NEW pb
  PROVE  TallyTyped(x, list, bs, e, r, s, ps, pb)
<1> DEFINE n == Len(list)
           f == AssignedAmounts(list)
           g == GrantOf(list, x, e)
           spec == Bequeathed(list, OfMint(list, x))
<1>1. spec \in Nat /\ AfterOf(list, x, e) = SatSub(e, spec) /\ g \in [1..n -> Nat]
  BY GrantsAre
<1>2. n \in Nat /\ f \in [1..n -> Nat]
  BY AmountsTyped
<1>3. Bequeathed(list, pb) \in Nat
  BY <1>2, SumOverNat DEF Bequeathed
<1>4. s \in Nat /\ s = SatSub(SatSub(e, spec), r)
  BY <1>1, SatSubNat
<1>5. /\ SharedOut(bs, s, ps) \in Nat /\ SharedOut(bs, s, ps) <= s
      /\ \A w : SharedWith(bs, s, w, ps) \in Nat
  BY <1>4, SharedBounded
<1>6. \A w : GrantedWith(x, list, bs, e, w, pb) \in Nat
  <2> HIDE DEF n, g
  <2> QED
    BY <1>1, <1>2, SumOverNat DEF GrantedWith, n, g
<1>7. \A w : Receives(x, list, bs, e, s, w, ps, pb) \in Nat
  BY <1>5, <1>6 DEF Receives
<1> HIDE DEF spec
<1> QED
  BY <1>1, <1>3, <1>4, <1>5, <1>7 DEF spec, TallyTyped

\* Nothing is paid when the books open.
LEMMA TallyOpens ==
  ASSUME NEW list \in Seq(AssetAssignment), NEW x, NEW bs \in Seq(Beneficiary),
         NEW e \in Nat, NEW s \in Nat, NEW held \in [Accounts -> Nat]
  PROVE  Tally(x, list, bs, e, s, held, FALSE, {}, {}, FALSE, e, held)
<1> DEFINE n == Len(list)
           f == AssignedAmounts(list)
           g == GrantOf(list, x, e)
           m == Len(bs)
           h == SharesOf(bs, s)
<1>1. n \in Nat /\ f \in [1..n -> Nat]
  BY AmountsTyped
<1>2. g \in [1..n -> Nat]
  BY GrantsAre
<1>3. m \in Nat /\ h \in [1..m -> Nat]
  BY SharesTyped
<1>4. Bequeathed(list, {}) = 0
  <2> HIDE DEF n, f
  <2>1. SumOver(n, {}, f) = 0
    BY <1>1, SumOverNone
  <2> QED
    BY <2>1 DEF Bequeathed, n, f
<1>5. SharedOut(bs, s, {}) = 0 /\ \A w : SharedWith(bs, s, w, {}) = 0
  <2>1. /\ {i \in {} : bs[i].wallet # VaultKey} = {}
        /\ \A w : {i \in {} : bs[i].wallet = w} = {}
    OBVIOUS
  <2> HIDE DEF m, h
  <2>2. SumOver(m, {}, h) = 0
    BY <1>3, SumOverNone
  <2> QED
    BY <2>1, <2>2 DEF SharedOut, SharedWith, m, h
<1>6. \A w : GrantedWith(x, list, bs, e, w, {}) = 0
  <2>1. \A w : {j \in {} : bs[list[j].beneficiary_index].wallet = w} = {}
    OBVIOUS
  <2> HIDE DEF n, g
  <2>2. SumOver(n, {}, g) = 0
    BY <1>1, <1>2, SumOverNone
  <2> QED
    BY <2>1, <2>2 DEF GrantedWith, n, g
<1>7. SatSub(e, 0) - 0 = e
  BY DEF SatSub
<1>8. Agrees(FALSE, e, Worth(list, bs, e, s, {}, {}, FALSE))
  BY <1>4, <1>5, <1>7 DEF Agrees, Worth
<1>9. ASSUME NEW w \in HeirsOf(bs)
      PROVE  Agrees(FALSE, held[w] - held[w], Receives(x, list, bs, e, s, w, {}, {}))
  <2>1. held[w] \in Nat
    BY HeirsHaveAccounts
  <2>2. held[w] - held[w] = 0 /\ Receives(x, list, bs, e, s, w, {}, {}) = 0
    BY <1>5, <1>6, <2>1 DEF Receives
  <2> QED
    BY <2>2 DEF Agrees
<1> QED
  BY <1>8, <1>9 DEF Tally

\* Transfers into the vault are late arrivals, and leave the heirs alone.
LEMMA TallyWaits ==
  ASSUME NEW list, NEW x, NEW bs \in Seq(Beneficiary), NEW e, NEW s, NEW held0,
         NEW late \in BOOLEAN, NEW ps, NEW pb, NEW executed, NEW est \in Nat, NEW held,
         Tally(x, list, bs, e, s, held0, late, ps, pb, executed, est, held),
         Worth(list, bs, e, s, ps, pb, executed) \in Int,
         NEW more \in Nat, more >= est, NEW held2,
         \A w \in HeirsOf(bs) : held2[w] = held[w]
  PROVE  Tally(x, list, bs, e, s, held0, late \/ more > est, ps, pb, executed, more, held2)
<1> DEFINE v == Worth(list, bs, e, s, ps, pb, executed)
<1>1. Agrees(late, est, v) /\ v \in Int
  BY DEF Tally
<1> HIDE DEF v
<1>2. more >= v /\ (~late /\ ~(more > est) => more = v)
  BY <1>1 DEF Agrees
<1>3. Agrees(late \/ more > est, more, v)
  BY <1>2 DEF Agrees
<1>4. \A w \in HeirsOf(bs) :
         Agrees(late \/ more > est, held2[w] - held0[w], Receives(x, list, bs, e, s, w, ps, pb))
  BY DEF Tally, Agrees
<1> QED
  BY <1>3, <1>4 DEF Tally, v

\* A bequest is paid out of what the estate still grants it: the estate less the
\* bequests before it, or all of it together with every share that is out.
BequestTakes(e, before, amount, out, est, paid) ==
  LET worth == SatSub(e, before) - out
      less == SatSub(e, before + amount) - out
      grant == SatSub(e, before) - SatSub(e, before + amount) IN
  /\ est >= worth => est - paid >= less /\ paid >= grant
  /\ est = worth => est - paid = less /\ paid = grant

LEMMA BequestPays ==
  ASSUME NEW e \in Nat, NEW before \in Nat, NEW amount \in Nat, NEW spec \in Nat, NEW r \in Nat,
         NEW out \in Nat, NEW est \in Nat, before + amount <= spec,
         out <= SatSub(SatSub(e, spec), r)
  PROVE  BequestTakes(e, before, amount, out, est, Lesser(amount, est))
BY DEF BequestTakes, SatSub, Lesser

\* Bequests of one mint are paid in plan order, so the paid ones are exactly the
\* ones below the next.
LEMMA PaidBelow ==
  ASSUME NEW list \in Seq(AssetAssignment), NEW x, NEW pb \in SUBSET OfMint(list, x),
         \A k \in pb : LowerIndexSameMint(list, x, k) \subseteq pb,
         NEW j \in OfMint(list, x), j \notin pb, LowerIndexSameMint(list, x, j) \subseteq pb
  PROVE  /\ pb = LowerIndexSameMint(list, x, j)
         /\ \A k \in pb \cup {j} : LowerIndexSameMint(list, x, k) \subseteq pb \cup {j}
<1>1. OfMint(list, x) \subseteq Int
  BY DEF OfMint
<1>2. ASSUME NEW k \in pb PROVE k < j
  <2>1. k \in Int /\ j \in Int /\ k # j
    BY <1>1
  <2>2. ~(j < k)
    <3>1. SUFFICES ASSUME j < k PROVE FALSE
      OBVIOUS
    <3>2. j \in LowerIndexSameMint(list, x, k)
      BY <3>1 DEF LowerIndexSameMint
    <3> QED
      BY <3>2
  <2> QED
    BY <2>1, <2>2
<1>3. pb \subseteq LowerIndexSameMint(list, x, j)
  BY <1>2 DEF LowerIndexSameMint
<1> QED
  BY <1>3

\* The sums of a tally before and after a bequest is paid.
BequestMoves(x, list, bs, e, r, s, ps, pb, j, after) ==
  LET before == Bequeathed(list, pb)
      amount == list[j].amount
      spec == Bequeathed(list, OfMint(list, x))
      out == SharedOut(bs, s, ps)
      grant == GrantOf(list, x, e)[j] IN
  /\ before \in Nat /\ amount \in Nat /\ spec \in Nat /\ out \in Nat
  /\ before + amount <= spec /\ out <= SatSub(SatSub(e, spec), r)
  /\ grant \in Int /\ grant = SatSub(e, before) - SatSub(e, before + amount)
  /\ Worth(list, bs, e, s, ps, pb, FALSE) = SatSub(e, before) - out
  /\ Worth(list, bs, e, s, ps, after, FALSE) = SatSub(e, before + amount) - out
  /\ \A w : /\ Receives(x, list, bs, e, s, w, ps, pb) \in Nat
            /\ Receives(x, list, bs, e, s, w, ps, after)
                 = Receives(x, list, bs, e, s, w, ps, pb)
                     + (IF bs[list[j].beneficiary_index].wallet = w THEN grant ELSE 0)

LEMMA BequestSums ==
  ASSUME NEW list \in Seq(AssetAssignment), NEW x, NEW bs \in Seq(Beneficiary),
         ValidBeneficiaries(bs), NEW e \in Nat, NEW r \in Nat, NEW s,
         s = SatSub(AfterOf(list, x, e), r),
         NEW ps \in SUBSET (1..Len(bs)), NEW pb \in SUBSET OfMint(list, x),
         NEW j \in OfMint(list, x), j \notin pb, pb = LowerIndexSameMint(list, x, j)
  PROVE  BequestMoves(x, list, bs, e, r, s, ps, pb, j, pb \cup {j})
<1> DEFINE before == Bequeathed(list, pb)
           amount == list[j].amount
           spec == Bequeathed(list, OfMint(list, x))
           out == SharedOut(bs, s, ps)
           grant == GrantOf(list, x, e)[j]
           after == pb \cup {j}
           to(w) == bs[list[j].beneficiary_index].wallet = w
<1>0. TallyTyped(x, list, bs, e, r, s, ps, pb)
  BY TallyNat
<1>1. /\ spec \in Nat /\ s = SatSub(SatSub(e, spec), r) /\ s \in Nat
      /\ out \in Nat /\ out <= s /\ before \in Nat
  BY <1>0 DEF TallyTyped
<1>2. \A w : Receives(x, list, bs, e, s, w, ps, pb) \in Nat
  BY <1>0 DEF TallyTyped
<1>3. amount \in Nat /\ grant = SatSub(e, before) - SatSub(e, before + amount)
  <2>1. LET first == Bequeathed(list, LowerIndexSameMint(list, x, j)) IN
        /\ first \in Nat /\ list[j].amount \in Nat
        /\ GrantOf(list, x, e)[j] = SatSub(e, first) - SatSub(e, first + list[j].amount)
    BY GrantsAre
  <2> QED
    BY <2>1
<1>4. /\ Bequeathed(list, after) = before + amount
      /\ \A w : /\ GrantedWith(x, list, bs, e, w, pb) \in Nat
                /\ GrantedWith(x, list, bs, e, w, after)
                     = GrantedWith(x, list, bs, e, w, pb) + (IF to(w) THEN grant ELSE 0)
  <2>1. GrantGrows(x, list, bs, e, pb, j)
    BY GrantedGrows
  <2> QED
    BY <2>1 DEF GrantGrows
<1>5. before + amount <= spec
  <2> DEFINE n == Len(list)
             f == AssignedAmounts(list)
             T == OfMint(list, x)
  <2>1. n \in Nat /\ f \in [1..n -> Nat]
    BY AmountsTyped
  <2>2. after \subseteq T
    OBVIOUS
  <2> HIDE DEF n, f, T
  <2>3. SumOver(n, after, f) <= SumOver(n, T, f)
    BY <2>1, <2>2, SumOverSubset
  <2> QED
    BY <1>4, <2>3 DEF Bequeathed, n, f, T
<1>6. /\ Worth(list, bs, e, s, ps, pb, FALSE) = SatSub(e, before) - out
      /\ Worth(list, bs, e, s, ps, after, FALSE) = SatSub(e, before + amount) - out
  BY <1>4 DEF Worth
<1>7. grant \in Int
  <2>1. SatSub(e, before) \in Nat /\ SatSub(e, before + amount) \in Nat
    <3> HIDE DEF before, amount
    <3> QED
      BY <1>1, <1>3 DEF SatSub
  <2> HIDE DEF before, amount
  <2> QED
    BY <1>3, <2>1
<1>8. ASSUME NEW w
      PROVE  Receives(x, list, bs, e, s, w, ps, after)
               = Receives(x, list, bs, e, s, w, ps, pb) + (IF to(w) THEN grant ELSE 0)
  <2> DEFINE had == GrantedWith(x, list, bs, e, w, pb)
             has == GrantedWith(x, list, bs, e, w, after)
             shared == SharedWith(bs, s, w, ps)
  <2>1. had \in Nat /\ has = had + (IF to(w) THEN grant ELSE 0)
    BY <1>4
  <2>2. shared \in Nat
    BY <1>1, SharedBounded
  <2>3. /\ Receives(x, list, bs, e, s, w, ps, after) = has + shared
        /\ Receives(x, list, bs, e, s, w, ps, pb) = had + shared
    BY DEF Receives
  <2> HIDE DEF had, has, shared, to
  <2> QED
    BY <1>7, <2>1, <2>2, <2>3
<1> HIDE DEF before, amount, spec, out, grant, after, to
<1> QED
  BY <1>1, <1>2, <1>3, <1>5, <1>6, <1>7, <1>8
     DEF BequestMoves, before, amount, spec, out, grant, after, to

\* A payment moves what an heir has and what it should have by the same.
LEMMA AgreesAfter ==
  ASSUME NEW late \in BOOLEAN, NEW d \in Int, NEW had \in Int, NEW paid \in Int, NEW grant \in Int,
         Agrees(late, d, had), Agrees(late, paid, grant)
  PROVE  Agrees(late, d + paid, had + grant)
BY DEF Agrees

\* What the payment of bequest j finds, and what it does to the balances.
BequestCase(list, x, bs, e, r, s, ps, pb, late, est, held0, held, j, paid, held2) ==
  /\ list \in Seq(AssetAssignment) /\ bs \in Seq(Beneficiary) /\ ValidBeneficiaries(bs)
  /\ e \in Nat /\ r \in Nat /\ s = SatSub(AfterOf(list, x, e), r)
  /\ ps \in SUBSET (1..Len(bs)) /\ pb \in SUBSET OfMint(list, x)
  /\ late \in BOOLEAN /\ est \in Nat
  /\ held0 \in [Accounts -> Nat] /\ held \in [Accounts -> Nat]
  /\ j \in OfMint(list, x) /\ j \notin pb /\ LowerIndexSameMint(list, x, j) \subseteq pb
  /\ paid = Lesser(list[j].amount, est)
  /\ Tally(x, list, bs, e, s, held0, late, ps, pb, FALSE, est, held)
  /\ \A w \in HeirsOf(bs) :
         held2[w] = held[w] + (IF bs[list[j].beneficiary_index].wallet = w THEN paid ELSE 0)

LEMMA TallyBequest ==
  ASSUME NEW list, NEW x, NEW bs, NEW e, NEW r, NEW s, NEW ps, NEW pb, NEW late, NEW est,
         NEW held0, NEW held, NEW j, NEW paid, NEW held2,
         BequestCase(list, x, bs, e, r, s, ps, pb, late, est, held0, held, j, paid, held2)
  PROVE  Tally(x, list, bs, e, s, held0, late, ps, pb \cup {j}, FALSE, est - paid, held2)
<1> SUFFICES
  ASSUME list \in Seq(AssetAssignment), bs \in Seq(Beneficiary), ValidBeneficiaries(bs),
         e \in Nat, r \in Nat, s = SatSub(AfterOf(list, x, e), r),
         ps \in SUBSET (1..Len(bs)), pb \in SUBSET OfMint(list, x),
         late \in BOOLEAN, est \in Nat,
         held0 \in [Accounts -> Nat], held \in [Accounts -> Nat],
         j \in OfMint(list, x), j \notin pb, LowerIndexSameMint(list, x, j) \subseteq pb,
         paid = Lesser(list[j].amount, est),
         Tally(x, list, bs, e, s, held0, late, ps, pb, FALSE, est, held),
         \A w \in HeirsOf(bs) :
             held2[w] = held[w] + (IF bs[list[j].beneficiary_index].wallet = w THEN paid ELSE 0)
  PROVE  Tally(x, list, bs, e, s, held0, late, ps, pb \cup {j}, FALSE, est - paid, held2)
  BY DEF BequestCase
<1> DEFINE before == Bequeathed(list, pb)
           amount == list[j].amount
           spec == Bequeathed(list, OfMint(list, x))
           out == SharedOut(bs, s, ps)
           grant == GrantOf(list, x, e)[j]
           after == pb \cup {j}
           to(w) == bs[list[j].beneficiary_index].wallet = w
           had(w) == Receives(x, list, bs, e, s, w, ps, pb)
           has(w) == Receives(x, list, bs, e, s, w, ps, after)
<1>1. /\ pb = LowerIndexSameMint(list, x, j)
      /\ \A k \in after : LowerIndexSameMint(list, x, k) \subseteq after
  <2>1. \A k \in pb : LowerIndexSameMint(list, x, k) \subseteq pb
    BY DEF Tally
  <2> HIDE DEF after
  <2>2. /\ pb = LowerIndexSameMint(list, x, j)
        /\ \A k \in pb \cup {j} : LowerIndexSameMint(list, x, k) \subseteq pb \cup {j}
    BY <2>1, PaidBelow
  <2> QED
    BY <2>2 DEF after
<1>2. /\ before \in Nat /\ amount \in Nat /\ spec \in Nat /\ out \in Nat
      /\ before + amount <= spec /\ out <= SatSub(SatSub(e, spec), r)
      /\ grant \in Int /\ grant = SatSub(e, before) - SatSub(e, before + amount)
      /\ Worth(list, bs, e, s, ps, pb, FALSE) = SatSub(e, before) - out
      /\ Worth(list, bs, e, s, ps, after, FALSE) = SatSub(e, before + amount) - out
      /\ \A w : had(w) \in Nat /\ has(w) = had(w) + (IF to(w) THEN grant ELSE 0)
  <2>1. BequestMoves(x, list, bs, e, r, s, ps, pb, j, pb \cup {j})
    BY <1>1, BequestSums
  <2> QED
    BY <2>1 DEF BequestMoves
<1> HIDE DEF before, amount, spec, out, grant, after, to, had, has
<1>3. /\ est >= SatSub(e, before) - out =>
           est - paid >= SatSub(e, before + amount) - out /\ paid >= grant
      /\ est = SatSub(e, before) - out =>
           est - paid = SatSub(e, before + amount) - out /\ paid = grant
  <2>1. paid = Lesser(amount, est)
    BY DEF amount
  <2>2. BequestTakes(e, before, amount, out, est, Lesser(amount, est))
    BY <1>2, BequestPays
  <2> QED
    BY <1>2, <2>1, <2>2 DEF BequestTakes
<1>4. Agrees(late, est, SatSub(e, before) - out)
  BY <1>2 DEF Tally
<1>5. Agrees(late, est - paid, SatSub(e, before + amount) - out) /\ Agrees(late, paid, grant)
  BY <1>3, <1>4 DEF Agrees
<1>6. paid \in Nat
  BY <1>2, SatSubNat DEF amount
<1>7. ASSUME NEW w \in HeirsOf(bs)
      PROVE  Agrees(late, held2[w] - held0[w], has(w))
  <2>1. held[w] \in Nat /\ held0[w] \in Nat /\ had(w) \in Nat
    BY <1>2, HeirsHaveAccounts
  <2>2. Agrees(late, held[w] - held0[w], had(w))
    BY DEF Tally, had
  <2> DEFINE d == held[w] - held0[w]
  <2>3. d \in Int /\ Agrees(late, d, had(w))
    BY <2>1, <2>2
  <2>4. CASE to(w)
    <3>1. held2[w] = held[w] + paid /\ has(w) = had(w) + grant
      BY <1>2, <2>4 DEF to
    <3>2. held2[w] - held0[w] = d + paid
      BY <1>6, <2>1, <3>1
    <3> HIDE DEF d
    <3>3. Agrees(late, d + paid, had(w) + grant)
      BY <1>2, <1>5, <1>6, <2>1, <2>3, AgreesAfter
    <3> QED
      BY <3>1, <3>2, <3>3
  <2>5. CASE ~to(w)
    <3>1. held2[w] = held[w] + 0 /\ has(w) = had(w) + 0
      BY <1>2, <2>5 DEF to
    <3>2. held2[w] = held[w] /\ has(w) = had(w)
      BY <2>1, <3>1
    <3> QED
      BY <2>2, <3>2
  <2> QED
    BY <2>4, <2>5
<1> QED
  BY <1>1, <1>2, <1>5, <1>7 DEF Tally, has, after

\* What the vault should hold is an integer.
LEMMA WorthInt ==
  ASSUME NEW list \in Seq(AssetAssignment), NEW bs \in Seq(Beneficiary),
         ValidBeneficiaries(bs), NEW e \in Nat, NEW s \in Nat,
         NEW ps \in SUBSET (1..Len(bs)), NEW pb, NEW executed \in BOOLEAN
  PROVE  Worth(list, bs, e, s, ps, pb, executed) \in Int
<1>1. SharedOut(bs, s, ps) \in Nat
  BY SharedBounded
<1>2. Bequeathed(list, pb) \in Nat
  BY AmountsTyped, SumOverNat DEF Bequeathed
<1>3. SatSub(e, Bequeathed(list, pb)) \in Nat
  BY <1>2, SatSubNat
<1> QED
  BY <1>1, <1>3 DEF Worth

\* What a batch of shares finds, and what it does to the balances.
ShareCase(list, x, bs, e, r, s, ps, pb, executed, late, est, held0, held, fresh, held2) ==
  /\ list \in Seq(AssetAssignment) /\ bs \in Seq(Beneficiary) /\ ValidBeneficiaries(bs)
  /\ e \in Nat /\ r \in Nat /\ s = SatSub(AfterOf(list, x, e), r) /\ ps \in SUBSET (1..Len(bs))
  /\ executed \in BOOLEAN /\ late \in BOOLEAN /\ est \in Nat /\ held0 \in [Accounts -> Nat]
  /\ held \in [Accounts -> Nat] /\ fresh \in SUBSET (1..Len(bs)) /\ fresh \cap ps = {}
  /\ Tally(x, list, bs, e, s, held0, late, ps, pb, executed, est, held)
  /\ \A w \in HeirsOf(bs) : held2[w] = held[w] + SharedWith(bs, s, w, fresh)

\* execute_sol_shares and execute_token_shares.
LEMMA TallyShares ==
  ASSUME NEW list, NEW x, NEW bs, NEW e, NEW r, NEW s, NEW ps, NEW pb, NEW executed,
         NEW late, NEW est, NEW held0, NEW held, NEW fresh, NEW held2,
         ShareCase(list, x, bs, e, r, s, ps, pb, executed, late, est, held0, held, fresh, held2)
  PROVE  Tally(x, list, bs, e, s, held0, late, ps \cup fresh, pb, executed,
               est - SharedOut(bs, s, fresh), held2)
<1> SUFFICES
  ASSUME list \in Seq(AssetAssignment), bs \in Seq(Beneficiary), ValidBeneficiaries(bs),
         e \in Nat, r \in Nat, s = SatSub(AfterOf(list, x, e), r),
         ps \in SUBSET (1..Len(bs)), executed \in BOOLEAN, late \in BOOLEAN, est \in Nat,
         held0 \in [Accounts -> Nat], held \in [Accounts -> Nat],
         fresh \in SUBSET (1..Len(bs)), fresh \cap ps = {},
         Tally(x, list, bs, e, s, held0, late, ps, pb, executed, est, held),
         \A w \in HeirsOf(bs) : held2[w] = held[w] + SharedWith(bs, s, w, fresh)
  PROVE  Tally(x, list, bs, e, s, held0, late, ps \cup fresh, pb, executed,
               est - SharedOut(bs, s, fresh), held2)
  BY DEF ShareCase
<1> DEFINE out == SharedOut(bs, s, fresh)
           worth == Worth(list, bs, e, s, ps, pb, executed)
           less == Worth(list, bs, e, s, ps \cup fresh, pb, executed)
           base == IF executed THEN s ELSE SatSub(e, Bequeathed(list, pb))
<1>0. TallyTyped(x, list, bs, e, r, s, ps, pb)
  BY TallyNat
<1>1. s \in Nat
  BY <1>0 DEF TallyTyped
<1>2. out \in Nat /\ \A w : SharedWith(bs, s, w, fresh) \in Nat
  BY <1>1, SharedBounded
<1>3. SharedOut(bs, s, ps) \in Nat /\ \A w : SharedWith(bs, s, w, ps) \in Nat
  BY <1>1, SharedBounded
<1>4. /\ SharedOut(bs, s, ps \cup fresh) = SharedOut(bs, s, ps) + out
      /\ \A w : SharedWith(bs, s, w, ps \cup fresh)
                  = SharedWith(bs, s, w, ps) + SharedWith(bs, s, w, fresh)
  <2>1. BatchAdds(bs, s, ps, fresh)
    BY <1>1, SharedGrows
  <2> QED
    BY <2>1 DEF BatchAdds
<1>5. worth \in Int
  <2> HIDE DEF worth
  <2> QED
    BY <1>1, WorthInt DEF worth
<1>6. less = worth - out
  <2>1. worth = base - SharedOut(bs, s, ps) /\ less = base - SharedOut(bs, s, ps \cup fresh)
    BY DEF Worth
  <2>2. base \in Int
    <3>1. Bequeathed(list, pb) \in Nat
      BY AmountsTyped, SumOverNat DEF Bequeathed
    <3>2. SatSub(e, Bequeathed(list, pb)) \in Nat
      BY <3>1, SatSubNat
    <3> QED
      BY <1>1, <3>2
  <2> HIDE DEF out, worth, less, base
  <2> QED
    BY <1>2, <1>3, <1>4, <2>1, <2>2
<1>7. Agrees(late, est - out, less)
  <2>1. Agrees(late, est, worth)
    BY DEF Tally
  <2> HIDE DEF out, worth, less
  <2> QED
    BY <1>2, <1>5, <1>6, <2>1 DEF Agrees
<1>8. ASSUME NEW w \in HeirsOf(bs)
      PROVE  Agrees(late, held2[w] - held0[w],
                    Receives(x, list, bs, e, s, w, ps \cup fresh, pb))
  <2> DEFINE d == held[w] - held0[w]
             paid == SharedWith(bs, s, w, fresh)
             had == Receives(x, list, bs, e, s, w, ps, pb)
             has == Receives(x, list, bs, e, s, w, ps \cup fresh, pb)
  <2>1. held[w] \in Nat /\ held0[w] \in Nat
    BY HeirsHaveAccounts
  <2>2. had \in Nat /\ paid \in Nat
    BY <1>0, <1>2 DEF TallyTyped
  <2>3. has = had + paid
    <3> DEFINE granted == GrantedWith(x, list, bs, e, w, pb)
               shared == SharedWith(bs, s, w, ps)
    <3>1. granted \in Nat
      <4> DEFINE n == Len(list)
                 g == GrantOf(list, x, e)
      <4>1. n \in Nat /\ g \in [1..n -> Nat]
        BY AmountsTyped, GrantsAre
      <4> HIDE DEF n, g
      <4> QED
        BY <4>1, SumOverNat DEF GrantedWith, n, g
    <3>2. had = granted + shared /\ has = granted + SharedWith(bs, s, w, ps \cup fresh)
      BY DEF Receives
    <3>3. shared \in Nat /\ SharedWith(bs, s, w, ps \cup fresh) = shared + paid
      BY <1>3, <1>4
    <3> HIDE DEF granted, shared, had, has, paid
    <3> QED
      BY <2>2, <3>1, <3>2, <3>3
  <2>4. Agrees(late, d, had)
    BY DEF Tally
  <2>5. held2[w] - held0[w] = d + paid
    <3>1. held2[w] = held[w] + paid
      OBVIOUS
    <3> HIDE DEF paid
    <3> QED
      BY <2>1, <2>2, <3>1
  <2>6. d \in Int /\ Agrees(late, paid, paid)
    <3> HIDE DEF paid
    <3> QED
      BY <2>1, <2>2 DEF Agrees
  <2> HIDE DEF d, had, has, paid
  <2>7. Agrees(late, d + paid, had + paid)
    BY <2>2, <2>4, <2>6, AgreesAfter
  <2> QED
    BY <2>3, <2>5, <2>7 DEF has
<1> QED
  BY <1>7, <1>8 DEF Tally, out, less

\* What the payment of the bounty finds, and what it does to the balances.
BountyCase(list, x, bs, e, r, s, ps, pb, late, est, held0, held, held2) ==
  /\ list \in Seq(AssetAssignment) /\ bs \in Seq(Beneficiary) /\ ValidBeneficiaries(bs)
  /\ e \in Nat /\ r \in Nat /\ s = SatSub(AfterOf(list, x, e), r) /\ ps \in SUBSET (1..Len(bs))
  /\ pb = OfMint(list, x) /\ late \in BOOLEAN /\ est \in Nat
  /\ Tally(x, list, bs, e, s, held0, late, ps, pb, FALSE, est, held)
  /\ \A w \in HeirsOf(bs) : held2[w] = held[w]

\* finalize_execution: what is left of the bounty is out of the residual at once,
\* since no share is cut from an estate that does not cover it.
LEMMA BountyPays ==
  ASSUME NEW e \in Nat, NEW spec \in Nat, NEW r \in Nat, NEW out \in Nat, NEW est \in Nat,
         NEW s, s = SatSub(SatSub(e, spec), r), out <= s
  PROVE  /\ est >= SatSub(e, spec) - out => est - Lesser(r, est) >= s - out
         /\ est = SatSub(e, spec) - out => est - Lesser(r, est) = s - out
BY DEF SatSub, Lesser

LEMMA TallyBounty ==
  ASSUME NEW list, NEW x, NEW bs, NEW e, NEW r, NEW s, NEW ps, NEW pb, NEW late, NEW est,
         NEW held0, NEW held, NEW held2,
         BountyCase(list, x, bs, e, r, s, ps, pb, late, est, held0, held, held2)
  PROVE  Tally(x, list, bs, e, s, held0, late, ps, pb, TRUE, est - Lesser(r, est), held2)
<1> SUFFICES
  ASSUME list \in Seq(AssetAssignment), bs \in Seq(Beneficiary), ValidBeneficiaries(bs),
         e \in Nat, r \in Nat, s = SatSub(AfterOf(list, x, e), r),
         ps \in SUBSET (1..Len(bs)), pb = OfMint(list, x), late \in BOOLEAN, est \in Nat,
         Tally(x, list, bs, e, s, held0, late, ps, pb, FALSE, est, held),
         \A w \in HeirsOf(bs) : held2[w] = held[w]
  PROVE  Tally(x, list, bs, e, s, held0, late, ps, pb, TRUE, est - Lesser(r, est), held2)
  BY DEF BountyCase
<1> DEFINE spec == Bequeathed(list, OfMint(list, x))
           out == SharedOut(bs, s, ps)
<1>1. /\ spec \in Nat /\ s = SatSub(SatSub(e, spec), r)
      /\ out \in Nat /\ out <= s
  <2>1. TallyTyped(x, list, bs, e, r, s, ps, pb)
    BY TallyNat
  <2> QED
    BY <2>1 DEF TallyTyped
<1>2. /\ Worth(list, bs, e, s, ps, pb, FALSE) = SatSub(e, spec) - out
      /\ Worth(list, bs, e, s, ps, pb, TRUE) = s - out
  BY DEF Worth
<1> HIDE DEF spec, out
<1>3. /\ est >= SatSub(e, spec) - out => est - Lesser(r, est) >= s - out
      /\ est = SatSub(e, spec) - out => est - Lesser(r, est) = s - out
  BY <1>1, BountyPays
<1>4. Agrees(late, est, SatSub(e, spec) - out)
  BY <1>2 DEF Tally
<1>5. Agrees(late, est - Lesser(r, est), s - out)
  BY <1>3, <1>4 DEF Agrees
<1>6. \A w \in HeirsOf(bs) :
         Agrees(late, held2[w] - held0[w], Receives(x, list, bs, e, s, w, ps, pb))
  BY DEF Tally, Receives
<1> QED
  BY <1>2, <1>5, <1>6 DEF Tally

\* Bequests of other mints are granted nothing.
LEMMA GrantedByMint ==
  ASSUME NEW list \in Seq(AssetAssignment), NEW x, NEW bs, NEW e \in Nat, NEW w
  PROVE  GrantedWith(x, list, bs, e, w, 1..Len(list))
           = GrantedWith(x, list, bs, e, w, OfMint(list, x))
<1> DEFINE n == Len(list)
           g == GrantOf(list, x, e)
           to(j) == bs[list[j].beneficiary_index].wallet = w
           S == {j \in 1..n : to(j)}
           T == {j \in OfMint(list, x) : to(j)}
<1>1. n \in Nat /\ g \in [1..n -> Nat] /\ \A j \in (1..n) \ OfMint(list, x) : g[j] = 0
  BY AmountsTyped, GrantsAre
<1>2. \A j \in 1..n : (j \in S <=> j \in T) \/ g[j] = 0
  BY <1>1
<1>3. GrantedWith(x, list, bs, e, w, 1..n) = SumOver(n, S, g)
  BY DEF GrantedWith
<1>4. GrantedWith(x, list, bs, e, w, OfMint(list, x)) = SumOver(n, T, g)
  BY DEF GrantedWith
<1> HIDE DEF n, g, S, T
<1>5. Restricted(n, S, g) = Restricted(n, T, g)
  BY <1>2 DEF Restricted
<1>6. SumOver(n, S, g) = SumOver(n, T, g)
  BY <1>1, <1>5, SumOverIs
<1> QED
  BY <1>3, <1>4, <1>6 DEF n

\* What a close finds, and what the sweep of the remainder does to the balances.
CloseCase(list, x, bs, e, r, s, executed, late, est, dust, w, held0, held, held2) ==
  /\ list \in Seq(AssetAssignment) /\ bs \in Seq(Beneficiary) /\ ValidBeneficiaries(bs)
  /\ e \in Nat /\ r \in Nat /\ s = SatSub(AfterOf(list, x, e), r) /\ executed \in BOOLEAN
  /\ (executed \/ r = 0) /\ late \in BOOLEAN /\ est \in Nat /\ w \in HeirsOf(bs)
  /\ held0 \in [Accounts -> Nat] /\ held \in [Accounts -> Nat]
  /\ Tally(x, list, bs, e, s, held0, late, 1..Len(bs), OfMint(list, x), executed, est, held)
  /\ held2[w] = held[w] + (IF w = dust THEN est ELSE 0)

\* At the close the estate owes nothing but the rounding remainder, which goes
\* to the largest share.
DueOf(x, list, bs, e, r, s, w, dust) ==
  GrantedWith(x, list, bs, e, w, 1..Len(list)) + SharedWith(bs, s, w, 1..Len(bs))
    + (IF w = dust THEN SatSub(AfterOf(list, x, e) - SharedOut(bs, s, 1..Len(bs)), r) ELSE 0)

LEMMA TallyCloses ==
  ASSUME NEW list, NEW x, NEW bs, NEW e, NEW r, NEW s, NEW executed, NEW late, NEW est,
         NEW dust, NEW w, NEW held0, NEW held, NEW held2,
         CloseCase(list, x, bs, e, r, s, executed, late, est, dust, w, held0, held, held2)
  PROVE  Agrees(late, held2[w] - held0[w], DueOf(x, list, bs, e, r, s, w, dust))
<1> SUFFICES
  ASSUME list \in Seq(AssetAssignment), bs \in Seq(Beneficiary), ValidBeneficiaries(bs),
         e \in Nat, r \in Nat, s = SatSub(AfterOf(list, x, e), r), executed \in BOOLEAN,
         executed \/ r = 0, late \in BOOLEAN, est \in Nat, w \in HeirsOf(bs),
         held0 \in [Accounts -> Nat], held \in [Accounts -> Nat],
         Tally(x, list, bs, e, s, held0, late, 1..Len(bs), OfMint(list, x), executed, est, held),
         held2[w] = held[w] + (IF w = dust THEN est ELSE 0)
  PROVE  Agrees(late, held2[w] - held0[w], DueOf(x, list, bs, e, r, s, w, dust))
  BY DEF CloseCase
<1> DEFINE spec == Bequeathed(list, OfMint(list, x))
           out == SharedOut(bs, s, 1..Len(bs))
           rest == SatSub(AfterOf(list, x, e) - out, r)
           had == Receives(x, list, bs, e, s, w, 1..Len(bs), OfMint(list, x))
           due == DueOf(x, list, bs, e, r, s, w, dust)
           d == held[w] - held0[w]
<1>1. /\ spec \in Nat /\ s = SatSub(SatSub(e, spec), r)
      /\ out \in Nat /\ out <= s /\ had \in Nat
  <2>1. (1..Len(bs)) \in SUBSET (1..Len(bs))
    OBVIOUS
  <2>2. TallyTyped(x, list, bs, e, r, s, 1..Len(bs), OfMint(list, x))
    BY <2>1, TallyNat
  <2> QED
    BY <2>2 DEF TallyTyped
<1>2. AfterOf(list, x, e) = SatSub(e, spec)
  BY GrantsAre
<1>3. Worth(list, bs, e, s, 1..Len(bs), OfMint(list, x), executed)
        = (IF executed THEN s ELSE SatSub(e, spec)) - out
  BY DEF Worth
<1>4. rest = s - out
  <2>1. rest = SatSub(SatSub(e, spec) - out, r)
    BY <1>2
  <2> HIDE DEF rest, spec, out
  <2> QED
    BY <1>1, <2>1 DEF SatSub
<1>5. (IF executed THEN s ELSE SatSub(e, spec)) = s
  <2>1. r = 0 => SatSub(SatSub(e, spec), r) = SatSub(e, spec)
    <3> HIDE DEF spec
    <3> QED
      BY <1>1 DEF SatSub
  <2> HIDE DEF spec
  <2> QED
    BY <1>1, <2>1
<1>6. Agrees(late, est, rest) /\ Agrees(late, d, had)
  <2>1. Agrees(late, d, had)
    BY DEF Tally
  <2>2. Agrees(late, est, s - out)
    BY <1>3, <1>5 DEF Tally
  <2> HIDE DEF rest, d, had, out
  <2> QED
    BY <1>4, <2>1, <2>2
<1>7. due = had + (IF w = dust THEN rest ELSE 0)
  <2>1. GrantedWith(x, list, bs, e, w, 1..Len(list))
          = GrantedWith(x, list, bs, e, w, OfMint(list, x))
    BY GrantedByMint
  <2> HIDE DEF rest
  <2> QED
    BY <2>1 DEF DueOf, Receives, rest
<1>8. held[w] \in Nat /\ held0[w] \in Nat /\ rest \in Int
  <2>1. held[w] \in Nat /\ held0[w] \in Nat
    BY HeirsHaveAccounts
  <2> HIDE DEF rest, out
  <2> QED
    BY <1>1, <1>4, <2>1 DEF SatSub
<1>9. CASE w = dust
  <2>1. held2[w] - held0[w] = d + est
    BY <1>8, <1>9
  <2>2. due = had + rest
    BY <1>7, <1>9
  <2>3. d \in Int
    BY <1>8
  <2> HIDE DEF rest, d, had, due
  <2>4. Agrees(late, d + est, had + rest)
    BY <1>1, <1>6, <1>8, <2>3, AgreesAfter
  <2> QED
    BY <2>1, <2>2, <2>4 DEF due
<1>10. CASE w # dust
  <2>1. held2[w] - held0[w] = d /\ due = had
    <3>1. held2[w] = held[w] + 0 /\ due = had + 0
      BY <1>7, <1>10
    <3> HIDE DEF had, due
    <3> QED
      BY <1>1, <1>8, <3>1
  <2> HIDE DEF d, had, due
  <2> QED
    BY <1>6, <2>1 DEF due
<1> QED
  BY <1>9, <1>10

-------------------------------------------------------------------------------
(* The steps of the program.                                                    *)

\* BooksBalance of an open asset, as a function of the accounts' data.
BooksAre(x, b, list, bs, r, snap, ps, pb, executed, est, held) ==
  LET s == SatSub(AfterOf(list, x, b.estate), r) IN
  /\ b \in Ledger /\ snap = s /\ ps \subseteq 1..Len(bs)
  /\ b.whole => Tally(x, list, bs, b.estate, s, b.held, b.late, ps, pb, executed, est, held)

BooksNow(x) ==
  BooksAre(x, books[x], Bequests, vault.beneficiaries, Reward(x), Snapshot(x), SharesPaid(x),
           BequestsPaid(x), x = SOL /\ vault.executed, Estate(x), Held(x))

\* The operators of VaultAudit are the ones above.
LEMMA BooksAreThese ==
  ASSUME NEW x
  PROVE  /\ AfterBequests(x) = AfterOf(Bequests, x, books[x].estate)
         /\ Granted(x) = GrantOf(Bequests, x, books[x].estate)
         /\ ResidualShares(x)
              = SharesOf(vault.beneficiaries, SatSub(AfterBequests(x), Reward(x)))
         /\ Heirs = HeirsOf(vault.beneficiaries)
BY DEF AfterBequests, AfterOf, Left, Granted, GrantOf, ResidualShares, SharesOf, Share, Indices,
   Heirs, HeirsOf, WalletOf

LEMMA BooksAreTheseNext ==
  ASSUME NEW x
  PROVE  /\ AfterBequests(x)' = AfterOf(Bequests', x, books'[x].estate)
         /\ Granted(x)' = GrantOf(Bequests', x, books'[x].estate)
         /\ ResidualShares(x)'
              = SharesOf(vault'.beneficiaries, SatSub(AfterBequests(x)', Reward(x)'))
         /\ Heirs' = HeirsOf(vault'.beneficiaries)
BY DEF AfterBequests, AfterOf, Left, Granted, GrantOf, ResidualShares, SharesOf, Share, Indices,
   Heirs, HeirsOf, WalletOf

LEMMA BooksKnown ==
  ASSUME NEW x, BooksBalance(x), IsOpen(x)
  PROVE  BooksNow(x)
<1> DEFINE bs == vault.beneficiaries
           e == books[x].estate
           s == SatSub(AfterOf(Bequests, x, e), Reward(x))
<1>1. /\ AfterBequests(x) = AfterOf(Bequests, x, e) /\ Granted(x) = GrantOf(Bequests, x, e)
      /\ ResidualShares(x) = SharesOf(bs, s) /\ Heirs = HeirsOf(bs)
  BY BooksAreThese
<1>2. /\ books[x] \in Ledger /\ Snapshot(x) = s /\ SharesPaid(x) \subseteq 1..Len(bs)
  BY <1>1 DEF BooksBalance, Indices
<1>3. ASSUME books[x].whole
      PROVE  Tally(x, Bequests, bs, e, s, books[x].held, books[x].late, SharesPaid(x),
                   BequestsPaid(x), x = SOL /\ vault.executed, Estate(x), Held(x))
  <2>1. \A w : /\ GrantedTo(x, w, BequestsPaid(x))
                    = GrantedWith(x, Bequests, bs, e, w, BequestsPaid(x))
               /\ SharedTo(x, w, SharesPaid(x)) = SharedWith(bs, s, w, SharesPaid(x))
    BY <1>1 DEF GrantedTo, GrantedWith, SharedTo, SharedWith, WalletOf
  <2>2. ShouldHold(x) = Worth(Bequests, bs, e, s, SharesPaid(x), BequestsPaid(x),
                              x = SOL /\ vault.executed)
    BY <1>1 DEF ShouldHold, Worth, SharedOut, Bequeathed, WalletOf
  <2> QED
    BY <1>1, <1>3, <2>1, <2>2 DEF BooksBalance, Tally, Receives
<1> QED
  BY <1>2, <1>3 DEF BooksNow, BooksAre

\* What a step must establish.
LEMMA BooksGoal ==
  ASSUME NEW x, BooksNow(x)'
  PROVE  BooksBalance(x)'
<1> DEFINE bs == vault'.beneficiaries
           e == books'[x].estate
           s == SatSub(AfterOf(Bequests', x, e), Reward(x)')
<1>1. /\ AfterBequests(x)' = AfterOf(Bequests', x, e) /\ Granted(x)' = GrantOf(Bequests', x, e)
      /\ ResidualShares(x)' = SharesOf(bs, s) /\ Heirs' = HeirsOf(bs)
  BY BooksAreTheseNext
<1>2. /\ books'[x] \in Ledger /\ Snapshot(x)' = s /\ SharesPaid(x)' \subseteq 1..Len(bs)
  BY DEF BooksNow, BooksAre
<1>3. ASSUME books'[x].whole
      PROVE  Tally(x, Bequests', bs, e, s, books'[x].held, books'[x].late, SharesPaid(x)',
                   BequestsPaid(x)', x = SOL /\ vault'.executed, Estate(x)', Held(x)')
  BY <1>3 DEF BooksNow, BooksAre
<1>4. \A w : /\ GrantedTo(x, w, BequestsPaid(x))'
                  = GrantedWith(x, Bequests', bs, e, w, BequestsPaid(x)')
             /\ SharedTo(x, w, SharesPaid(x))' = SharedWith(bs, s, w, SharesPaid(x)')
  BY <1>1 DEF GrantedTo, GrantedWith, SharedTo, SharedWith, WalletOf
<1>5. ShouldHold(x)' = Worth(Bequests', bs, e, s, SharesPaid(x)', BequestsPaid(x)',
                             x = SOL /\ vault'.executed)
  BY <1>1 DEF ShouldHold, Worth, SharedOut, Bequeathed, WalletOf
<1> QED
  BY <1>1, <1>2, <1>3, <1>4, <1>5 DEF BooksBalance, Tally, Receives, Indices

\* What the terms of an execution are made of.
LEMMA BasisTyped ==
  ASSUME SolvencyInv, vault # NoAccount, NEW x \in Assets
  PROVE  /\ Bequests \in Seq(AssetAssignment)
         /\ vault.beneficiaries \in Seq(Beneficiary)
         /\ ValidBeneficiaries(vault.beneficiaries)
         /\ Reward(x) \in Nat
         /\ BequestsPaid(x) \in SUBSET OfMint(Bequests, x)
         /\ Estate(x) \in Nat /\ Held(x) \in [Accounts -> Nat]
<1>0. TypeOK /\ vault \in VaultConfig
  BY DEF SolvencyInv, LedgerInv, LifecycleInv, TypeOK
<1>1. Bequests \in Seq(AssetAssignment)
  <2>1. << >> \in Seq(AssetAssignment)
    OBVIOUS
  <2> QED
    BY <1>0, <2>1 DEF Bequests, TypeOK, AssetPlan
<1>2. vault.beneficiaries \in Seq(Beneficiary) /\ vault.keeper_bounty \in Nat
  BY <1>0 DEF VaultConfig
<1>3. ValidBeneficiaries(vault.beneficiaries)
  BY DEF SolvencyInv, LedgerInv, LifecycleInv, VaultInOrder
<1>4. Reward(x) \in Nat
  BY <1>2 DEF Reward
<1>5. BequestsPaid(x) \in SUBSET OfMint(Bequests, x)
  BY DEF BequestsPaid, Bequests
<1>6. Estate(x) \in Nat
  <2>1. \A m \in Mints : AtaBalance(m) \in Nat
    BY <1>0 DEF AtaBalance, TypeOK
  <2> QED
    BY <1>0, <2>1, AvailableNat DEF Estate, Assets
<1>7. Held(x) \in [Accounts -> Nat]
  BY <1>0 DEF Held, TypeOK, Assets
<1> QED
  BY <1>1, <1>2, <1>3, <1>4, <1>5, <1>6, <1>7

LEMMA LedgerTypedNext ==
  ASSUME TypeOK', NEW x \in Assets
  PROVE  Estate(x)' \in Nat /\ Held(x)' \in [Accounts -> Nat]
<1>1. \A m \in Mints : AtaBalance(m)' \in Nat
  BY DEF AtaBalance, TypeOK
<1>2. Available' \in Nat
  BY BoundsAssumption DEF Available, SatSub, TypeOK
<1>3. Estate(x)' \in Nat
  BY <1>1, <1>2 DEF Estate, Assets
<1>4. Held(x)' \in [Accounts -> Nat]
  BY DEF Held, TypeOK, Assets
<1> QED
  BY <1>3, <1>4

\* The auditor at work, in a step of the program.
Audits == books' = [x \in Assets |-> Entry(x)]

\* The entry of an asset that stays open.
LEMMA EntryKept ==
  ASSUME Audits, NEW x \in Assets, IsOpen(x), IsOpen(x)', books[x] \in Ledger
  PROVE  /\ books'[x] \in Ledger
         /\ books'[x].estate = books[x].estate /\ books'[x].held = books[x].held
         /\ books'[x].whole = books[x].whole
         /\ books'[x].late = (books[x].late \/ Estate(x)' > Estate(x))
<1> DEFINE b == books[x]
           p == Estate(x)' > Estate(x)
<1>1. books'[x] = [b EXCEPT !.late = @ \/ p]
  BY DEF Audits, Entry
<1>2. b \in Ledger /\ p \in BOOLEAN
  OBVIOUS
<1> HIDE DEF b, p
<1>3. b.late \in BOOLEAN
  BY <1>2 DEF Ledger
<1>4. (b.late \/ p) \in BOOLEAN
  OBVIOUS
<1>5. \A q \in BOOLEAN : LET c == [b EXCEPT !.late = q] IN
         /\ c \in Ledger /\ c.estate = b.estate /\ c.held = b.held
         /\ c.whole = b.whole /\ c.late = q
  BY <1>2 DEF Ledger
<1>6. [b EXCEPT !.late = @ \/ p] = [b EXCEPT !.late = b.late \/ p]
  OBVIOUS
<1> DEFINE q == b.late \/ p
<1>7. q \in BOOLEAN /\ books'[x] = [b EXCEPT !.late = q]
  BY <1>1, <1>4, <1>6
<1> HIDE DEF q
<1>8. /\ books'[x] \in Ledger /\ books'[x].estate = b.estate /\ books'[x].held = b.held
      /\ books'[x].whole = b.whole /\ books'[x].late = q
  BY <1>5, <1>7
<1> QED
  BY <1>8 DEF b, p, q

\* A step during which x stays open and that changes none of its terms.
SameBasis(x) ==
  /\ IsOpen(x) /\ IsOpen(x)' /\ vault # NoAccount
  /\ Bequests' = Bequests
  /\ vault'.beneficiaries = vault.beneficiaries
  /\ Reward(x)' = Reward(x)
  /\ Snapshot(x)' = Snapshot(x)

\* The snapshot that the books expect.
Residual(x) == SatSub(AfterOf(Bequests, x, books[x].estate), Reward(x))

LEMMA Carried ==
  ASSUME Audits, NEW x \in Assets, BooksNow(x), SameBasis(x),
         SharesPaid(x)' \subseteq 1..Len(vault.beneficiaries),
         books[x].whole =>
             Tally(x, Bequests, vault.beneficiaries, books[x].estate, Residual(x), books[x].held,
                   books[x].late \/ Estate(x)' > Estate(x), SharesPaid(x)', BequestsPaid(x)',
                   x = SOL /\ vault'.executed, Estate(x)', Held(x)')
  PROVE  BooksNow(x)'
<1>1. books[x] \in Ledger
  BY DEF BooksNow, BooksAre
<1>2. /\ books'[x] \in Ledger
      /\ books'[x].estate = books[x].estate /\ books'[x].held = books[x].held
      /\ books'[x].whole = books[x].whole
      /\ books'[x].late = (books[x].late \/ Estate(x)' > Estate(x))
  BY <1>1, EntryKept DEF SameBasis
<1>3. Snapshot(x)' = SatSub(AfterOf(Bequests', x, books'[x].estate), Reward(x)')
  BY <1>2 DEF SameBasis, BooksNow, BooksAre
<1>4. ASSUME books'[x].whole
      PROVE  Tally(x, Bequests', vault'.beneficiaries, books'[x].estate,
                   SatSub(AfterOf(Bequests', x, books'[x].estate), Reward(x)'), books'[x].held,
                   books'[x].late, SharesPaid(x)', BequestsPaid(x)',
                   x = SOL /\ vault'.executed, Estate(x)', Held(x)')
  BY <1>2, <1>4 DEF SameBasis, Residual
<1> QED
  BY <1>2, <1>3, <1>4 DEF BooksNow, BooksAre, SameBasis

\* What is known of the books of an open asset, in the terms of the tallies.
LEMMA TallyKnown ==
  ASSUME NEW x, BooksNow(x)
  PROVE  /\ books[x] \in Ledger /\ books[x].estate \in Nat /\ books[x].held \in [Accounts -> Nat]
         /\ books[x].late \in BOOLEAN
         /\ Snapshot(x) = Residual(x)
         /\ SharesPaid(x) \in SUBSET (1..Len(vault.beneficiaries))
         /\ books[x].whole =>
                Tally(x, Bequests, vault.beneficiaries, books[x].estate, Residual(x),
                      books[x].held, books[x].late, SharesPaid(x), BequestsPaid(x),
                      x = SOL /\ vault.executed, Estate(x), Held(x))
BY DEF BooksNow, BooksAre, Residual, Ledger

\* A balance that does not grow sets no late mark.
LEMMA NotLate ==
  ASSUME NEW late \in BOOLEAN, NEW x \in Nat, NEW y \in Nat, y <= x
  PROVE  (late \/ y > x) = late
OBVIOUS

\* A step that leaves x alone, but for transfers into the vault.
LEMMA Waits ==
  ASSUME SolvencyInv, TypeOK', Audits, NEW x \in Assets, BooksNow(x), SameBasis(x),
         SharesPaid(x)' = SharesPaid(x), BequestsPaid(x)' = BequestsPaid(x),
         x = SOL => (vault'.executed <=> vault.executed),
         Estate(x)' >= Estate(x), \A w \in Heirs : Held(x)'[w] = Held(x)[w]
  PROVE  BooksNow(x)'
<1> DEFINE bs == vault.beneficiaries
           list == Bequests
           e == books[x].estate
           s == Residual(x)
           ps == SharesPaid(x)
           pb == BequestsPaid(x)
           executed == x = SOL /\ vault.executed
           est == Estate(x)
           more == Estate(x)'
           late == books[x].late
           held0 == books[x].held
           held == Held(x)
           held2 == Held(x)'
<1>1. /\ list \in Seq(AssetAssignment) /\ bs \in Seq(Beneficiary) /\ ValidBeneficiaries(bs)
      /\ Reward(x) \in Nat /\ est \in Nat
  BY BasisTyped DEF SameBasis
<1>2. more \in Nat
  BY LedgerTypedNext
<1>3. e \in Nat /\ late \in BOOLEAN /\ ps \in SUBSET (1..Len(bs))
  BY TallyKnown
<1>4. s \in Nat
  <2>1. AfterOf(list, x, e) \in Nat
    <3>1. /\ Bequeathed(list, OfMint(list, x)) \in Nat
          /\ AfterOf(list, x, e) = SatSub(e, Bequeathed(list, OfMint(list, x)))
      BY <1>1, <1>3, GrantsAre
    <3> QED
      BY <1>3, <3>1, SatSubNat
  <2> QED
    BY <1>1, <2>1, SatSubNat DEF Residual
<1>5. executed \in BOOLEAN
  BY DEF SolvencyInv, LedgerInv, LifecycleInv, TypeOK, SameBasis, VaultConfig
<1>6. Worth(list, bs, e, s, ps, pb, executed) \in Int
  <2> HIDE DEF list, bs, e, s, ps, pb, executed
  <2> QED
    BY <1>1, <1>3, <1>4, <1>5, WorthInt
<1>7. ASSUME books[x].whole
      PROVE  Tally(x, list, bs, e, s, held0, late \/ more > est, ps, pb, executed, more, held2)
  <2>1. Tally(x, list, bs, e, s, held0, late, ps, pb, executed, est, held)
    BY <1>7, TallyKnown
  <2>2. \A w \in HeirsOf(bs) : held2[w] = held[w]
    BY BooksAreThese
  <2>3. more >= est
    OBVIOUS
  <2> HIDE DEF list, bs, e, s, ps, pb, executed, est, more, late, held0, held, held2
  <2> QED
    BY <1>1, <1>2, <1>3, <1>6, <2>1, <2>2, <2>3, TallyWaits
<1>8. (x = SOL /\ vault'.executed) = executed
  OBVIOUS
<1> QED
  BY <1>3, <1>7, <1>8, Carried

\* What begin_execution and begin_token_dist leave out of their snapshots.
LEMMA SpecificIs ==
  ASSUME SolvencyInv, vault # NoAccount, NEW x \in Assets
  PROVE  SpecificSum(x) = Bequeathed(Bequests, OfMint(Bequests, x))
<1>1. vault.has_asset_plan <=> plan # NoAccount
  BY DEF SolvencyInv, LedgerInv, LifecycleInv, AccountsTogether
<1>2. CASE plan # NoAccount
  BY <1>1, <1>2 DEF SpecificSum, Bequeathed, Bequests
<1>3. CASE plan = NoAccount
  <2> DEFINE list == << >>
             n == Len(list)
             f == AssignedAmounts(list)
             S == OfMint(list, x)
  <2>1. Bequests = list /\ list \in Seq(AssetAssignment) /\ n = 0
    BY <1>3 DEF Bequests
  <2>2. n \in Nat /\ f \in [1..n -> Nat]
    BY <2>1, AmountsTyped
  <2>3. S \cap (1..n) = {}
    BY <2>1
  <2>4. Bequeathed(list, S) = SumOver(n, S, f)
    BY DEF Bequeathed
  <2> HIDE DEF list, n, f, S
  <2>5. SumOver(n, S, f) = 0
    BY <2>2, <2>3, SumOverNone
  <2>6. SpecificSum(x) = 0
    BY <1>1, <1>3 DEF SpecificSum
  <2> QED
    BY <2>1, <2>4, <2>5, <2>6 DEF S
<1> QED
  BY <1>2, <1>3

\* The books of an asset open with its distribution.
LEMMA Opens ==
  ASSUME SolvencyInv, Audits, NEW x \in Assets, ~IsOpen(x), IsOpen(x)', vault # NoAccount,
         plan' = plan, vault'.beneficiaries = vault.beneficiaries, Reward(x)' = Reward(x),
         Estate(x)' = Estate(x), Held(x)' = Held(x), SharesPaid(x)' = {},
         ~(x = SOL /\ vault'.executed),
         Snapshot(x)' = SatSub(SatSub(Estate(x), SpecificSum(x)), Reward(x))
  PROVE  BooksNow(x)'
<1> DEFINE bs == vault.beneficiaries
           list == Bequests
           e == Estate(x)
           held == Held(x)
           s == SatSub(AfterOf(list, x, e), Reward(x))
           b == books'[x]
<1>1. /\ list \in Seq(AssetAssignment) /\ bs \in Seq(Beneficiary)
      /\ Reward(x) \in Nat /\ e \in Nat /\ held \in [Accounts -> Nat]
  BY BasisTyped
<1>2. b = OpeningEntry(x)
  BY DEF Audits, Entry
<1>3. /\ b.estate = e /\ b.held = held /\ b.late = FALSE /\ b.whole = Untouched(x)
      /\ b \in Ledger
  <2>1. Untouched(x) \in BOOLEAN
    BY DEF Untouched
  <2> HIDE DEF b, e, held
  <2> QED
    BY <1>1, <1>2, <2>1 DEF OpeningEntry, Ledger, e, held
<1>4. /\ Bequeathed(list, OfMint(list, x)) \in Nat
      /\ AfterOf(list, x, e) = SatSub(e, Bequeathed(list, OfMint(list, x)))
  <2> HIDE DEF list, e
  <2> QED
    BY <1>1, GrantsAre
<1>5. s \in Nat
  BY <1>1, <1>4, SatSubNat
<1>6. Snapshot(x)' = s
  BY <1>4, SpecificIs
<1>7. Bequests' = list
  BY DEF Bequests
<1>8. ASSUME b.whole
      PROVE  Tally(x, Bequests', vault'.beneficiaries, b.estate, s, b.held, b.late, SharesPaid(x)',
                   BequestsPaid(x)', x = SOL /\ vault'.executed, Estate(x)', Held(x)')
  <2>1. BequestsPaid(x)' = {}
    BY <1>3, <1>8 DEF BequestsPaid, Untouched
  <2>2. Tally(x, list, bs, e, s, held, FALSE, {}, {}, FALSE, e, held)
    <3> HIDE DEF list, bs, e, s, held
    <3> QED
      BY <1>1, <1>5, TallyOpens
  <2>3. (x = SOL /\ vault'.executed) = FALSE
    OBVIOUS
  <2> HIDE DEF b
  <2> QED
    BY <1>3, <1>7, <2>1, <2>2, <2>3
<1>9. SatSub(AfterOf(Bequests', x, b.estate), Reward(x)') = s
  BY <1>3, <1>7
<1> QED
  BY <1>3, <1>6, <1>8, <1>9 DEF BooksNow, BooksAre

\* begin_execution.
LEMMA OpensSol ==
  ASSUME SolvencyInv, Audits, BeginExecution
  PROVE  BooksNow(SOL)'
<1>1. /\ vault # NoAccount /\ ~vault.executed /\ log = NoAccount
      /\ UNCHANGED <<vault, plan, dist, balances>>
  BY DEF BeginExecution, VaultExists
<1>2. LifecycleInv
  BY DEF SolvencyInv, LedgerInv
<1>3. log' # NoAccount /\ log'.sol_snapshot = SolResidual /\ log'.sol_paid_mask = {}
  BY <1>2, BegunLog, RecordsStay DEF BeginExecution
<1>4. Estate(SOL)' = Estate(SOL) /\ Held(SOL)' = Held(SOL) /\ Reward(SOL)' = Reward(SOL)
  BY <1>1 DEF Estate, Available, Held, Reward
<1>5. Snapshot(SOL)' = SatSub(SatSub(Estate(SOL), SpecificSum(SOL)), Reward(SOL))
  BY <1>3 DEF Snapshot, SolResidual, Estate, Reward
<1>6. SOL \in Assets /\ ~IsOpen(SOL) /\ IsOpen(SOL)' /\ SharesPaid(SOL)' = {}
  BY <1>1, <1>3 DEF Assets, IsOpen, SharesPaid
<1> QED
  BY <1>1, <1>4, <1>5, <1>6, Opens

\* begin_token_dist.
LEMMA OpensToken ==
  ASSUME SolvencyInv, Audits, NEW m \in Mints, BeginTokenDist(m)
  PROVE  BooksNow(m)'
<1>0. LifecycleInv /\ vault \in VaultConfig
  BY DEF BeginTokenDist, SolvencyInv, LedgerInv, LifecycleInv, TypeOK
<1>1. /\ vault # NoAccount /\ dist[m] = NoAccount
      /\ UNCHANGED <<plan, balances>>
      /\ vault' = [vault EXCEPT !.open_token_dists = @ + 1]
  BY DEF BeginTokenDist
<1>2. /\ dist'[m] = [snapshot |-> TokenResidual(m), paid_mask |-> {}]
      /\ dist'[m] \in TokenDist
  BY <1>0, BegunDist
<1>3. m \in Assets /\ m # SOL
  BY KeysAssumption DEF Assets
<1>4. /\ Estate(m)' = Estate(m) /\ Held(m)' = Held(m) /\ Reward(m) = 0 /\ Reward(m)' = 0
      /\ vault'.beneficiaries = vault.beneficiaries
  BY <1>0, <1>1, <1>3 DEF Estate, AtaBalance, Held, Reward, VaultConfig
<1>5. TokenResidual(m) \in Nat
  BY <1>0, BegunDist
<1>6. Snapshot(m)' = SatSub(SatSub(Estate(m), SpecificSum(m)), Reward(m))
  <2>1. Snapshot(m)' = SatSub(Estate(m), SpecificSum(m)) /\ Snapshot(m)' \in Nat
    BY <1>2, <1>3, <1>5 DEF Snapshot, TokenResidual, Estate
  <2>2. \A v \in Nat : SatSub(v, 0) = v
    BY DEF SatSub
  <2> QED
    BY <1>4, <2>1, <2>2
<1>7. ~IsOpen(m) /\ IsOpen(m)' /\ SharesPaid(m)' = {}
  <2>1. dist'[m] # NoAccount
    BY <1>2, RecordsStay
  <2>2. dist'[m].paid_mask = {}
    BY <1>2
  <2> QED
    BY <1>1, <1>3, <2>1, <2>2 DEF IsOpen, SharesPaid
<1> QED
  BY <1>1, <1>3, <1>4, <1>6, <1>7, Opens

\* What no step changes while an execution runs.
SameRecords ==
  /\ vault # NoAccount /\ vault' # NoAccount /\ log # NoAccount /\ log' # NoAccount
  /\ Bequests' = Bequests
  /\ vault'.beneficiaries = vault.beneficiaries
  /\ vault'.keeper_bounty = vault.keeper_bounty
  /\ log'.sol_snapshot = log.sol_snapshot

LEMMA RecordsSame ==
  ASSUME LifecycleInv, [Next]_vars, log # NoAccount, vault' # NoAccount
  PROVE  SameRecords
<1>1. vault # NoAccount /\ VaultExists
  BY DEF LifecycleInv, AccountsTogether, VaultExists
<1>2. TermsKept
  BY StepKeepsTerms
<1>3. ~NotFrozen
  BY <1>1, OwnerBeforeExecution
<1>4. plan = NoAccount => plan' = NoAccount
  BY <1>1, <1>3, ZenonT(30)
  DEF Next, OwnerNext, AgentNext, CrankNext, EnvironmentNext, InitializeVault,
     UpdateVault, RotateAgent, SetAssetPlan, UpdateAssetPlan, ClearAssetPlan,
     WithdrawSolFromVault, WithdrawFromVault, RevokeVault, CloseRevokedVault,
     CloseExecutedVaultByOwner, CloseExecutedVault, CloseCore, RecordHeartbeat, BeginExecution,
     BeginTokenDist, ExecuteSpecificAsset, ExecuteSpecificSol, PayableSpecific,
     ExecuteSolShares, ExecuteTokenShares, FinalizeExecution, CloseTokenDist, Tick, DepositSol,
     CreateVaultAta, DepositTokens, Freeze, Thaw, OpenForOwner
<1>5. Bequests' = Bequests
  BY <1>2, <1>4 DEF Bequests, TermsKept
<1> QED
  BY <1>1, <1>2, <1>5 DEF SameRecords, TermsKept

\* A step of a running execution, for an asset that stays open.
Running(x) ==
  /\ SolvencyInv /\ TypeOK' /\ SolSolvent' /\ Audits
  /\ x \in Assets /\ IsOpen(x) /\ IsOpen(x)'
  /\ SameRecords /\ BooksNow(x)

LEMMA BasisOfSol ==
  ASSUME Running(SOL)
  PROVE  SameBasis(SOL)
BY DEF Running, SameRecords, SameBasis, Reward, Snapshot

LEMMA BasisOfMint ==
  ASSUME NEW m \in Mints, Running(m), dist'[m].snapshot = dist[m].snapshot
  PROVE  SameBasis(m)
<1>1. m # SOL
  BY KeysAssumption
<1> QED
  BY <1>1 DEF Running, SameRecords, SameBasis, Reward, Snapshot

LEMMA WaitsSol ==
  ASSUME Running(SOL), log'.sol_paid_mask = log.sol_paid_mask,
         BequestsPaid(SOL)' = BequestsPaid(SOL), vault'.executed <=> vault.executed,
         lamports' >= lamports, \A w \in Heirs : sol'[w] = sol[w]
  PROVE  BooksNow(SOL)'
<1>1. SameBasis(SOL)
  BY BasisOfSol
<1>2. SharesPaid(SOL)' = SharesPaid(SOL)
  BY DEF SharesPaid
<1>3. Estate(SOL)' >= Estate(SOL)
  <2>1. lamports \in Nat /\ lamports' \in Nat /\ Rent \in Nat
    BY BoundsAssumption DEF Running, SolvencyInv, LedgerInv, LifecycleInv, TypeOK
  <2>2. Estate(SOL) = SatSub(lamports, Rent) /\ Estate(SOL)' = SatSub(lamports', Rent)
    BY DEF Estate, Available
  <2>3. \A a \in Nat, b \in Nat, c \in Nat : b >= a => SatSub(b, c) >= SatSub(a, c)
    BY DEF SatSub
  <2> QED
    BY <2>1, <2>2, <2>3
<1>4. \A w \in Heirs : Held(SOL)'[w] = Held(SOL)[w]
  BY DEF Held
<1> QED
  BY <1>1, <1>2, <1>3, <1>4, Waits DEF Running

LEMMA WaitsMint ==
  ASSUME NEW m \in Mints, Running(m), dist'[m] = dist[m],
         BequestsPaid(m)' = BequestsPaid(m),
         AtaBalance(m)' >= AtaBalance(m), \A w \in Heirs : tokens'[m][w] = tokens[m][w]
  PROVE  BooksNow(m)'
<1>1. m # SOL
  BY KeysAssumption
<1>2. SameBasis(m)
  BY BasisOfMint
<1>3. SharesPaid(m)' = SharesPaid(m)
  BY <1>1 DEF SharesPaid
<1>4. Estate(m)' >= Estate(m) /\ \A w \in Heirs : Held(m)'[w] = Held(m)[w]
  BY <1>1 DEF Estate, Held
<1> QED
  BY <1>1, <1>2, <1>3, <1>4, Waits DEF Running

\* execute_specific_sol and execute_specific_asset, for the asset that is paid.
LEMMA BequestStep ==
  ASSUME NEW x, Running(x), SameBasis(x), NEW j \in 1..MaxAssignments, PayableSpecific(j, x),
         plan' = [plan EXCEPT !.paid_mask = @ \cup {j}],
         ~(x = SOL /\ vault.executed), ~(x = SOL /\ vault'.executed),
         SharesPaid(x)' = SharesPaid(x),
         NEW paid, paid = Lesser(plan.assignments[j].amount, Estate(x)),
         Estate(x)' = Estate(x) - paid,
         Held(x)' = [Held(x) EXCEPT ![WalletOf(plan.assignments[j].beneficiary_index)] = @ + paid]
  PROVE  BooksNow(x)'
<1> DEFINE bs == vault.beneficiaries
           list == Bequests
           e == books[x].estate
           r == Reward(x)
           s == Residual(x)
           ps == SharesPaid(x)
           pb == BequestsPaid(x)
           est == Estate(x)
           late == books[x].late
           held0 == books[x].held
           held == Held(x)
           held2 == Held(x)'
           to == WalletOf(plan.assignments[j].beneficiary_index)
<1>0. /\ SolvencyInv /\ TypeOK' /\ Audits /\ x \in Assets /\ BooksNow(x) /\ vault # NoAccount
      /\ TypeOK
  BY DEF Running, SameRecords, SolvencyInv, LedgerInv, LifecycleInv
<1>1. /\ list \in Seq(AssetAssignment) /\ bs \in Seq(Beneficiary) /\ ValidBeneficiaries(bs)
      /\ r \in Nat /\ est \in Nat /\ held \in [Accounts -> Nat]
      /\ pb \in SUBSET OfMint(list, x)
  BY <1>0, BasisTyped
<1>2. /\ e \in Nat /\ late \in BOOLEAN /\ ps \in SUBSET (1..Len(bs))
      /\ held0 \in [Accounts -> Nat]
  BY <1>0, TallyKnown
<1>3. s = SatSub(AfterOf(list, x, e), r)
  BY DEF Residual
<1>4. /\ plan # NoAccount /\ list = plan.assignments
      /\ j \in OfMint(list, x) /\ j \notin pb /\ LowerIndexSameMint(list, x, j) \subseteq pb
  BY DEF PayableSpecific, Bequests, BequestsPaid, LowerIndexSameMint
<1>5. paid = Lesser(list[j].amount, est)
  BY <1>4
<1>6. list[j].amount \in Nat
  BY <1>1, <1>4, GrantsAre, <1>2
<1>7. paid \in Nat /\ paid <= est
  BY <1>1, <1>5, <1>6, SatSubNat
<1>8. BequestsPaid(x)' = pb \cup {j}
  <2>1. plan \in AssetPlan
    BY <1>0, <1>4 DEF TypeOK
  <2>2. j \in Nat
    BY BoundsAssumption
  <2>3. /\ plan' \in AssetPlan /\ plan'.assignments = plan.assignments
        /\ plan'.paid_mask = plan.paid_mask \cup {j}
    BY <2>1, <2>2 DEF AssetPlan
  <2>4. plan' # NoAccount
    BY <2>3, RecordsStay
  <2> QED
    BY <1>4, <2>3, <2>4 DEF BequestsPaid
<1>9. \A w \in HeirsOf(bs) :
         held2[w] = held[w] + (IF bs[list[j].beneficiary_index].wallet = w THEN paid ELSE 0)
  <2>1. to = bs[list[j].beneficiary_index].wallet
    BY <1>4 DEF WalletOf
  <2>2. \A w \in HeirsOf(bs) : w \in Accounts /\ held[w] \in Nat
    BY <1>1, HeirsHaveAccounts
  <2>3. held2 = [held EXCEPT ![to] = @ + paid]
    OBVIOUS
  <2> HIDE DEF held2, held, to, bs, list
  <2>4. \A w \in Accounts : held2[w] = IF w = to THEN held[w] + paid ELSE held[w]
    BY <1>1, <2>3
  <2> QED
    BY <2>1, <2>2, <2>4
<1>10. ASSUME books[x].whole
       PROVE  Tally(x, list, bs, e, s, held0, late, ps, pb \cup {j}, FALSE, est - paid, held2)
  <2>1. Tally(x, list, bs, e, s, held0, late, ps, pb, FALSE, est, held)
    BY <1>0, <1>10, TallyKnown
  <2> HIDE DEF list, bs, e, r, s, ps, pb, est, late, held0, held, held2
  <2>2. BequestCase(list, x, bs, e, r, s, ps, pb, late, est, held0, held, j, paid, held2)
    BY <1>1, <1>2, <1>3, <1>4, <1>5, <1>9, <2>1 DEF BequestCase
  <2> QED
    BY <2>2, TallyBequest
<1>11. est - paid \in Nat /\ (late \/ est - paid > est) = late
  BY <1>1, <1>2, <1>7
<1>12. /\ (x = SOL /\ vault'.executed) = FALSE /\ Estate(x)' = est - paid
       /\ SharesPaid(x)' = ps
  OBVIOUS
<1>13. books[x].whole =>
          Tally(x, list, bs, e, s, held0, late \/ Estate(x)' > est, SharesPaid(x)',
                BequestsPaid(x)', x = SOL /\ vault'.executed, Estate(x)', held2)
  BY <1>8, <1>10, <1>11, <1>12
<1> QED
  BY <1>0, <1>2, <1>12, <1>13, Carried

\* A bequest of one asset is none of another.
LEMMA OtherBequests ==
  ASSUME TypeOK, NEW x, NEW mint, x # mint, NEW j \in 1..MaxAssignments,
         PayableSpecific(j, mint), plan' = [plan EXCEPT !.paid_mask = @ \cup {j}]
  PROVE  BequestsPaid(x)' = BequestsPaid(x)
<1>1. plan \in AssetPlan /\ plan # NoAccount /\ j \in OfMint(plan.assignments, mint)
  BY DEF PayableSpecific, TypeOK
<1>2. j \in Nat
  BY BoundsAssumption
<1>3. /\ plan' \in AssetPlan /\ plan'.assignments = plan.assignments
      /\ plan'.paid_mask = plan.paid_mask \cup {j}
  BY <1>1, <1>2 DEF AssetPlan
<1>4. plan' # NoAccount
  BY <1>3, RecordsStay
<1>5. j \notin OfMint(plan.assignments, x)
  BY <1>1 DEF OfMint
<1> QED
  BY <1>1, <1>3, <1>4, <1>5 DEF BequestsPaid

\* A step that neither opens nor pays a bequest leaves the paid ones alone.
LEMMA SameBequests ==
  ASSUME NEW x, plan' = plan
  PROVE  BequestsPaid(x)' = BequestsPaid(x)
BY DEF BequestsPaid

LEMMA RunningTyped ==
  ASSUME NEW x, Running(x)
  PROVE  /\ SolvencyInv /\ LifecycleInv /\ TypeOK /\ TypeOK' /\ x \in Assets
         /\ vault # NoAccount /\ vault \in VaultConfig /\ log # NoAccount /\ log \in ExecutionLog
         /\ lamports \in Nat /\ lamports' \in Nat /\ Rent \in Nat
         /\ lamports >= Rent /\ Available = lamports - Rent
         /\ lamports' >= Rent /\ Available' = lamports' - Rent
         /\ \A m \in Mints : AtaBalance(m) \in Nat /\ AtaBalance(m)' \in Nat
<1>1. /\ SolvencyInv /\ LifecycleInv /\ TypeOK /\ TypeOK' /\ x \in Assets
      /\ vault # NoAccount /\ vault' # NoAccount /\ log # NoAccount
      /\ SolSolvent /\ SolSolvent'
  BY DEF Running, SameRecords, SolvencyInv, LedgerInv, LifecycleInv
<1>2. /\ lamports \in Nat /\ lamports' \in Nat /\ Rent \in Nat
      /\ lamports >= Rent /\ lamports' >= Rent
  BY <1>1, BoundsAssumption DEF TypeOK, SolSolvent
<1>3. Available = lamports - Rent /\ Available' = lamports' - Rent
  <2>1. \A a \in Nat, b \in Nat : a >= b => SatSub(a, b) = a - b
    BY DEF SatSub
  <2>2. Available = SatSub(lamports, Rent) /\ Available' = SatSub(lamports', Rent)
    BY DEF Available
  <2> QED
    BY <1>2, <2>1, <2>2
<1>4. vault \in VaultConfig /\ log \in ExecutionLog
  BY <1>1 DEF TypeOK
<1>5. \A m \in Mints : AtaBalance(m) \in Nat /\ AtaBalance(m)' \in Nat
  BY <1>1 DEF AtaBalance, TypeOK
<1> QED
  BY <1>1, <1>2, <1>3, <1>4, <1>5

LEMMA BooksSpecificSol ==
  ASSUME NEW j \in 1..MaxAssignments, ExecuteSpecificSol(j), NEW x, Running(x)
  PROVE  BooksNow(x)'
<1> DEFINE amount == plan.assignments[j].amount
           paid == Lesser(amount, Available)
           to == WalletOf(plan.assignments[j].beneficiary_index)
<1>0. /\ SolvencyInv /\ LifecycleInv /\ TypeOK /\ x \in Assets
      /\ vault # NoAccount /\ log # NoAccount
      /\ lamports \in Nat /\ lamports' \in Nat /\ Rent \in Nat
      /\ Available = lamports - Rent /\ Available' = lamports' - Rent
      /\ \A m \in Mints : AtaBalance(m) \in Nat
  BY RunningTyped
<1>1. /\ PayableSpecific(j, SOL)
      /\ plan' = [plan EXCEPT !.paid_mask = @ \cup {j}]
      /\ lamports' = lamports - paid
      /\ sol' = [sol EXCEPT ![to] = @ + paid]
      /\ UNCHANGED <<vault, log, dist, ata, tokens>>
  BY DEF ExecuteSpecificSol
<1>2. CASE x = SOL
  <2>1. ~vault.executed
    <3>1. j \in PlanDue
      BY <1>1 DEF PlanDue, PayableSpecific, OfMint
    <3> QED
      BY <1>0, <3>1 DEF SolvencyInv, LedgerInv, DebtsSettled
  <2>2. amount \in Nat
    BY <1>0, <1>1, BequestPaid
  <2>3. paid \in Nat
    BY <1>0, <2>2, LesserAvailable
  <2>4. /\ Estate(x) = Available /\ Estate(x)' = Available'
        /\ Held(x) = sol /\ Held(x)' = sol'
        /\ SharesPaid(x)' = SharesPaid(x)
    BY <1>1, <1>2 DEF Estate, Held, SharesPaid
  <2>5. Estate(x)' = Estate(x) - paid
    <3> HIDE DEF paid
    <3> QED
      BY <1>0, <1>1, <2>3, <2>4
  <2>6. SameBasis(x)
    BY <1>2, BasisOfSol
  <2>7. Held(x)' = [Held(x) EXCEPT ![to] = @ + paid]
    BY <1>1, <2>4
  <2>8. paid = Lesser(plan.assignments[j].amount, Estate(x))
    BY <2>4
  <2> HIDE DEF paid
  <2> QED
    BY <1>1, <1>2, <2>1, <2>4, <2>5, <2>6, <2>7, <2>8, BequestStep
<1>3. CASE x # SOL
  <2>1. x \in Mints
    BY <1>0, <1>3 DEF Assets
  <2>2. AtaBalance(x)' >= AtaBalance(x) /\ tokens'[x] = tokens[x] /\ dist'[x] = dist[x]
    BY <1>0, <1>1, <2>1 DEF AtaBalance
  <2>3. BequestsPaid(x)' = BequestsPaid(x)
    BY <1>0, <1>1, <1>3, OtherBequests
  <2> QED
    BY <2>1, <2>2, <2>3, WaitsMint
<1> QED
  BY <1>2, <1>3

LEMMA BooksSpecificAsset ==
  ASSUME NEW m \in Mints, NEW j \in 1..MaxAssignments, ExecuteSpecificAsset(m, j),
         NEW x, Running(x)
  PROVE  BooksNow(x)'
<1> DEFINE amount == plan.assignments[j].amount
           paid == Lesser(amount, ata[m])
           to == WalletOf(plan.assignments[j].beneficiary_index)
<1>0. /\ SolvencyInv /\ LifecycleInv /\ TypeOK /\ TypeOK' /\ x \in Assets
      /\ vault # NoAccount /\ log # NoAccount /\ lamports \in Nat
      /\ \A y \in Mints : AtaBalance(y) \in Nat
  BY RunningTyped
<1>1. /\ PayableSpecific(j, m)
      /\ plan' = [plan EXCEPT !.paid_mask = @ \cup {j}]
      /\ ata[m] # NoAccount
      /\ ata' = [ata EXCEPT ![m] = @ - paid]
      /\ tokens' = [tokens EXCEPT ![m][to] = @ + paid]
      /\ UNCHANGED <<vault, log, dist, lamports, sol>>
  BY DEF ExecuteSpecificAsset
<1>2. m # SOL
  BY KeysAssumption
<1>3. ata[m] \in Nat /\ amount \in Nat /\ paid \in Nat /\ paid <= ata[m]
  <2>1. ata[m] \in Nat
    BY <1>0, <1>1 DEF TypeOK
  <2>2. amount \in Nat
    BY <1>0, <1>1, BequestPaid
  <2> QED
    BY <2>1, <2>2, SatSubNat
<1>4. CASE x = m
  <2>1. /\ Estate(x) = ata[m] /\ Estate(x)' = AtaBalance(m)'
        /\ Held(x) = tokens[m] /\ Held(x)' = tokens'[m]
        /\ SharesPaid(x)' = SharesPaid(x)
    BY <1>1, <1>2, <1>4 DEF Estate, AtaBalance, Held, SharesPaid
  <2>2. Estate(x)' = Estate(x) - paid
    <3> HIDE DEF paid
    <3>1. ata'[m] = ata[m] - paid /\ ata'[m] \in Nat
      BY <1>0, <1>1, <1>3 DEF TypeOK
    <3>2. ata'[m] # NoAccount
      BY <3>1, RecordsStay
    <3> QED
      BY <2>1, <3>1, <3>2 DEF AtaBalance
  <2>3. SameBasis(x)
    BY <1>1, <1>4, BasisOfMint
  <2>4. Held(x)' = [Held(x) EXCEPT ![to] = @ + paid]
    <3> HIDE DEF paid
    <3>1. tokens'[m] = [tokens[m] EXCEPT ![to] = @ + paid]
      BY <1>0, <1>1 DEF TypeOK
    <3> QED
      BY <2>1, <3>1
  <2>5. paid = Lesser(plan.assignments[j].amount, Estate(x))
    BY <2>1
  <2> HIDE DEF paid
  <2> QED
    BY <1>1, <1>2, <1>4, <2>1, <2>2, <2>3, <2>4, <2>5, BequestStep
<1>5. CASE x # m
  <2>1. BequestsPaid(x)' = BequestsPaid(x)
    BY <1>0, <1>1, <1>5, OtherBequests
  <2>2. CASE x = SOL
    <3>1. lamports' >= lamports /\ \A w \in Heirs : sol'[w] = sol[w]
      BY <1>0, <1>1
    <3> QED
      BY <1>1, <2>1, <2>2, <3>1, WaitsSol
  <2>3. CASE x # SOL
    <3>1. x \in Mints
      BY <1>0, <2>3 DEF Assets
    <3>2. ata'[x] = ata[x] /\ tokens'[x] = tokens[x]
      BY <1>0, <1>1, <1>5, <3>1 DEF TypeOK
    <3>3. AtaBalance(x)' >= AtaBalance(x) /\ dist'[x] = dist[x]
      BY <1>0, <1>1, <3>1, <3>2 DEF AtaBalance
    <3> QED
      BY <2>1, <3>1, <3>2, <3>3, WaitsMint
  <2> QED
    BY <2>2, <2>3
<1> QED
  BY <1>4, <1>5

\* Shares of nothing pay nothing, and the vault pays nothing to itself.
LEMMA LeavingSums ==
  ASSUME NEW bs \in Seq(Beneficiary), NEW s \in Nat, NEW fresh, NEW leaving,
         leaving = {i \in {k \in fresh : SharesOf(bs, s)[k] > 0} : bs[i].wallet # VaultKey}
  PROVE  /\ SumOver(Len(bs), leaving, SharesOf(bs, s)) = SharedOut(bs, s, fresh)
         /\ \A w : w # VaultKey =>
              SumOver(Len(bs), {i \in leaving : bs[i].wallet = w}, SharesOf(bs, s))
                = SharedWith(bs, s, w, fresh)
<1> DEFINE n == Len(bs)
           f == SharesOf(bs, s)
           S == {i \in fresh : bs[i].wallet # VaultKey}
           T(w) == {i \in fresh : bs[i].wallet = w}
<1>1. n \in Nat /\ f \in [1..n -> Nat]
  BY SharesTyped
<1>2. SharedOut(bs, s, fresh) = SumOver(n, S, f)
  BY DEF SharedOut
<1>3. \A w : SharedWith(bs, s, w, fresh) = SumOver(n, T(w), f)
  BY DEF SharedWith
<1>4. leaving = {k \in S : f[k] > 0}
  OBVIOUS
<1>5. ASSUME NEW w, w # VaultKey
      PROVE  {i \in leaving : bs[i].wallet = w} = {k \in T(w) : f[k] > 0}
  BY <1>5
<1>6. SumOver(n, {k \in S : f[k] > 0}, f) = SumOver(n, S, f)
  <2> HIDE DEF n, f, S
  <2> QED
    BY <1>1, SumOverPositive
<1>7. ASSUME NEW w PROVE SumOver(n, {k \in T(w) : f[k] > 0}, f) = SumOver(n, T(w), f)
  <2> DEFINE U == T(w)
  <2> HIDE DEF n, f, U
  <2>1. SumOver(n, {k \in U : f[k] > 0}, f) = SumOver(n, U, f)
    BY <1>1, SumOverPositive
  <2> QED
    BY <2>1 DEF U
<1>8. SumOver(n, leaving, f) = SharedOut(bs, s, fresh)
  BY <1>2, <1>4, <1>6
<1>9. ASSUME NEW w, w # VaultKey
      PROVE  SumOver(n, {i \in leaving : bs[i].wallet = w}, f) = SharedWith(bs, s, w, fresh)
  <2>1. {i \in leaving : bs[i].wallet = w} = {k \in T(w) : f[k] > 0}
    BY <1>5, <1>9
  <2> QED
    BY <1>3, <1>7, <2>1
<1> QED
  BY <1>8, <1>9

\* execute_sol_shares and execute_token_shares, for the asset that is paid.
LEMMA ShareStep ==
  ASSUME NEW x, Running(x), SameBasis(x), BequestsPaid(x)' = BequestsPaid(x), vault' = vault,
         NEW fresh, fresh \subseteq Indices, fresh \cap SharesPaid(x) = {},
         SharesPaid(x)' = SharesPaid(x) \cup fresh,
         NEW f, f = SharesOf(vault.beneficiaries, Snapshot(x)), NEW leaving,
         leaving = {i \in {k \in fresh : f[k] > 0} : WalletOf(i) # VaultKey},
         Estate(x)' = Estate(x) - SumOver(Len(vault.beneficiaries), leaving, f),
         Held(x)' = Credited(Held(x), leaving, f)
  PROVE  BooksNow(x)'
<1> DEFINE bs == vault.beneficiaries
           list == Bequests
           e == books[x].estate
           r == Reward(x)
           s == Residual(x)
           ps == SharesPaid(x)
           pb == BequestsPaid(x)
           executed == x = SOL /\ vault.executed
           est == Estate(x)
           late == books[x].late
           held0 == books[x].held
           held == Held(x)
           held2 == Held(x)'
           out == SharedOut(bs, s, fresh)
<1>0. /\ SolvencyInv /\ TypeOK' /\ Audits /\ x \in Assets /\ BooksNow(x) /\ vault # NoAccount
      /\ TypeOK
  BY DEF Running, SameRecords, SolvencyInv, LedgerInv, LifecycleInv
<1>1. /\ list \in Seq(AssetAssignment) /\ bs \in Seq(Beneficiary) /\ ValidBeneficiaries(bs)
      /\ r \in Nat /\ est \in Nat /\ held \in [Accounts -> Nat]
      /\ pb \in SUBSET OfMint(list, x)
  BY <1>0, BasisTyped
<1>2. /\ e \in Nat /\ late \in BOOLEAN /\ ps \in SUBSET (1..Len(bs))
      /\ held0 \in [Accounts -> Nat] /\ Snapshot(x) = s
  BY <1>0, TallyKnown
<1>3. s = SatSub(AfterOf(list, x, e), r) /\ s \in Nat
  <2>1. TallyTyped(x, list, bs, e, r, Residual(x), ps, pb)
    <3>1. s = SatSub(AfterOf(list, x, e), r)
      BY DEF Residual
    <3> HIDE DEF list, bs, e, r, s, ps, pb
    <3>2. TallyTyped(x, list, bs, e, r, s, ps, pb)
      BY <1>1, <1>2, <3>1, TallyNat
    <3> QED
      BY <3>2 DEF s
  <2> QED
    BY <2>1 DEF TallyTyped, Residual
<1>4. executed \in BOOLEAN
  BY <1>0 DEF TypeOK, VaultConfig
<1>5. fresh \in SUBSET (1..Len(bs)) /\ fresh \cap ps = {}
  BY DEF Indices
<1>6. /\ f = SharesOf(bs, s)
      /\ leaving = {i \in {k \in fresh : SharesOf(bs, s)[k] > 0} : bs[i].wallet # VaultKey}
  BY <1>2 DEF WalletOf
<1>7. /\ SumOver(Len(bs), leaving, f) = out
      /\ \A w : w # VaultKey =>
           SumOver(Len(bs), {i \in leaving : bs[i].wallet = w}, f) = SharedWith(bs, s, w, fresh)
  <2> HIDE DEF bs, s
  <2> QED
    BY <1>1, <1>3, <1>6, LeavingSums DEF out
<1>8. out \in Nat
  <2> HIDE DEF bs, s
  <2> QED
    BY <1>1, <1>3, <1>5, SharedBounded DEF out
<1>9. Estate(x)' = est - out /\ Estate(x)' \in Nat
  BY <1>0, <1>7, LedgerTypedNext
<1>10. \A w \in HeirsOf(bs) : held2[w] = held[w] + SharedWith(bs, s, w, fresh)
  <2>1. \A w \in HeirsOf(bs) : w \in Accounts /\ w # VaultKey
    BY <1>1, HeirsHaveAccounts DEF HeirsOf
  <2>2. \A w \in Accounts : held2[w] = held[w]
            + SumOver(Len(bs), {i \in leaving : bs[i].wallet = w}, f)
    BY DEF Credited, WalletOf
  <2> HIDE DEF bs, s, held, held2
  <2> QED
    BY <1>7, <2>1, <2>2
<1>11. ASSUME books[x].whole
       PROVE  Tally(x, list, bs, e, s, held0, late, ps \cup fresh, pb, executed, est - out, held2)
  <2>1. Tally(x, list, bs, e, s, held0, late, ps, pb, executed, est, held)
    BY <1>0, <1>11, TallyKnown
  <2> HIDE DEF list, bs, e, r, s, ps, pb, est, late, held0, held, held2, executed
  <2>2. ShareCase(list, x, bs, e, r, s, ps, pb, executed, late, est, held0, held, fresh, held2)
    BY <1>1, <1>2, <1>3, <1>4, <1>5, <1>10, <2>1 DEF ShareCase
  <2> QED
    BY <2>2, TallyShares DEF out
<1>12. (late \/ est - out > est) = late
  <2> HIDE DEF late, est, out
  <2> QED
    BY <1>1, <1>2, <1>8
<1>13. SharesPaid(x)' = ps \cup fresh /\ (x = SOL /\ vault'.executed) = executed
  OBVIOUS
<1>14. SharesPaid(x)' \subseteq 1..Len(bs)
  BY <1>2, <1>5
<1>15. books[x].whole =>
          Tally(x, list, bs, e, s, held0, late \/ Estate(x)' > est, SharesPaid(x)',
                BequestsPaid(x)', x = SOL /\ vault'.executed, Estate(x)', held2)
  <2> HIDE DEF list, bs, e, s, ps, pb, late, held0, held2, executed, out, est
  <2> QED
    BY <1>9, <1>11, <1>12, <1>13 DEF pb, est, executed, held2
<1> QED
  BY <1>0, <1>14, <1>15, Carried

LEMMA BooksSolShares ==
  ASSUME NEW batch \in SUBSET (1..MaxBeneficiaries), ExecuteSolShares(batch),
         NEW x, Running(x)
  PROVE  BooksNow(x)'
<1> DEFINE bs == vault.beneficiaries
           f == SharesOf(bs, log.sol_snapshot)
           fresh == batch \ log.sol_paid_mask
           paying == {i \in fresh : f[i] > 0}
           leaving == {i \in paying : WalletOf(i) # VaultKey}
           total == SumOver(Len(bs), paying, f)
<1>0. /\ SolvencyInv /\ LifecycleInv /\ TypeOK /\ TypeOK' /\ x \in Assets
      /\ vault # NoAccount /\ log # NoAccount /\ log \in ExecutionLog
      /\ lamports \in Nat /\ lamports' \in Nat /\ Rent \in Nat
      /\ Available = lamports - Rent /\ Available' = lamports' - Rent
      /\ \A m \in Mints : AtaBalance(m) \in Nat
  BY RunningTyped
<1>1. Shares(log.sol_snapshot) = f
  BY OwedIs
<1>2. /\ batch \subseteq Indices
      /\ \A i \in paying : WalletOf(i) # VaultKey
      /\ lamports' = lamports - total
      /\ sol' = Credited(sol, paying, f)
      /\ \E y, z : log' = [log EXCEPT !.sol_paid_mask = @ \cup fresh,
                                      !.transfer_count = y, !.total_sol_distributed = z]
      /\ UNCHANGED <<vault, plan, dist, ata, tokens>>
  BY <1>1 DEF ExecuteSolShares, StillUnpaid
<1>3. log'.sol_paid_mask = log.sol_paid_mask \cup fresh
  BY <1>0, <1>2 DEF ExecutionLog
<1>4. leaving = paying
  BY <1>2
<1>5. BequestsPaid(x)' = BequestsPaid(x)
  BY <1>2, SameBequests
<1>6. CASE x = SOL
  <2>1. /\ Estate(x) = Available /\ Estate(x)' = Available'
        /\ Held(x) = sol /\ Held(x)' = sol'
        /\ SharesPaid(x) = log.sol_paid_mask /\ SharesPaid(x)' = log'.sol_paid_mask
        /\ Snapshot(x) = log.sol_snapshot
    BY <1>6 DEF Estate, Held, SharesPaid, Snapshot
  <2>2. SameBasis(x)
    BY <1>6, BasisOfSol
  <2>3. total \in Nat
    <3>1. bs \in Seq(Beneficiary) /\ log.sol_snapshot \in Nat
      BY <1>0 DEF TypeOK, VaultConfig, ExecutionLog
    <3>2. Len(bs) \in Nat /\ f \in [1..Len(bs) -> Nat]
      BY <3>1, SharesTyped
    <3> HIDE DEF bs, f, paying
    <3> QED
      BY <3>2, SumOverNat
  <2>4. Estate(x)' = Estate(x) - SumOver(Len(vault.beneficiaries), leaving, f)
    <3>1. total = SumOver(Len(vault.beneficiaries), leaving, f)
      BY <1>4
    <3> HIDE DEF total, leaving, f
    <3> QED
      BY <1>0, <1>2, <2>1, <2>3, <3>1
  <2>5. Held(x)' = Credited(Held(x), leaving, f)
    BY <1>2, <1>4, <2>1
  <2>6. /\ fresh \subseteq Indices /\ fresh \cap SharesPaid(x) = {}
        /\ SharesPaid(x)' = SharesPaid(x) \cup fresh
    BY <1>2, <1>3, <2>1
  <2>7. f = SharesOf(vault.beneficiaries, Snapshot(x))
    BY <2>1
  <2>8. leaving = {i \in {k \in fresh : f[k] > 0} : WalletOf(i) # VaultKey}
    OBVIOUS
  <2> HIDE DEF f, fresh, leaving
  <2> QED
    BY <1>2, <1>5, <2>2, <2>4, <2>5, <2>6, <2>7, <2>8, ShareStep, ZenonT(30)
<1>7. CASE x # SOL
  <2>1. x \in Mints
    BY <1>0, <1>7 DEF Assets
  <2>2. AtaBalance(x)' >= AtaBalance(x) /\ tokens'[x] = tokens[x] /\ dist'[x] = dist[x]
    BY <1>0, <1>2, <2>1 DEF AtaBalance
  <2> QED
    BY <1>5, <2>1, <2>2, WaitsMint
<1> QED
  BY <1>6, <1>7

LEMMA BooksTokenShares ==
  ASSUME NEW m \in Mints, NEW batch \in SUBSET (1..MaxBeneficiaries),
         ExecuteTokenShares(m, batch), NEW x, Running(x)
  PROVE  BooksNow(x)'
<1> DEFINE bs == vault.beneficiaries
           f == SharesOf(bs, dist[m].snapshot)
           fresh == batch \ dist[m].paid_mask
           leaving == {i \in {k \in fresh : f[k] > 0} : WalletOf(i) # VaultKey}
           total == SumOver(Len(bs), leaving, f)
<1>0. /\ SolvencyInv /\ LifecycleInv /\ TypeOK /\ TypeOK' /\ x \in Assets
      /\ vault # NoAccount /\ log # NoAccount /\ lamports \in Nat
      /\ \A y \in Mints : AtaBalance(y) \in Nat
  BY RunningTyped
<1>1. Shares(dist[m].snapshot) = f
  BY OwedIs
<1>2. /\ batch \subseteq Indices /\ dist[m] # NoAccount /\ ata[m] # NoAccount
      /\ total <= ata[m]
      /\ ata' = [ata EXCEPT ![m] = @ - total]
      /\ tokens' = [tokens EXCEPT ![m] = Credited(@, leaving, f)]
      /\ dist' = [dist EXCEPT ![m].paid_mask = @ \cup fresh]
      /\ UNCHANGED <<vault, log, plan, lamports, sol>>
  BY <1>1 DEF ExecuteTokenShares, StillUnpaid
<1>3. m # SOL
  BY KeysAssumption
<1>4. BequestsPaid(x)' = BequestsPaid(x)
  BY <1>2, SameBequests
<1>5. dist[m] \in TokenDist /\ dist \in [Mints -> TokenDist \cup {NoAccount}]
  BY <1>0, <1>2 DEF TypeOK
<1>6. /\ dist'[m].paid_mask = dist[m].paid_mask \cup fresh
      /\ dist'[m].snapshot = dist[m].snapshot
      /\ \A y \in Mints : y # m => dist'[y] = dist[y]
  <2> HIDE DEF fresh
  <2>1. dist'[m] = [dist[m] EXCEPT !.paid_mask = @ \cup fresh]
    BY <1>2, <1>5
  <2>2. \A y \in Mints : y # m => dist'[y] = dist[y]
    BY <1>2, <1>5
  <2> QED
    BY <1>5, <2>1, <2>2 DEF TokenDist
<1>7. ata[m] \in Nat /\ ata \in [Mints -> Nat \cup {NoAccount}]
  BY <1>0, <1>2 DEF TypeOK
<1>8. total \in Nat
  <2>1. bs \in Seq(Beneficiary) /\ dist[m].snapshot \in Nat
    BY <1>0, <1>5 DEF TypeOK, VaultConfig, TokenDist
  <2>2. Len(bs) \in Nat /\ f \in [1..Len(bs) -> Nat]
    BY <2>1, SharesTyped
  <2> HIDE DEF bs, f, leaving
  <2> QED
    BY <2>2, SumOverNat
<1>9. tokens'[m] = Credited(tokens[m], leaving, f)
  <2> HIDE DEF leaving, f
  <2> QED
    BY <1>0, <1>2 DEF TypeOK
<1>10. CASE x = m
  <2>1. /\ Estate(x) = ata[m] /\ Estate(x)' = AtaBalance(m)'
        /\ Held(x) = tokens[m] /\ Held(x)' = tokens'[m]
        /\ SharesPaid(x) = dist[m].paid_mask /\ SharesPaid(x)' = dist'[m].paid_mask
        /\ Snapshot(x) = dist[m].snapshot
    BY <1>2, <1>3, <1>10 DEF Estate, AtaBalance, Held, SharesPaid, Snapshot
  <2>2. SameBasis(x)
    BY <1>6, <1>10, BasisOfMint
  <2>3. Estate(x)' = Estate(x) - total
    <3> HIDE DEF total
    <3>1. ata'[m] = ata[m] - total /\ ata'[m] \in Nat
      BY <1>2, <1>7, <1>8
    <3>2. ata'[m] # NoAccount
      BY <3>1, RecordsStay
    <3> QED
      BY <2>1, <3>1, <3>2 DEF AtaBalance
  <2>4. Estate(x)' = Estate(x) - SumOver(Len(vault.beneficiaries), leaving, f)
    BY <2>3
  <2>5. Held(x)' = Credited(Held(x), leaving, f)
    BY <1>9, <2>1
  <2>6. /\ fresh \subseteq Indices /\ fresh \cap SharesPaid(x) = {}
        /\ SharesPaid(x)' = SharesPaid(x) \cup fresh
    BY <1>2, <1>6, <2>1
  <2>7. f = SharesOf(vault.beneficiaries, Snapshot(x))
    BY <2>1
  <2>8. leaving = {i \in {k \in fresh : f[k] > 0} : WalletOf(i) # VaultKey}
    OBVIOUS
  <2> HIDE DEF f, fresh, leaving
  <2> QED
    BY <1>2, <1>4, <2>2, <2>4, <2>5, <2>6, <2>7, <2>8, ShareStep
<1>11. CASE x # m
  <2>1. CASE x = SOL
    <3>1. lamports' >= lamports /\ \A w \in Heirs : sol'[w] = sol[w]
      BY <1>0, <1>2
    <3> QED
      BY <1>2, <1>4, <2>1, <3>1, WaitsSol
  <2>2. CASE x # SOL
    <3>1. x \in Mints
      BY <1>0, <2>2 DEF Assets
    <3>2. ata'[x] = ata[x] /\ tokens'[x] = tokens[x]
      BY <1>0, <1>2, <1>11, <3>1 DEF TypeOK
    <3>3. AtaBalance(x)' >= AtaBalance(x) /\ dist'[x] = dist[x]
      BY <1>0, <1>6, <1>11, <3>1, <3>2 DEF AtaBalance
    <3> QED
      BY <1>4, <3>1, <3>2, <3>3, WaitsMint
  <2> QED
    BY <2>1, <2>2
<1> QED
  BY <1>10, <1>11

\* finalize_execution finds every share and every bequest of SOL paid.
LEMMA BooksFinalize ==
  ASSUME NEW payer \in Payers, FinalizeExecution(payer), NEW x, Running(x)
  PROVE  BooksNow(x)'
<1> DEFINE bs == vault.beneficiaries
           list == Bequests
           e == books[x].estate
           r == Reward(x)
           s == Residual(x)
           ps == SharesPaid(x)
           pb == BequestsPaid(x)
           est == Estate(x)
           late == books[x].late
           held0 == books[x].held
           held == Held(x)
           held2 == Held(x)'
           amt == Lesser(vault.keeper_bounty, Available)
<1>0. /\ SolvencyInv /\ LifecycleInv /\ TypeOK /\ TypeOK' /\ x \in Assets
      /\ vault # NoAccount /\ vault \in VaultConfig /\ log # NoAccount /\ log \in ExecutionLog
      /\ lamports \in Nat /\ lamports' \in Nat /\ Rent \in Nat
      /\ Available = lamports - Rent /\ Available' = lamports' - Rent
      /\ \A m \in Mints : AtaBalance(m) \in Nat
  BY RunningTyped
<1>1. /\ ~vault.executed /\ log.sol_paid_mask = Indices
      /\ vault.has_asset_plan => plan # NoAccount /\ FullPlan
      /\ vault' = [vault EXCEPT !.executed = TRUE, !.active = FALSE]
      /\ log' = [log EXCEPT !.completed = TRUE]
      /\ lamports' = lamports - amt
      /\ sol' = [sol EXCEPT ![payer] = @ + amt]
      /\ UNCHANGED <<plan, dist, ata, tokens>>
  BY DEF FinalizeExecution
<1>2. BequestsPaid(x)' = pb
  BY <1>1, SameBequests
<1>3. CASE x = SOL
  <2>0. Audits /\ BooksNow(x) /\ SameBasis(x)
    BY <1>3, BasisOfSol DEF Running
  <2>1. /\ list \in Seq(AssetAssignment) /\ bs \in Seq(Beneficiary) /\ ValidBeneficiaries(bs)
        /\ r \in Nat /\ est \in Nat /\ held \in [Accounts -> Nat]
    BY <1>0, BasisTyped
  <2>2. /\ e \in Nat /\ late \in BOOLEAN /\ ps \in SUBSET (1..Len(bs))
        /\ held0 \in [Accounts -> Nat]
    BY <2>0, TallyKnown
  <2>3. s = SatSub(AfterOf(list, x, e), r)
    BY DEF Residual
  <2>4. pb = OfMint(list, x)
    <3>1. vault.has_asset_plan <=> plan # NoAccount
      BY <1>0 DEF LifecycleInv, AccountsTogether
    <3>2. CASE plan # NoAccount
      BY <1>1, <3>1, <3>2 DEF BequestsPaid, Bequests, FullPlan, OfMint
    <3>3. CASE plan = NoAccount
      BY <3>3 DEF BequestsPaid, Bequests, OfMint
    <3> QED
      BY <3>2, <3>3
  <2>5. est = Available /\ Estate(x)' = Available' /\ r = vault.keeper_bounty
        /\ held = sol /\ held2 = sol'
        /\ SharesPaid(x)' = log'.sol_paid_mask /\ ps = log.sol_paid_mask
    BY <1>3 DEF Estate, Reward, Held, SharesPaid
  <2>6. log'.sol_paid_mask = log.sol_paid_mask
    BY <1>0, <1>1 DEF ExecutionLog
  <2>7. amt = Lesser(r, est) /\ amt \in Nat
    <3>1. amt = Lesser(r, est)
      BY <2>5
    <3> QED
      BY <2>1, <3>1, SatSubNat
  <2>8. Estate(x)' = est - Lesser(r, est)
    <3> HIDE DEF amt, r, est
    <3> QED
      BY <1>0, <1>1, <2>5, <2>7
  <2>9. \A w \in HeirsOf(bs) : held2[w] = held[w]
    <3>1. \A w \in HeirsOf(bs) : w \in Accounts /\ w # payer
      BY <2>1, HeirsHaveAccounts DEF HeirsOf
    <3>2. sol \in [Accounts -> Nat]
      BY <1>0 DEF TypeOK
    <3> HIDE DEF amt, held, held2, bs
    <3>3. \A w \in Accounts : w # payer => sol'[w] = sol[w]
      BY <1>1, <3>2
    <3> QED
      BY <2>5, <3>1, <3>3
  <2>10. ASSUME books[x].whole
         PROVE  Tally(x, list, bs, e, s, held0, late, ps, pb, TRUE, est - Lesser(r, est), held2)
    <3>1. Tally(x, list, bs, e, s, held0, late, ps, pb, x = SOL /\ vault.executed, est, held)
      BY <2>0, <2>10, TallyKnown
    <3>2. (x = SOL /\ vault.executed) = FALSE
      BY <1>1
    <3>3. Tally(x, list, bs, e, s, held0, late, ps, pb, FALSE, est, held)
      BY <3>1, <3>2
    <3> HIDE DEF list, bs, e, r, s, ps, pb, est, late, held0, held, held2
    <3>4. BountyCase(list, x, bs, e, r, s, ps, pb, late, est, held0, held, held2)
      BY <2>1, <2>2, <2>3, <2>4, <2>9, <3>3 DEF BountyCase
    <3> QED
      BY <3>4, TallyBounty
  <2>11. (late \/ est - Lesser(r, est) > est) = late
    <3> HIDE DEF amt, late, est, r
    <3>1. Lesser(r, est) \in Nat
      BY <2>7
    <3> QED
      BY <2>1, <2>2, <3>1
  <2>12. (x = SOL /\ vault'.executed) = TRUE
    BY <1>0, <1>1, <1>3 DEF VaultConfig
  <2>13. SharesPaid(x)' = ps
    BY <2>5, <2>6
  <2>14. books[x].whole =>
            Tally(x, list, bs, e, s, held0, late \/ Estate(x)' > est, SharesPaid(x)',
                  BequestsPaid(x)', x = SOL /\ vault'.executed, Estate(x)', held2)
    <3> HIDE DEF list, bs, e, s, r, ps, pb, late, held0, held2, est
    <3> QED
      BY <1>2, <2>8, <2>10, <2>11, <2>12, <2>13 DEF pb, ps, est, held2, r
  <2> QED
    BY <1>0, <2>0, <2>2, <2>13, <2>14, Carried
<1>4. CASE x # SOL
  <2>1. x \in Mints
    BY <1>0, <1>4 DEF Assets
  <2>2. AtaBalance(x)' >= AtaBalance(x) /\ tokens'[x] = tokens[x] /\ dist'[x] = dist[x]
    BY <1>0, <1>1, <2>1 DEF AtaBalance
  <2> QED
    BY <1>2, <2>1, <2>2, WaitsMint
<1> QED
  BY <1>3, <1>4

\* begin_token_dist and close_token_dist touch one mint only.
LEMMA BooksOtherDist ==
  ASSUME NEW m \in Mints, BeginTokenDist(m) \/ CloseTokenDist(m), NEW x, x # m, Running(x)
  PROVE  BooksNow(x)'
<1>0. /\ LifecycleInv /\ TypeOK /\ x \in Assets /\ vault \in VaultConfig /\ lamports \in Nat
      /\ \A y \in Mints : AtaBalance(y) \in Nat
  BY RunningTyped
<1>1. /\ UNCHANGED <<log, plan, lamports, sol>>
      /\ \E n : vault' = [vault EXCEPT !.open_token_dists = n]
      /\ \A y \in Mints : y # m => /\ dist'[y] = dist[y] /\ ata'[y] = ata[y]
                                   /\ tokens'[y] = tokens[y]
  <2>1. CASE BeginTokenDist(m)
    BY <1>0, <2>1, BegunDist DEF BeginTokenDist
  <2>2. CASE CloseTokenDist(m)
    BY <1>0, <2>2 DEF CloseTokenDist, TypeOK
  <2> QED
    BY <2>1, <2>2
<1>2. BequestsPaid(x)' = BequestsPaid(x)
  BY <1>1, SameBequests
<1>3. vault'.executed = vault.executed
  BY <1>0, <1>1 DEF VaultConfig
<1>4. CASE x = SOL
  <2>1. lamports' >= lamports /\ \A w \in Heirs : sol'[w] = sol[w]
    BY <1>0, <1>1
  <2> QED
    BY <1>1, <1>2, <1>3, <1>4, <2>1, WaitsSol
<1>5. CASE x # SOL
  <2>1. x \in Mints
    BY <1>0, <1>5 DEF Assets
  <2>2. AtaBalance(x)' >= AtaBalance(x) /\ tokens'[x] = tokens[x] /\ dist'[x] = dist[x]
    BY <1>0, <1>1, <2>1 DEF AtaBalance
  <2> QED
    BY <1>2, <2>1, <2>2, WaitsMint
<1> QED
  BY <1>4, <1>5

\* Transfers into the vault come from nobody the auditor looks at.
LEMMA BooksEnvironment ==
  ASSUME EnvironmentNext \/ UNCHANGED vars, NEW x, Running(x)
  PROVE  BooksNow(x)'
<1>0. /\ TypeOK /\ TypeOK' /\ x \in Assets /\ lamports \in Nat
      /\ \A y \in Mints : AtaBalance(y) \in Nat
  BY RunningTyped
<1>1. UNCHANGED accounts
  BY DEF EnvironmentNext, Tick, DepositSol, CreateVaultAta, DepositTokens, Freeze, Thaw
<1>2. BequestsPaid(x)' = BequestsPaid(x)
  BY <1>1, SameBequests
<1>3. \A w \in Heirs : w \notin Depositors
  BY DEF Heirs
<1>4. Amounts \subseteq Nat
  BY InputsAssumption
<1>5. CASE UNCHANGED <<lamports, ata, sol, tokens>>
  <2>1. lamports' >= lamports /\ (\A w \in Heirs : sol'[w] = sol[w])
    BY <1>0, <1>5
  <2>2. \A y \in Mints : AtaBalance(y)' >= AtaBalance(y) /\ tokens'[y] = tokens[y]
    BY <1>0, <1>5 DEF AtaBalance
  <2> QED
    BY <1>0, <1>1, <1>2, <2>1, <2>2, WaitsSol, WaitsMint DEF Assets
<1>6. ASSUME NEW from \in Depositors, NEW amount \in Amounts, DepositSol(from, amount)
      PROVE  BooksNow(x)'
  <2>1. /\ amount \in Nat /\ lamports' = lamports + amount
        /\ sol' = [sol EXCEPT ![from] = @ - amount] /\ UNCHANGED <<ata, tokens>>
    BY <1>4, <1>6 DEF DepositSol
  <2>2. lamports' >= lamports
    BY <1>0, <2>1
  <2>3. \A w \in Heirs : sol'[w] = sol[w]
    BY <1>0, <1>3, <2>1 DEF TypeOK
  <2>4. \A y \in Mints : AtaBalance(y)' >= AtaBalance(y) /\ tokens'[y] = tokens[y]
    BY <1>0, <2>1 DEF AtaBalance
  <2> QED
    BY <1>0, <1>1, <1>2, <2>2, <2>3, <2>4, WaitsSol, WaitsMint DEF Assets
<1>7. ASSUME NEW m \in Mints, CreateVaultAta(m) PROVE BooksNow(x)'
  <2>1. /\ UNCHANGED <<lamports, sol, tokens>>
        /\ ata[m] = NoAccount /\ ata' = [ata EXCEPT ![m] = 0]
    BY <1>7 DEF CreateVaultAta
  <2>2. lamports' >= lamports /\ (\A w \in Heirs : sol'[w] = sol[w])
    BY <1>0, <2>1
  <2>3. \A y \in Mints : AtaBalance(y)' = AtaBalance(y) /\ tokens'[y] = tokens[y]
    BY <1>0, <2>1, RecordsStay DEF AtaBalance, TypeOK
  <2>4. \A y \in Mints : AtaBalance(y)' >= AtaBalance(y) /\ tokens'[y] = tokens[y]
    BY <1>0, <2>3
  <2> QED
    BY <1>0, <1>1, <1>2, <2>2, <2>4, WaitsSol, WaitsMint DEF Assets
<1>8. ASSUME NEW from \in Depositors, NEW m \in Mints, NEW amount \in Amounts,
             DepositTokens(from, m, amount)
      PROVE  BooksNow(x)'
  <2>1. /\ amount \in Nat /\ UNCHANGED <<lamports, sol>> /\ ata[m] # NoAccount
        /\ tokens' = [tokens EXCEPT ![m][from] = @ - amount]
        /\ ata' = [ata EXCEPT ![m] = @ + amount]
    BY <1>4, <1>8 DEF DepositTokens
  <2>2. ata[m] \in Nat
    BY <1>0, <2>1 DEF TypeOK
  <2>3. lamports' >= lamports /\ (\A w \in Heirs : sol'[w] = sol[w])
    BY <1>0, <2>1
  <2>4. \A y \in Mints : AtaBalance(y)' >= AtaBalance(y)
    <3>1. ASSUME NEW y \in Mints, y # m PROVE AtaBalance(y)' = AtaBalance(y)
      BY <1>0, <2>1, <3>1 DEF AtaBalance, TypeOK
    <3>2. ata'[m] = ata[m] + amount /\ ata'[m] \in Nat
      BY <1>0, <2>1, <2>2 DEF TypeOK
    <3>3. AtaBalance(m)' = ata[m] + amount /\ AtaBalance(m) = ata[m]
      BY <2>1, <3>2, RecordsStay DEF AtaBalance
    <3>4. AtaBalance(m)' >= AtaBalance(m)
      BY <2>1, <2>2, <3>3
    <3>5. ASSUME NEW y \in Mints, y # m PROVE AtaBalance(y)' >= AtaBalance(y)
      <4>1. AtaBalance(y)' = AtaBalance(y) /\ AtaBalance(y) \in Nat
        BY <1>0, <3>1, <3>5
      <4> QED
        BY <4>1
    <3> QED
      BY <3>4, <3>5
  <2>5. ASSUME NEW y \in Mints PROVE \A w \in Heirs : tokens'[y][w] = tokens[y][w]
    <3>1. CASE y # m
      BY <1>0, <2>1, <3>1 DEF TypeOK
    <3>2. CASE y = m
      <4>1. tokens'[m] = [tokens[m] EXCEPT ![from] = @ - amount] /\ tokens[m] \in [Accounts -> Nat]
        BY <1>0, <2>1 DEF TypeOK
      <4>2. \A w : w # from => tokens'[m][w] = tokens[m][w]
        BY <4>1
      <4> QED
        BY <1>3, <3>2, <4>2
    <3> QED
      BY <3>1, <3>2
  <2> QED
    BY <1>0, <1>1, <1>2, <2>3, <2>4, <2>5, WaitsSol, WaitsMint DEF Assets
<1> QED
  BY <1>5, <1>6, <1>7, <1>8 DEF EnvironmentNext, Tick, Freeze, Thaw

\* Owner and agent act before an execution; the owner's core close ends it.
LEMMA OwnerShutOut ==
  ASSUME LifecycleInv, OwnerNext \/ AgentNext, log # NoAccount, vault' # NoAccount
  PROVE  FALSE
<1>1. vault # NoAccount /\ VaultExists
  BY DEF LifecycleInv, AccountsTogether, VaultExists
<1>2. ~NotFrozen
  BY <1>1, OwnerBeforeExecution
<1> QED
  BY <1>1, <1>2, LifeCloseRevoked DEF OwnerNext, AgentNext, InitializeVault, UpdateVault,
     RotateAgent, RecordHeartbeat, SetAssetPlan, UpdateAssetPlan, ClearAssetPlan, RevokeVault,
     WithdrawSolFromVault, WithdrawFromVault, CloseExecutedVaultByOwner, CloseCore,
     OpenForOwner

\* Any step, for an asset that stays open.
LEMMA BooksStay ==
  ASSUME [Next]_vars, NEW x, Running(x)
  PROVE  BooksNow(x)'
<1>0. LifecycleInv /\ log # NoAccount /\ vault' # NoAccount
  BY RunningTyped DEF Running, SameRecords
<1>1. CASE OwnerNext \/ AgentNext
  BY <1>0, <1>1, OwnerShutOut
<1>2. CASE EnvironmentNext \/ UNCHANGED vars
  BY <1>2, BooksEnvironment
<1>3. CASE CrankNext
  <2>1. CASE BeginExecution
    BY <1>0, <2>1 DEF BeginExecution
  <2>2. ASSUME NEW m \in Mints, BeginTokenDist(m) \/ CloseTokenDist(m) PROVE BooksNow(x)'
    <3>1. x # m
      <4>1. m # SOL
        BY KeysAssumption
      <4>2. CASE BeginTokenDist(m)
        BY <4>1, <4>2 DEF Running, IsOpen, BeginTokenDist
      <4>3. CASE CloseTokenDist(m)
        <5>1. dist'[m] = NoAccount
          BY <1>0, <4>3 DEF CloseTokenDist, LifecycleInv, TypeOK
        <5> QED
          BY <4>1, <5>1 DEF Running, IsOpen
      <4> QED
        BY <2>2, <4>2, <4>3
    <3> QED
      BY <2>2, <3>1, BooksOtherDist
  <2>3. ASSUME NEW payer \in Payers, CloseExecutedVault(payer) PROVE FALSE
    BY <1>0, <2>3 DEF CloseExecutedVault, CloseCore
  <2> QED
    BY <1>3, <2>1, <2>2, <2>3, BooksSpecificSol, BooksSpecificAsset, BooksSolShares,
       BooksTokenShares, BooksFinalize DEF CrankNext
<1> QED
  BY <1>1, <1>2, <1>3 DEF Next

\* Only begin_execution and begin_token_dist open anything.
LEMMA BooksOpen ==
  ASSUME SolvencyInv, [Next]_vars, Audits, NEW x \in Assets, ~IsOpen(x), IsOpen(x)'
  PROVE  BooksNow(x)'
<1>0. LifecycleInv /\ TypeOK
  BY DEF SolvencyInv, LedgerInv, LifecycleInv
<1>1. CASE x = SOL
  <2>1. log = NoAccount /\ log' # NoAccount
    BY <1>1 DEF IsOpen
  <2>2. BeginExecution
    BY <2>1 DEF Next, OwnerNext, AgentNext, CrankNext, EnvironmentNext, InitializeVault,
       UpdateVault, RotateAgent, SetAssetPlan, UpdateAssetPlan, ClearAssetPlan,
       WithdrawSolFromVault, WithdrawFromVault, RevokeVault, CloseRevokedVault,
       CloseExecutedVaultByOwner, CloseExecutedVault, CloseCore, RecordHeartbeat,
       BeginTokenDist, ExecuteSpecificAsset, ExecuteSpecificSol, PayableSpecific,
       ExecuteSolShares, ExecuteTokenShares, FinalizeExecution, CloseTokenDist, Tick,
       DepositSol, CreateVaultAta, DepositTokens, Freeze, Thaw
  <2> QED
    BY <1>1, <2>2, OpensSol
<1>2. CASE x # SOL
  <2>1. x \in Mints /\ dist[x] = NoAccount /\ dist'[x] # NoAccount
    BY <1>2 DEF Assets, IsOpen
  <2>2. \E m \in Mints : \/ BeginTokenDist(m) \/ CloseTokenDist(m)
                         \/ \E batch \in SUBSET (1..MaxBeneficiaries) : ExecuteTokenShares(m, batch)
    BY <2>1 DEF Next, OwnerNext, AgentNext, CrankNext, EnvironmentNext, InitializeVault,
       UpdateVault, RotateAgent, SetAssetPlan, UpdateAssetPlan, ClearAssetPlan,
       WithdrawSolFromVault, WithdrawFromVault, RevokeVault, CloseRevokedVault,
       CloseExecutedVaultByOwner, CloseExecutedVault, CloseCore, RecordHeartbeat,
       BeginExecution, ExecuteSpecificAsset, ExecuteSpecificSol,
       ExecuteSolShares, FinalizeExecution, Tick,
       DepositSol, CreateVaultAta, DepositTokens, Freeze, Thaw
  <2>3. ASSUME NEW m \in Mints, NEW batch \in SUBSET (1..MaxBeneficiaries),
               ExecuteTokenShares(m, batch)
        PROVE  FALSE
    <3>1. m # x
      BY <2>1, <2>3 DEF ExecuteTokenShares
    <3>2. dist'[x] = dist[x]
      BY <1>0, <2>1, <2>3, <3>1, TokenSharesTyped
    <3> QED
      BY <2>1, <3>2
  <2>4. ASSUME NEW m \in Mints, CloseTokenDist(m) PROVE FALSE
    <3>1. dist' = [dist EXCEPT ![m] = NoAccount]
      BY <2>4 DEF CloseTokenDist
    <3> QED
      BY <1>0, <2>1, <3>1 DEF TypeOK
  <2>5. ASSUME NEW m \in Mints, BeginTokenDist(m) PROVE m = x
    BY <1>0, <2>1, <2>5, BegunDist
  <2> QED
    BY <2>2, <2>3, <2>4, <2>5, OpensToken
<1> QED
  BY <1>1, <1>2

\* The invariant of the books, with the one of the program it rests on.
LEMMA BooksNext ==
  ASSUME SolvencyInv, BooksInv, [AuditNext]_auditVars
  PROVE  SolvencyInv' /\ BooksInv'
<1>1. [Next]_vars
  BY DEF AuditNext, auditVars
<1>2. SolvencyInv'
  BY <1>1, SolvencyNext
<1>3. LifecycleInv /\ LifecycleInv' /\ TypeOK' /\ SolSolvent'
  BY <1>2 DEF SolvencyInv, LedgerInv, LifecycleInv
<1>4. ASSUME NEW x \in Assets, IsOpen(x)' PROVE BooksNow(x)'
  <2>1. CASE Audits
    <3>1. CASE IsOpen(x)
      <4>1. log # NoAccount /\ vault' # NoAccount
        BY <1>3, <1>4, <3>1 DEF IsOpen, Assets, LifecycleInv, DistsNeedLog, AccountsTogether
      <4>2. SameRecords
        BY <1>1, <1>3, <4>1, RecordsSame
      <4>3. BooksNow(x)
        BY <3>1, BooksKnown DEF BooksInv
      <4> QED
        BY <1>1, <1>3, <1>4, <2>1, <3>1, <4>2, <4>3, BooksStay DEF Running
    <3>2. CASE ~IsOpen(x)
      BY <1>1, <1>4, <2>1, <3>2, BooksOpen
    <3> QED
      BY <3>1, <3>2
  <2>2. CASE UNCHANGED auditVars
    <3>1. UNCHANGED <<vars, books>>
      BY <2>2 DEF auditVars
    <3>2. /\ IsOpen(x)' = IsOpen(x) /\ Bequests' = Bequests /\ Reward(x)' = Reward(x)
          /\ Snapshot(x)' = Snapshot(x) /\ SharesPaid(x)' = SharesPaid(x)
          /\ BequestsPaid(x)' = BequestsPaid(x) /\ Estate(x)' = Estate(x) /\ Held(x)' = Held(x)
      BY <3>1 DEF IsOpen, Bequests, Reward, Snapshot, SharesPaid, BequestsPaid, Estate, Held,
         Available, AtaBalance
    <3>3. BooksNow(x)
      BY <1>4, <3>2, BooksKnown DEF BooksInv
    <3> QED
      BY <3>1, <3>2, <3>3 DEF BooksNow
  <2> QED
    BY <2>1, <2>2 DEF AuditNext, Audits
<1>5. ASSUME NEW x \in Assets PROVE BooksBalance(x)'
  <2>1. CASE IsOpen(x)'
    BY <1>4, <2>1, BooksGoal
  <2>2. CASE ~IsOpen(x)'
    BY <2>2 DEF BooksBalance
  <2> QED
    BY <2>1, <2>2
<1>6. BooksInv'
  BY <1>5 DEF BooksInv, Assets
<1> QED
  BY <1>2, <1>6

LEMMA BooksInit == AuditInit => SolvencyInv /\ BooksInv
<1> SUFFICES ASSUME AuditInit PROVE SolvencyInv /\ BooksInv
  OBVIOUS
<1>1. Init
  BY DEF AuditInit
<1>2. SolvencyInv
  BY <1>1, LedgerInit DEF Init, SolvencyInv, SolSolvent, TokenSolvent
<1>3. \A x \in Assets : ~IsOpen(x)
  BY <1>1 DEF Init, Assets, IsOpen
<1> QED
  BY <1>2, <1>3 DEF BooksInv, BooksBalance

\* At any moment of an execution the vault holds what its bequests and shares
\* leave of the estate at the opening, and every heir has what they granted it;
\* transfers from outside can only add to that.
THEOREM BooksAlwaysBalance == AuditSpec => [](SolvencyInv /\ BooksInv)
<1>1. SolvencyInv /\ BooksInv /\ [AuditNext]_auditVars => (SolvencyInv /\ BooksInv)'
  BY BooksNext
<1> QED
  BY <1>1, BooksInit, PTL DEF AuditSpec

-------------------------------------------------------------------------------
(* The close.                                                                   *)

\* The auditor's dust heir is the program's.
LEMMA DustIsLargest ==
  ASSUME SolvencyInv, vault # NoAccount
  PROVE  DustHeir = LargestWallet
<1> DEFINE bs == vault.beneficiaries
           n == Len(bs)
           bps(i) == bs[i].share_bps
           largest == {i \in 1..n : \A k \in 1..n : bps(i) >= bps(k)}
           top == LargestShareIndex(bs)
           first == CHOOSE i \in largest : \A k \in largest : i <= k
<1>1. bs \in Seq(Beneficiary) /\ ValidBeneficiaries(bs)
  BY DEF SolvencyInv, LedgerInv, LifecycleInv, TypeOK, VaultConfig, VaultInOrder
<1>2. /\ top \in 1..n /\ \A k \in 1..n : bps(k) <= bps(top)
      /\ \A k \in 1..(top - 1) : bps(k) < bps(top)
  BY <1>1, LargestIsAnHeir
<1>3. n \in Nat /\ \A k \in 1..n : bps(k) \in Nat
  <2>1. n \in Nat
    BY <1>1, LenProperties
  <2>2. \A k \in 1..n : bs[k] \in Beneficiary
    BY <1>1, ElementOfSeq
  <2> QED
    BY <2>1, <2>2 DEF Beneficiary
<1>4. DustHeir = bs[first].wallet /\ LargestWallet = bs[top].wallet
  BY DEF DustHeir, LargestWallet, WalletOf, Indices
<1> HIDE DEF bs, n, top, bps
<1>5. top \in largest
  BY <1>2, <1>3
<1>6. ASSUME NEW k \in largest PROVE top <= k
  <2>1. k \in 1..n /\ bps(k) >= bps(top)
    BY <1>2, <1>6
  <2>2. k < top => k \in 1..(top - 1)
    BY <1>2, <1>3, <2>1
  <2>3. ~(bps(k) < bps(top))
    BY <1>2, <1>3, <2>1
  <2> QED
    BY <1>2, <1>3, <2>1, <2>2, <2>3
<1>7. first \in largest /\ \A k \in largest : first <= k
  <2> HIDE DEF largest
  <2> QED
    BY <1>5, <1>6
<1> HIDE DEF first
<1>8. first = top
  BY <1>2, <1>3, <1>5, <1>6, <1>7
<1> QED
  BY <1>4, <1>8

\* What an heir is due, as a function of the terms and of the opening ledger.
LEMMA DueIs ==
  ASSUME NEW x, NEW w
  PROVE  Due(x, w) = DueOf(x, Bequests, vault.beneficiaries, books[x].estate, Reward(x),
                           Residual(x), w, DustHeir)
<1> DEFINE bs == vault.beneficiaries
           e == books[x].estate
           s == Residual(x)
<1>1. /\ AfterBequests(x) = AfterOf(Bequests, x, e) /\ Granted(x) = GrantOf(Bequests, x, e)
      /\ ResidualShares(x) = SharesOf(bs, s)
  BY BooksAreThese DEF Residual
<1>2. GrantedTo(x, w, 1..Len(Bequests)) = GrantedWith(x, Bequests, bs, e, w, 1..Len(Bequests))
  BY <1>1 DEF GrantedTo, GrantedWith, WalletOf
<1>3. SharedTo(x, w, Indices) = SharedWith(bs, s, w, 1..Len(bs))
  BY <1>1 DEF SharedTo, SharedWith, WalletOf, Indices
<1>4. Remainder(x) = SatSub(AfterOf(Bequests, x, e) - SharedOut(bs, s, 1..Len(bs)), Reward(x))
  BY <1>1 DEF Remainder, SharedOut, WalletOf, Indices
<1> QED
  BY <1>2, <1>3, <1>4 DEF Due, DueOf

\* A close sweeps the rest of x to the dust heir, with every share and every
\* bequest of x paid.
LEMMA ClosePays ==
  ASSUME SolvencyInv, NEW x \in Assets, BooksNow(x), vault # NoAccount,
         SharesPaid(x) = Indices, BequestsPaid(x) = OfMint(Bequests, x),
         (x = SOL /\ vault.executed) \/ Reward(x) = 0, books[x].whole,
         NEW w \in Heirs,
         Held(x)'[w] = Held(x)[w] + (IF w = LargestWallet THEN Estate(x) ELSE 0)
  PROVE  Agrees(books[x].late, Held(x)'[w] - books[x].held[w], Due(x, w))
<1> DEFINE bs == vault.beneficiaries
           list == Bequests
           e == books[x].estate
           r == Reward(x)
           s == Residual(x)
           executed == x = SOL /\ vault.executed
           est == Estate(x)
           late == books[x].late
           held0 == books[x].held
           held == Held(x)
           held2 == Held(x)'
           dust == LargestWallet
<1>1. /\ list \in Seq(AssetAssignment) /\ bs \in Seq(Beneficiary) /\ ValidBeneficiaries(bs)
      /\ r \in Nat /\ est \in Nat /\ held \in [Accounts -> Nat]
  BY BasisTyped
<1>2. e \in Nat /\ late \in BOOLEAN /\ held0 \in [Accounts -> Nat]
  BY TallyKnown
<1>3. s = SatSub(AfterOf(list, x, e), r)
  BY DEF Residual
<1>4. executed \in BOOLEAN /\ (executed \/ r = 0)
  BY DEF SolvencyInv, LedgerInv, LifecycleInv, TypeOK, VaultConfig
<1>5. w \in HeirsOf(bs)
  BY BooksAreThese
<1>6. Tally(x, list, bs, e, s, held0, late, 1..Len(bs), OfMint(list, x), executed, est, held)
  BY TallyKnown DEF Indices
<1>7. held2[w] = held[w] + (IF w = dust THEN est ELSE 0)
  OBVIOUS
<1>8. Due(x, w) = DueOf(x, list, bs, e, r, s, w, dust)
  BY DueIs, DustIsLargest
<1> HIDE DEF bs, list, e, r, s, executed, est, late, held0, held, held2, dust
<1>9. CloseCase(list, x, bs, e, r, s, executed, late, est, dust, w, held0, held, held2)
  BY <1>1, <1>2, <1>3, <1>4, <1>5, <1>6, <1>7 DEF CloseCase
<1>10. Agrees(late, held2[w] - held0[w], DueOf(x, list, bs, e, r, s, w, dust))
  BY <1>9, TallyCloses
<1> QED
  BY <1>8, <1>10 DEF late, held2, held0

\* An executed vault has paid every bequest.
LEMMA AllBequestsPaid ==
  ASSUME SolvencyInv, vault # NoAccount, vault.executed, log # NoAccount, NEW x
  PROVE  BequestsPaid(x) = OfMint(Bequests, x)
<1>1. PlanDue = {}
  BY DEF SolvencyInv, LedgerInv, DebtsSettled
<1>2. CASE plan = NoAccount
  BY <1>2 DEF BequestsPaid, Bequests, OfMint
<1>3. CASE plan # NoAccount
  BY <1>1, <1>3 DEF BequestsPaid, Bequests, OfMint, PlanDue
<1> QED
  BY <1>2, <1>3

\* What HeirsPaid asks of a step.
HeirsPaidNow ==
  \A x \in Assets :
      (IsOpen(x) /\ ~IsOpen(x)' /\ books[x].whole) =>
          \A w \in Heirs :
              LET got == Held(x)'[w] - books[x].held[w] IN
              /\ got >= Due(x, w)
              /\ ~books[x].late => got = Due(x, w)

\* close_token_dist is the only instruction that closes a distribution.
LEMMA ClosesToken ==
  ASSUME LifecycleInv, [Next]_vars, NEW m \in Mints, dist[m] # NoAccount, dist'[m] = NoAccount
  PROVE  CloseTokenDist(m)
<1>0. TypeOK
  BY DEF LifecycleInv
<1>1. \E y \in Mints : \/ BeginTokenDist(y) \/ CloseTokenDist(y)
                       \/ \E batch \in SUBSET (1..MaxBeneficiaries) : ExecuteTokenShares(y, batch)
  BY DEF Next, OwnerNext, AgentNext, CrankNext, EnvironmentNext, InitializeVault,
     UpdateVault, RotateAgent, SetAssetPlan, UpdateAssetPlan, ClearAssetPlan,
     WithdrawSolFromVault, WithdrawFromVault, RevokeVault, CloseRevokedVault,
     CloseExecutedVaultByOwner, CloseExecutedVault, CloseCore, RecordHeartbeat,
     BeginExecution, ExecuteSpecificAsset, ExecuteSpecificSol,
     ExecuteSolShares, FinalizeExecution, Tick,
     DepositSol, CreateVaultAta, DepositTokens, Freeze, Thaw
<1>2. ASSUME NEW y \in Mints, BeginTokenDist(y) PROVE FALSE
  <2>1. y # m
    BY <1>2 DEF BeginTokenDist
  <2> QED
    BY <1>2, <2>1, BegunDist
<1>3. ASSUME NEW y \in Mints, NEW batch \in SUBSET (1..MaxBeneficiaries),
             ExecuteTokenShares(y, batch)
      PROVE  FALSE
  BY <1>0, <1>3, TokenSharesTyped, RecordsStay
<1>4. ASSUME NEW y \in Mints, CloseTokenDist(y) PROVE y = m
  BY <1>0, <1>4 DEF CloseTokenDist, TypeOK
<1> QED
  BY <1>1, <1>2, <1>3, <1>4

\* The two core closes are the only instructions that close the ExecutionLog.
LEMMA ClosesLog ==
  ASSUME LifecycleInv, [Next]_vars, log # NoAccount, log' = NoAccount
  PROVE  /\ vault # NoAccount /\ vault.executed
         /\ \E rentTo \in Payers \cup {Owner} : CloseCore(rentTo)
<1>0. TypeOK /\ vault # NoAccount
  BY DEF LifecycleInv, AccountsTogether
<1>1. ASSUME NEW batch \in SUBSET (1..MaxBeneficiaries), ExecuteSolShares(batch) PROVE FALSE
  BY <1>0, <1>1, SolSharesTyped, RecordsStay
<1>2. ASSUME NEW payer \in Payers, FinalizeExecution(payer) PROVE FALSE
  <2>1. log \in ExecutionLog /\ log' = [log EXCEPT !.completed = TRUE]
    BY <1>0, <1>2 DEF FinalizeExecution, TypeOK
  <2>2. log' \in ExecutionLog
    BY <2>1 DEF ExecutionLog
  <2> QED
    BY <2>2, RecordsStay
<1>3. (\E payer \in Payers : CloseExecutedVault(payer)) \/ CloseExecutedVaultByOwner
  BY <1>0, <1>1, <1>2, LifeCloseRevoked DEF Next, OwnerNext, AgentNext, CrankNext,
     EnvironmentNext, InitializeVault,
     UpdateVault, RotateAgent, SetAssetPlan, UpdateAssetPlan, ClearAssetPlan,
     WithdrawSolFromVault, WithdrawFromVault, RevokeVault, CloseRevokedVault,
     RecordHeartbeat, BeginExecution, BeginTokenDist, ExecuteSpecificAsset,
     ExecuteSpecificSol, ExecuteTokenShares, CloseTokenDist, Tick,
     DepositSol, CreateVaultAta, DepositTokens, Freeze, Thaw
<1> QED
  BY <1>0, <1>3 DEF CloseExecutedVault, CloseExecutedVaultByOwner

LEMMA HeirsPaidByClose ==
  ASSUME SolvencyInv, BooksInv, [AuditNext]_auditVars
  PROVE  HeirsPaidNow
<1>0. LifecycleInv /\ TypeOK /\ [Next]_vars
  BY DEF SolvencyInv, LedgerInv, LifecycleInv, AuditNext, auditVars
<1>1. ASSUME NEW x \in Assets, IsOpen(x), ~IsOpen(x)', books[x].whole, NEW w \in Heirs
      PROVE  Agrees(books[x].late, Held(x)'[w] - books[x].held[w], Due(x, w))
  <2>1. BooksNow(x)
    BY <1>1, BooksKnown DEF BooksInv
  <2>2. log # NoAccount /\ vault # NoAccount
    BY <1>0, <1>1 DEF IsOpen, Assets, LifecycleInv, DistsNeedLog, AccountsTogether
  <2>3. w \in Accounts /\ w # VaultKey /\ w # Owner /\ w \notin Payers
    <3>1. vault.beneficiaries \in Seq(Beneficiary)
      BY <1>0, <2>2 DEF TypeOK, VaultConfig
    <3> QED
      BY <1>1, <3>1, BooksAreThese, HeirsHaveAccounts DEF HeirsOf
  <2>4. CASE x = SOL
    <3>1. log' = NoAccount
      BY <1>1, <2>4 DEF IsOpen
    <3>2. vault.executed
      BY <1>0, <2>2, <3>1, ClosesLog
    <3>3. PICK rentTo \in Payers \cup {Owner} : CloseCore(rentTo)
      BY <1>0, <2>2, <3>1, ClosesLog
    <3>4. BequestsPaid(x) = OfMint(Bequests, x)
      BY <2>2, <3>2, AllBequestsPaid
    <3>5. SharesPaid(x) = Indices
      <4>1. SharesPaid(x) = log.sol_paid_mask
        BY <2>4 DEF SharesPaid
      <4>2. SharesPaid(x) \subseteq Indices
        BY <2>1, TallyKnown DEF Indices
      <4>3. SolDue = {}
        BY <2>2, <3>2 DEF SolvencyInv, LedgerInv, DebtsSettled
      <4> QED
        BY <2>2, <4>1, <4>2, <4>3 DEF SolDue
    <3>6. Held(x)'[w] = Held(x)[w] + (IF w = LargestWallet THEN Estate(x) ELSE 0)
      <4> DEFINE dust == IF LargestWallet = VaultKey THEN 0 ELSE Available
      <4>1. sol'[w] = sol[w] + (IF w = LargestWallet THEN dust ELSE 0)
                             + (IF w = rentTo THEN lamports - dust ELSE 0)
        BY <2>3, <3>3 DEF CloseCore
      <4>2. w # rentTo
        BY <2>3
      <4>3. Held(x)'[w] = sol'[w] /\ Held(x)[w] = sol[w] /\ Estate(x) = Available
        BY <2>4 DEF Held, Estate
      <4>4. sol[w] \in Nat /\ Available \in Nat
        BY <1>0, <2>3, AvailableNat DEF TypeOK
      <4>5. w = LargestWallet => dust = Available
        BY <2>3
      <4> HIDE DEF dust
      <4> QED
        BY <4>1, <4>2, <4>3, <4>4, <4>5
    <3> QED
      BY <1>1, <2>1, <2>2, <2>4, <3>2, <3>4, <3>5, <3>6, ClosePays
  <2>5. CASE x # SOL
    <3>1. x \in Mints /\ dist[x] # NoAccount /\ dist'[x] = NoAccount
      BY <1>1, <2>5 DEF Assets, IsOpen
    <3>2. CloseTokenDist(x)
      BY <1>0, <3>1, ClosesToken
    <3>3. /\ vault.executed /\ dist[x].paid_mask = Indices /\ ata[x] # NoAccount
          /\ tokens' = [tokens EXCEPT ![x] =
                 [a \in Accounts |-> @[a] + IF a = LargestWallet THEN ata[x] ELSE 0]]
      BY <3>2 DEF CloseTokenDist
    <3>4. BequestsPaid(x) = OfMint(Bequests, x)
      BY <2>2, <3>3, AllBequestsPaid
    <3>5. SharesPaid(x) = Indices /\ Reward(x) = 0
      BY <2>5, <3>3 DEF SharesPaid, Reward
    <3>6. Held(x)'[w] = Held(x)[w] + (IF w = LargestWallet THEN Estate(x) ELSE 0)
      <4>1. tokens'[x] = [a \in Accounts |->
                              tokens[x][a] + IF a = LargestWallet THEN ata[x] ELSE 0]
        BY <1>0, <3>1, <3>3 DEF TypeOK
      <4>2. Held(x)' = tokens'[x] /\ Held(x) = tokens[x] /\ Estate(x) = ata[x]
        BY <2>5, <3>3 DEF Held, Estate, AtaBalance
      <4> QED
        BY <2>3, <4>1, <4>2
    <3> QED
      BY <1>1, <2>1, <2>2, <3>4, <3>5, <3>6, ClosePays
  <2> QED
    BY <2>4, <2>5
<1> QED
  BY <1>1 DEF HeirsPaidNow, Agrees

\* Whatever the order, batching and repetition of the permissionless cranks
\* (execute_specific_*, execute_*_shares, finalize_execution, close_*), when the
\* accounts of an execution or of a token distribution close every heir holds
\* what the ledger at the opening grants it: its bequests in plan order, its share
\* of the residual and, for the largest share, the rounding remainder.
THEOREM EveryHeirPaid == AuditSpec => HeirsPaid
<1>1. SolvencyInv /\ BooksInv /\ [AuditNext]_auditVars => [HeirsPaidNow]_auditVars
  BY HeirsPaidByClose
<1> QED
  BY <1>1, BooksAlwaysBalance, PTL DEF AuditSpec, HeirsPaid, HeirsPaidNow

===============================================================================
