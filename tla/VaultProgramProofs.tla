-------------------------- MODULE VaultProgramProofs --------------------------
(***************************************************************************)
(* Type correctness of the program, over lemmas on the sums the payments   *)
(* are made of; its life cycle; and that it keeps the promise of           *)
(* Distribution.                                                           *)
(***************************************************************************)
EXTENDS VaultLedger, NaturalsInduction, WellFoundedInduction, SequenceTheorems,
        FiniteSetTheorems, TLAPS

------------------------------------------------------------------------------
(* Sums: they are natural numbers, monotone, additive, and a sum over one  *)
(* index is its summand.  Induction is by sets: a set of numbers that      *)
(* holds 0 and is closed under successor up to n holds 0..n.               *)

\* Every non-empty set of natural numbers has a least element.
LEMMA LeastNat ==
  ASSUME NEW T, T \subseteq Nat, T # {}
  PROVE  \E x \in T : \A y \in T : x <= y
<1> DEFINE R == {ss \in Nat \X Nat : ss[1] < ss[2]}
<1>1. R = OpToRel(<, Nat)
  BY DEF OpToRel
<1>2. IsWellFoundedOn(R, Nat)
  BY <1>1, NatLessThanWellFounded
<1>3. PICK x \in T : \A y \in T : ~(<<y, x>> \in R)
  BY <1>2, WFMin
<1>4. \A y \in T : x <= y
  <2>1. SUFFICES ASSUME NEW y \in T PROVE x <= y
    OBVIOUS
  <2>2. x \in Nat /\ y \in Nat
    OBVIOUS
  <2>3. ~(<<y, x>> \in R)
    BY <1>3
  <2>4. ~(y < x)
    BY <2>2, <2>3
  <2>5. QED
    BY <2>2, <2>4
<1>5. QED
  BY <1>4

\* Induction over the interval 0..n, with the property given as a set.
LEMMA IntervalInduction ==
  ASSUME NEW n \in Nat, NEW Good,
         0 \in Good,
         \A k \in 1..n : k - 1 \in Good => k \in Good
  PROVE  \A k \in 0..n : k \in Good
<1> DEFINE Bad == {k \in 0..n : k \notin Good}
<1>1. SUFFICES ASSUME Bad # {} PROVE FALSE
  OBVIOUS
<1>2. Bad \subseteq Nat
  OBVIOUS
<1>3. PICK m \in Bad : \A y \in Bad : m <= y
  <2> HIDE DEF Bad
  <2>1. QED
    BY <1>1, <1>2, LeastNat
<1>4. m \in 1..n /\ m - 1 \in 0..n /\ ~(m <= m - 1)
  OBVIOUS
<1>5. m - 1 \in Good
  BY <1>3, <1>4
<1>6. QED
  BY <1>4, <1>5

\* The equations a table of prefix sums satisfies.
IsPrefixSums(s, n, f) ==
    /\ s \in [0..n -> Nat]
    /\ s[0] = 0
    /\ \A k \in 1..n : s[k] = s[k - 1] + f[k]

LEMMA PrefixSumsExist ==
  ASSUME NEW n \in Nat, NEW f \in [1..n -> Nat]
  PROVE  \E g : IsPrefixSums(g, n, f)
<1> DEFINE Good == {m \in 0..n : \E g : IsPrefixSums(g, m, f)}
<1>1. 0 \in Good
  <2>1. IsPrefixSums([k \in 0..0 |-> 0], 0, f)
    BY DEF IsPrefixSums
  <2>2. QED
    BY <2>1
<1>2. ASSUME NEW m \in 1..n, m - 1 \in Good PROVE m \in Good
  <2>1. PICK g : IsPrefixSums(g, m - 1, f)
    BY <1>2
  <2>2. IsPrefixSums([k \in 0..m |-> IF k = m THEN g[m - 1] + f[m] ELSE g[k]], m, f)
    <3>1. g[m - 1] \in Nat /\ f[m] \in Nat
      BY <2>1 DEF IsPrefixSums
    <3>2. \A k \in 0..m : k # m => k \in 0..(m - 1)
      OBVIOUS
    <3>3. \A k \in 1..m : k # m => k \in 1..(m - 1) /\ k - 1 \in 0..(m - 1)
      OBVIOUS
    <3>4. QED
      BY <2>1, <3>1, <3>2, <3>3, SMTT(30) DEF IsPrefixSums
  <2>3. QED
    BY <2>2
<1>3. \A m \in 0..n : m \in Good
  <2> HIDE DEF Good
  <2>1. QED
    BY <1>1, <1>2, IntervalInduction
<1>4. QED
  BY <1>3

\* PrefixSums satisfies its own recursive definition.
LEMMA PrefixSumsDef ==
  ASSUME NEW n \in Nat, NEW f \in [1..n -> Nat]
  PROVE  IsPrefixSums(PrefixSums(n, f), n, f)
<1> DEFINE Step(s) == [k \in 0..n |-> IF k = 0 THEN 0 ELSE s[k - 1] + f[k]]
           s == PrefixSums(n, f)
<1>1. PICK g : IsPrefixSums(g, n, f)
  BY PrefixSumsExist
<1>2. g = Step(g)
  BY <1>1 DEF IsPrefixSums
<1>3. s = CHOOSE h : h = Step(h)
  BY DEF PrefixSums
<1>4. s = Step(s)
  BY <1>2, <1>3
<1> HIDE DEF s
<1>5. /\ s = [k \in 0..n |-> s[k]]
      /\ s[0] = 0
      /\ \A k \in 1..n : s[k] = s[k - 1] + f[k]
  BY <1>4
<1> DEFINE Good == {k \in 0..n : s[k] \in Nat}
<1>6. 0 \in Good
  BY <1>5
<1>7. ASSUME NEW k \in 1..n, k - 1 \in Good PROVE k \in Good
  <2>1. s[k - 1] \in Nat /\ f[k] \in Nat
    BY <1>7
  <2>2. s[k] = s[k - 1] + f[k]
    BY <1>5
  <2>3. QED
    BY <2>1, <2>2
<1>8. \A k \in 0..n : k \in Good
  <2> HIDE DEF Good
  <2>1. QED
    BY <1>6, <1>7, IntervalInduction
<1>9. s \in [0..n -> Nat]
  BY <1>5, <1>8
<1>10. QED
  BY <1>5, <1>9 DEF IsPrefixSums, s

\* A sum of natural numbers is a natural number.
LEMMA SumToNat ==
  ASSUME NEW n \in Nat, NEW f \in [1..n -> Nat]
  PROVE  SumTo(n, f) \in Nat
BY PrefixSumsDef DEF SumTo, IsPrefixSums

\* Sums add pointwise.
LEMMA SumToAdd ==
  ASSUME NEW n \in Nat, NEW f \in [1..n -> Nat], NEW g \in [1..n -> Nat]
  PROVE  SumTo(n, [k \in 1..n |-> f[k] + g[k]]) = SumTo(n, f) + SumTo(n, g)
<1> DEFINE h == [k \in 1..n |-> f[k] + g[k]]
           F == PrefixSums(n, f)
           G == PrefixSums(n, g)
           H == PrefixSums(n, h)
           Good == {k \in 0..n : H[k] = F[k] + G[k]}
<1>1. h \in [1..n -> Nat]
  OBVIOUS
<1>2. IsPrefixSums(F, n, f) /\ IsPrefixSums(G, n, g) /\ IsPrefixSums(H, n, h)
  <2> HIDE DEF h
  <2>1. QED
    BY <1>1, PrefixSumsDef
<1> HIDE DEF F, G, H
<1>3. 0 \in Good
  BY <1>2 DEF IsPrefixSums
<1>4. ASSUME NEW k \in 1..n, k - 1 \in Good PROVE k \in Good
  <2>1. /\ F[k - 1] \in Nat /\ G[k - 1] \in Nat /\ f[k] \in Nat /\ g[k] \in Nat
        /\ F[k] = F[k - 1] + f[k] /\ G[k] = G[k - 1] + g[k]
        /\ H[k] = H[k - 1] + h[k]
    BY <1>2, SMTT(30) DEF IsPrefixSums
  <2>2. H[k - 1] = F[k - 1] + G[k - 1] /\ h[k] = f[k] + g[k]
    BY <1>4
  <2>3. QED
    BY <2>1, <2>2
<1>5. \A k \in 0..n : k \in Good
  <2> HIDE DEF Good
  <2>1. QED
    BY <1>3, <1>4, IntervalInduction
<1>6. QED
  BY <1>5 DEF SumTo, F, G, H

LEMMA Distribute ==
  ASSUME NEW x \in Nat, NEW y \in Nat, NEW z \in Nat
  PROVE  x * y \in Nat /\ x * z \in Nat /\ x * (y + z) = x * y + x * z
OBVIOUS

LEMMA AddLeq ==
  ASSUME NEW a \in Nat, NEW b \in Nat, NEW c \in Nat, NEW d \in Nat,
         a <= c, b <= d
  PROVE  a + b <= c + d
OBVIOUS

\* Rounding every summand down rounds the sum down: if d * f[k] <= c * g[k]
\* for every k, then d times the sum of f is at most c times the sum of g.
LEMMA SumToScaled ==
  ASSUME NEW n \in Nat, NEW f \in [1..n -> Nat], NEW g \in [1..n -> Nat],
         NEW c \in Nat, NEW d \in Nat,
         \A k \in 1..n : d * f[k] <= c * g[k]
  PROVE  d * SumTo(n, f) <= c * SumTo(n, g)
<1> DEFINE F == PrefixSums(n, f)
           G == PrefixSums(n, g)
           Good == {k \in 0..n : d * F[k] <= c * G[k]}
<1>1. IsPrefixSums(F, n, f) /\ IsPrefixSums(G, n, g)
  BY PrefixSumsDef
<1> HIDE DEF F, G
<1>2. 0 \in Good
  <2>1. F[0] = 0 /\ G[0] = 0
    BY <1>1 DEF IsPrefixSums
  <2>2. QED
    BY <2>1
<1>3. ASSUME NEW k \in 1..n, k - 1 \in Good PROVE k \in Good
  <2>1. /\ F[k - 1] \in Nat /\ G[k - 1] \in Nat /\ f[k] \in Nat /\ g[k] \in Nat
        /\ F[k] = F[k - 1] + f[k] /\ G[k] = G[k - 1] + g[k]
    BY <1>1, SMTT(30) DEF IsPrefixSums
  <2>2. d * F[k - 1] <= c * G[k - 1] /\ d * f[k] <= c * g[k]
    BY <1>3
  <2>3. /\ d * F[k - 1] \in Nat /\ d * f[k] \in Nat
        /\ d * (F[k - 1] + f[k]) = d * F[k - 1] + d * f[k]
    BY <2>1, Distribute, Zenon
  <2>4. /\ c * G[k - 1] \in Nat /\ c * g[k] \in Nat
        /\ c * (G[k - 1] + g[k]) = c * G[k - 1] + c * g[k]
    <3>1. c \in Nat /\ G[k - 1] \in Nat /\ g[k] \in Nat
      BY <2>1
    <3> HIDE DEF Good
    <3>2. QED
      BY ONLY <3>1, Distribute, Zenon
  <2>5. d * F[k - 1] + d * f[k] <= c * G[k - 1] + c * g[k]
    BY <2>2, <2>3, <2>4, AddLeq, Zenon
  <2>6. d * F[k] <= c * G[k]
    BY <2>1, <2>3, <2>4, <2>5, Zenon
  <2>7. QED
    BY <2>6
<1>4. \A k \in 0..n : k \in Good
  <2> HIDE DEF Good
  <2>1. QED
    BY <1>2, <1>3, IntervalInduction
<1>5. QED
  BY <1>4 DEF SumTo, F, G

\* A sum with one summand that is not 0 is that summand.
LEMMA SumToSingle ==
  ASSUME NEW n \in Nat, NEW f \in [1..n -> Nat], NEW j \in 1..n,
         \A k \in 1..n : k # j => f[k] = 0
  PROVE  SumTo(n, f) = f[j]
<1> DEFINE F == PrefixSums(n, f)
           Good == {k \in 0..n : F[k] = IF j <= k THEN f[j] ELSE 0}
<1>1. IsPrefixSums(F, n, f)
  BY PrefixSumsDef
<1> HIDE DEF F
<1>2. 0 \in Good
  BY <1>1 DEF IsPrefixSums
<1>3. ASSUME NEW k \in 1..n, k - 1 \in Good PROVE k \in Good
  <2>1. F[k] = F[k - 1] + f[k] /\ f[j] \in Nat /\ f[k] \in Nat /\ F[k - 1] \in Nat
    BY <1>1 DEF IsPrefixSums
  <2>2. F[k - 1] = IF j <= k - 1 THEN f[j] ELSE 0
    BY <1>3
  <2>3. CASE j = k
    BY <2>1, <2>2, <2>3
  <2>4. CASE j < k
    BY <2>1, <2>2, <2>4
  <2>5. CASE j > k
    BY <2>1, <2>2, <2>5
  <2>6. QED
    BY <2>3, <2>4, <2>5
<1>4. \A k \in 0..n : k \in Good
  <2> HIDE DEF Good
  <2>1. QED
    BY <1>2, <1>3, IntervalInduction
<1>5. QED
  BY <1>4 DEF SumTo, F

\* A sum over an empty list, and a sum of zeros.
LEMMA SumToZero ==
  ASSUME NEW n \in Nat, NEW f \in [1..n -> Nat], \A k \in 1..n : f[k] = 0
  PROVE  SumTo(n, f) = 0
<1>1. \A k \in 1..n : 1 * f[k] <= 0 * f[k]
  OBVIOUS
<1>2. 1 * SumTo(n, f) <= 0 * SumTo(n, f)
  BY <1>1, SumToScaled
<1>3. QED
  BY <1>2, SumToNat

-----------------------------------------------------------------------------
(* Sums over sets of indices.                                               *)

Restricted(n, S, f) == [k \in 1..n |-> IF k \in S THEN f[k] ELSE 0]

LEMMA SumOverIs ==
  ASSUME NEW n \in Nat, NEW f \in [1..n -> Nat], NEW S
  PROVE  /\ SumOver(n, S, f) = SumTo(n, Restricted(n, S, f))
         /\ Restricted(n, S, f) \in [1..n -> Nat]
BY DEF SumOver, Restricted

\* A sum over a set of indices is a natural number.
LEMMA SumOverNat ==
  ASSUME NEW n \in Nat, NEW f \in [1..n -> Nat], NEW S
  PROVE  SumOver(n, S, f) \in Nat
BY SumOverIs, SumToNat

\* The sum over a set is the sum over a part of it plus the sum over the rest.
LEMMA SumOverSplit ==
  ASSUME NEW n \in Nat, NEW f \in [1..n -> Nat], NEW S, NEW T, S \subseteq T
  PROVE  SumOver(n, T, f) = SumOver(n, S, f) + SumOver(n, T \ S, f)
<1> DEFINE s == Restricted(n, S, f)
           r == Restricted(n, T \ S, f)
<1>1. s \in [1..n -> Nat] /\ r \in [1..n -> Nat]
  BY SumOverIs
<1>2. Restricted(n, T, f) = [k \in 1..n |-> s[k] + r[k]]
  <2>1. ASSUME NEW k \in 1..n
        PROVE  (IF k \in T THEN f[k] ELSE 0) = s[k] + r[k]
    <3>1. f[k] \in Nat
      OBVIOUS
    <3>2. QED
      BY <3>1 DEF Restricted
  <2>2. QED
    BY <2>1 DEF Restricted
<1>3. SumTo(n, [k \in 1..n |-> s[k] + r[k]]) = SumTo(n, s) + SumTo(n, r)
  <2> HIDE DEF s, r
  <2>1. QED
    BY <1>1, SumToAdd
<1>4. QED
  BY <1>2, <1>3, SumOverIs

\* A sum over a part of a set is at most the sum over the set.
LEMMA SumOverSubset ==
  ASSUME NEW n \in Nat, NEW f \in [1..n -> Nat], NEW S, NEW T, S \subseteq T
  PROVE  SumOver(n, S, f) <= SumOver(n, T, f)
<1>1. /\ SumOver(n, T, f) = SumOver(n, S, f) + SumOver(n, T \ S, f)
      /\ SumOver(n, S, f) \in Nat /\ SumOver(n, T \ S, f) \in Nat
  BY SumOverSplit, SumOverNat
<1>2. QED
  BY <1>1

\* The sum over one index.
LEMMA SumOverSingle ==
  ASSUME NEW n \in Nat, NEW f \in [1..n -> Nat], NEW j \in 1..n
  PROVE  SumOver(n, {j}, f) = f[j]
<1> DEFINE s == Restricted(n, {j}, f)
<1>1. s \in [1..n -> Nat]
  BY SumOverIs
<1>2. (\A k \in 1..n : k # j => s[k] = 0) /\ s[j] = f[j]
  BY DEF Restricted
<1>3. SumTo(n, s) = s[j]
  <2> HIDE DEF s
  <2>1. QED
    BY <1>1, <1>2, SumToSingle
<1>4. QED
  BY <1>2, <1>3, SumOverIs

\* The sum over indices outside the list.
LEMMA SumOverNone ==
  ASSUME NEW n \in Nat, NEW f \in [1..n -> Nat], NEW S, S \cap (1..n) = {}
  PROVE  SumOver(n, S, f) = 0
<1> DEFINE s == Restricted(n, S, f)
<1>1. s \in [1..n -> Nat]
  BY SumOverIs
<1>2. \A k \in 1..n : s[k] = 0
  BY DEF Restricted
<1>3. SumTo(n, s) = 0
  <2> HIDE DEF s
  <2>1. QED
    BY <1>1, <1>2, SumToZero
<1>4. QED
  BY <1>3, SumOverIs

\* Shares that are rounded down, over any set of indices, stay within the whole.
LEMMA SumOverScaled ==
  ASSUME NEW n \in Nat, NEW f \in [1..n -> Nat], NEW g \in [1..n -> Nat],
         NEW c \in Nat, NEW d \in Nat, NEW S,
         \A k \in 1..n : d * f[k] <= c * g[k]
  PROVE  d * SumOver(n, S, f) <= c * SumTo(n, g)
<1> DEFINE s == Restricted(n, S, f)
<1>1. s \in [1..n -> Nat]
  BY SumOverIs
<1>2. ASSUME NEW k \in 1..n PROVE d * s[k] <= c * g[k]
  <2>1. CASE k \in S
    BY <2>1 DEF Restricted
  <2>2. CASE k \notin S
    <3>1. s[k] = 0 /\ g[k] \in Nat
      BY <2>2 DEF Restricted
    <3>2. c * g[k] \in Nat
      BY <3>1, Distribute
    <3>3. d * s[k] = 0
      BY <3>1
    <3>4. QED
      BY <3>2, <3>3
  <2>3. QED
    BY <2>1, <2>2
<1>3. d * SumTo(n, s) <= c * SumTo(n, g)
  <2> HIDE DEF s
  <2>1. QED
    BY <1>1, <1>2, SumToScaled
<1>4. QED
  BY <1>3, SumOverIs

\* Indices whose summand is zero may be left out of a sum.
LEMMA SumOverPositive ==
  ASSUME NEW n \in Nat, NEW f \in [1..n -> Nat], NEW S
  PROVE  SumOver(n, {k \in S : f[k] > 0}, f) = SumOver(n, S, f)
<1>1. Restricted(n, {k \in S : f[k] > 0}, f) = Restricted(n, S, f)
  BY DEF Restricted
<1>2. QED
  BY <1>1, SumOverIs

------------------------------------------------------------------------------
(* Instructions.                                                           *)

\* The shares of any snapshot are natural numbers.
LEMMA SharesNat ==
  ASSUME TypeOK, vault # NoAccount, NEW snapshot \in Nat
  PROVE  /\ Len(vault.beneficiaries) \in Nat
         /\ Shares(snapshot) \in [1..Len(vault.beneficiaries) -> Nat]
<1>1. vault.beneficiaries \in Seq(Beneficiary)
  BY DEF TypeOK, VaultConfig
<1>2. \A i \in Indices : vault.beneficiaries[i].share_bps \in Nat
  <2>1. \A i \in Indices : vault.beneficiaries[i] \in Beneficiary
    BY <1>1, ElementOfSeq DEF Indices
  <2>2. QED
    BY <2>1 DEF Beneficiary
<1>3. \A b \in Nat : Share(snapshot, b) \in Nat
  BY DEF Share
<1>4. Len(vault.beneficiaries) \in Nat
  BY <1>1, LenProperties
<1>5. \A i \in Indices : Share(snapshot, vault.beneficiaries[i].share_bps) \in Nat
  BY <1>2, <1>3
<1>6. QED
  BY <1>4, <1>5 DEF Shares, Indices

\* So are the amounts of a plan.
LEMMA AmountsNat ==
  ASSUME TypeOK, plan # NoAccount
  PROVE  /\ Len(plan.assignments) \in Nat
         /\ AssignedAmounts(plan.assignments) \in [1..Len(plan.assignments) -> Nat]
<1>1. plan.assignments \in Seq(AssetAssignment)
  BY DEF TypeOK, AssetPlan
<1>2. \A k \in 1..Len(plan.assignments) : plan.assignments[k] \in AssetAssignment
  BY <1>1, ElementOfSeq
<1>3. \A k \in 1..Len(plan.assignments) : plan.assignments[k].amount \in Nat
  BY <1>2 DEF AssetAssignment
<1>4. QED
  BY <1>1, <1>3, LenProperties DEF AssignedAmounts

\* What a plan bequeaths of one mint is a natural number.
LEMMA SpecificSumNat ==
  ASSUME TypeOK, vault.has_asset_plan => plan # NoAccount, NEW mint
  PROVE  SpecificSum(mint) \in Nat
<1>1. CASE vault.has_asset_plan
  BY <1>1, AmountsNat, SumOverNat DEF SpecificSum
<1>2. CASE ~vault.has_asset_plan
  BY <1>2 DEF SpecificSum
<1>3. QED
  BY <1>1, <1>2

\* Crediting the paid beneficiaries keeps a ledger a ledger.
LEMMA CreditedNat ==
  ASSUME TypeOK, vault # NoAccount, NEW held \in [Accounts -> Nat], NEW paid,
         NEW amounts \in [1..Len(vault.beneficiaries) -> Nat]
  PROVE  Credited(held, paid, amounts) \in [Accounts -> Nat]
<1>1. Len(vault.beneficiaries) \in Nat
  BY SharesNat
<1>2. \A S : SumOver(Len(vault.beneficiaries), S, amounts) \in Nat
  BY <1>1, SumOverNat
<1>3. QED
  BY <1>2 DEF Credited

\* saturating_sub and min stay within their arguments.
LEMMA SatSubNat ==
  ASSUME NEW a \in Nat, NEW b \in Nat
  PROVE  /\ SatSub(a, b) \in Nat /\ SatSub(a, b) <= a
         /\ Lesser(a, b) \in Nat /\ Lesser(a, b) <= a /\ Lesser(a, b) <= b
BY DEF SatSub, Lesser

\* What lies above the rent is a natural number.
LEMMA AvailableNat ==
  ASSUME TypeOK
  PROVE  Available \in Nat /\ Available <= lamports
BY SatSubNat, BoundsAssumption DEF Available, TypeOK

\* Adding to one entry of a ledger keeps it a ledger.
LEMMA AddAt ==
  ASSUME NEW S, NEW f \in [S -> Nat], NEW x, NEW v \in Nat
  PROVE  [f EXCEPT ![x] = @ + v] \in [S -> Nat]
<1>1. [f EXCEPT ![x] = @ + v] = [y \in S |-> IF y = x THEN f[y] + v ELSE f[y]]
  BY Zenon
<1>2. \A y \in S : (IF y = x THEN f[y] + v ELSE f[y]) \in Nat
  OBVIOUS
<1>3. QED
  BY <1>1, <1>2

\* A payment clamped to what is available leaves the balance typed.
LEMMA LesserAvailable ==
  ASSUME TypeOK, NEW x \in Nat
  PROVE  Lesser(x, Available) \in Nat /\ Lesser(x, Available) <= lamports
<1>1. Available \in Nat /\ Available <= lamports /\ lamports \in Nat
  BY AvailableNat DEF TypeOK
<1>2. Lesser(x, Available) \in Nat /\ Lesser(x, Available) <= Available
  BY <1>1, SatSubNat
<1>3. QED
  BY <1>1, <1>2

USE DEF accounts, balances, vars

\* initialize_vault.
LEMMA TypeInitialize ==
  ASSUME TypeOK, NEW agent \in Agents, NEW interval \in IntervalInputs,
         NEW grace \in GraceInputs, NEW bs \in BeneficiaryInputs,
         NEW mutable \in BOOLEAN, NEW bounty \in BountyInputs,
         InitializeVault(agent, interval, grace, bs, mutable, bounty)
  PROVE  TypeOK'
<1>1. /\ interval \in Nat /\ grace \in Nat /\ bounty \in Nat
      /\ bs \in Seq(Beneficiary)
  BY InputsAssumption
<1>2. vault' \in VaultConfig
  BY <1>1 DEF InitializeVault, VaultConfig
<1>3. SatSub(Rent, lamports) \in Nat /\ CreationFee \in Nat
  BY SatSubNat, BoundsAssumption DEF TypeOK
<1>4. sol' \in [Accounts -> Nat] /\ lamports' \in Nat
  BY <1>3 DEF InitializeVault, TypeOK, Accounts
<1>5. QED
  BY <1>2, <1>4 DEF InitializeVault, TypeOK

\* update_vault.
LEMMA TypeUpdate ==
  ASSUME TypeOK, NEW interval \in IntervalInputs \cup {NoChange},
         NEW grace \in GraceInputs \cup {NoChange},
         NEW bs \in BeneficiaryInputs \cup {NoChange},
         UpdateVault(interval, grace, bs)
  PROVE  TypeOK'
<1>1. /\ interval # NoChange => interval \in Nat
      /\ grace # NoChange => grace \in Nat
      /\ bs # NoChange => bs \in Seq(Beneficiary)
  BY InputsAssumption
<1>2. vault \in VaultConfig
  BY DEF UpdateVault, OpenForOwner, VaultExists, TypeOK
<1>3. vault' \in VaultConfig
  BY <1>1, <1>2 DEF UpdateVault, VaultConfig
<1>4. QED
  BY <1>3 DEF UpdateVault, TypeOK

\* The other instructions of the owner.
LEMMA TypeOwner ==
  ASSUME TypeOK,
         \/ \E agent \in Agents : RecordHeartbeat(agent) \/ RotateAgent(agent)
         \/ RevokeVault \/ CloseRevokedVault \/ ClearAssetPlan
         \/ \E assignments \in PlanInputs :
                SetAssetPlan(assignments) \/ UpdateAssetPlan(assignments)
         \/ \E amount \in Amounts : WithdrawSolFromVault(amount)
         \/ \E m \in Mints, amount \in Amounts : WithdrawFromVault(m, amount)
  PROVE  TypeOK'
<1>1. ASSUME NEW agent \in Agents, RecordHeartbeat(agent) PROVE TypeOK'
  BY <1>1 DEF RecordHeartbeat, TypeOK
<1>2. ASSUME NEW agent \in Agents, RotateAgent(agent) PROVE TypeOK'
  <2>1. vault' \in VaultConfig
    BY <1>2 DEF RotateAgent, OpenForOwner, VaultExists, TypeOK, VaultConfig
  <2>2. QED
    BY <1>2, <2>1 DEF RotateAgent, TypeOK
<1>3. CASE RevokeVault \/ CloseRevokedVault
  <2>1. sol' \in [Accounts -> Nat] /\ lamports' \in Nat
    BY <1>3 DEF RevokeVault, CloseRevokedVault, TypeOK, Accounts
  <2>2. QED
    BY <1>3, <2>1 DEF RevokeVault, PlanClosed, CloseRevokedVault, TypeOK
<1>4. ASSUME ClearAssetPlan \/ \E assignments \in PlanInputs :
                SetAssetPlan(assignments) \/ UpdateAssetPlan(assignments)
      PROVE  TypeOK'
  <2>1. vault' \in VaultConfig
    BY <1>4 DEF ClearAssetPlan, SetAssetPlan, UpdateAssetPlan, OpenForOwner,
                VaultExists, TypeOK, VaultConfig
  <2>2. plan' \in AssetPlan \cup {NoAccount}
    BY <1>4, InputsAssumption
       DEF ClearAssetPlan, SetAssetPlan, UpdateAssetPlan, NewPlan, AssetPlan
  <2>3. QED
    BY <1>4, <2>1, <2>2 DEF ClearAssetPlan, SetAssetPlan, UpdateAssetPlan, TypeOK
<1>5. ASSUME NEW amount \in Amounts, WithdrawSolFromVault(amount) PROVE TypeOK'
  <2>1. amount \in Nat /\ Rent \in Nat
    BY InputsAssumption, BoundsAssumption
  <2>2. sol' \in [Accounts -> Nat] /\ lamports' \in Nat
    BY <1>5, <2>1 DEF WithdrawSolFromVault, TypeOK, Accounts
  <2>3. QED
    BY <1>5, <2>2 DEF WithdrawSolFromVault, TypeOK
<1>6. ASSUME NEW m \in Mints, NEW amount \in Amounts, WithdrawFromVault(m, amount)
      PROVE  TypeOK'
  <2>1. amount \in Nat
    BY InputsAssumption
  <2>2. tokens' \in [Mints -> [Accounts -> Nat]]
    BY <1>6, <2>1 DEF WithdrawFromVault, TypeOK, Accounts
  <2>3. ata' \in [Mints -> Nat \cup {NoAccount}]
    BY <1>6, <2>1 DEF WithdrawFromVault, TypeOK
  <2>4. QED
    BY <1>6, <2>2, <2>3 DEF WithdrawFromVault, TypeOK
<1>7. QED
  BY <1>1, <1>2, <1>3, <1>4, <1>5, <1>6

\* The clock, the transfers into the vault and the issuers.
LEMMA TypeEnvironment ==
  ASSUME TypeOK, EnvironmentNext
  PROVE  TypeOK'
<1>1. CASE Tick
  BY <1>1 DEF Tick, TypeOK
<1>2. ASSUME NEW from \in Depositors, NEW amount \in Amounts, DepositSol(from, amount)
      PROVE  TypeOK'
  <2>1. amount \in Nat /\ from \in Accounts
    BY InputsAssumption
  <2>2. sol' \in [Accounts -> Nat] /\ lamports' \in Nat
    BY <1>2, <2>1 DEF DepositSol, TypeOK
  <2>3. QED
    BY <1>2, <2>2 DEF DepositSol, TypeOK
<1>3. ASSUME NEW m \in Mints, CreateVaultAta(m) PROVE TypeOK'
  BY <1>3 DEF CreateVaultAta, TypeOK
<1>4. ASSUME NEW from \in Depositors, NEW m \in Mints, NEW amount \in Amounts,
             DepositTokens(from, m, amount)
      PROVE  TypeOK'
  <2>1. amount \in Nat /\ from \in Accounts
    BY InputsAssumption
  <2>2. tokens' \in [Mints -> [Accounts -> Nat]]
    BY <1>4, <2>1 DEF DepositTokens, TypeOK
  <2>3. ata' \in [Mints -> Nat \cup {NoAccount}]
    BY <1>4, <2>1 DEF DepositTokens, TypeOK
  <2>4. QED
    BY <1>4, <2>2, <2>3 DEF DepositTokens, TypeOK
<1>5. ASSUME NEW m \in Freezable, Freeze(m) \/ Thaw(m) PROVE TypeOK'
  BY <1>5, InputsAssumption DEF Freeze, Thaw, TypeOK
<1>6. QED
  BY <1>1, <1>2, <1>3, <1>4, <1>5 DEF EnvironmentNext

\* begin_execution and begin_token_dist.
LEMMA TypeBegin ==
  ASSUME TypeOK, BeginExecution \/ \E m \in Mints : BeginTokenDist(m)
  PROVE  TypeOK'
<1>1. CASE BeginExecution
  <2>1. vault.keeper_bounty \in Nat
    BY <1>1 DEF BeginExecution, VaultExists, TypeOK, VaultConfig
  <2>2. SatSub(SatSub(Available, SpecificSum(SOL)), vault.keeper_bounty) \in Nat
    BY <1>1, <2>1, SpecificSumNat, AvailableNat, SatSubNat DEF BeginExecution
  <2>3. log' \in ExecutionLog
    BY <1>1, <2>2 DEF BeginExecution, SolResidual, ExecutionLog, TypeOK
  <2>4. QED
    BY <1>1, <2>3 DEF BeginExecution, TypeOK
<1>2. ASSUME NEW m \in Mints, BeginTokenDist(m) PROVE TypeOK'
  <2>1. AtaBalance(m) \in Nat
    BY DEF AtaBalance, TypeOK
  <2>2. SatSub(AtaBalance(m), SpecificSum(m)) \in Nat
    BY <1>2, <2>1, SpecificSumNat, SatSubNat DEF BeginTokenDist
  <2>3. [snapshot |-> SatSub(AtaBalance(m), SpecificSum(m)), paid_mask |-> {}]
            \in TokenDist
    BY <2>2 DEF TokenDist
  <2>4. dist' \in [Mints -> TokenDist \cup {NoAccount}]
    BY <1>2, <2>3 DEF BeginTokenDist, TokenResidual, TypeOK
  <2>5. vault' \in VaultConfig
    <3>1. vault \in VaultConfig
      BY <1>2 DEF BeginTokenDist, TypeOK
    <3>2. QED
      BY <1>2, <3>1 DEF BeginTokenDist, VaultConfig
  <2>6. QED
    BY <1>2, <2>4, <2>5 DEF BeginTokenDist, TypeOK
<1>3. QED
  BY <1>1, <1>2

\* The two payments of a specific bequest.
LEMMA TypeSpecific ==
  ASSUME TypeOK,
         \/ \E m \in Mints : \E j \in 1..MaxAssignments : ExecuteSpecificAsset(m, j)
         \/ \E j \in 1..MaxAssignments : ExecuteSpecificSol(j)
  PROVE  TypeOK'
<1>0. ASSUME NEW mint, NEW j \in Nat, PayableSpecific(j, mint),
             plan' = [plan EXCEPT !.paid_mask = @ \cup {j}]
      PROVE  plan' \in AssetPlan /\ plan.assignments[j].amount \in Nat
  <2>1. plan \in AssetPlan
    BY <1>0 DEF PayableSpecific, TypeOK
  <2>2. j \in 1..Len(plan.assignments)
    BY <1>0 DEF PayableSpecific, OfMint
  <2>3. plan.assignments[j] \in AssetAssignment
    BY <2>1, <2>2, ElementOfSeq DEF AssetPlan
  <2>4. QED
    BY <1>0, <2>1, <2>3 DEF AssetPlan, AssetAssignment
<1>1. ASSUME NEW m \in Mints, NEW j \in 1..MaxAssignments, ExecuteSpecificAsset(m, j)
      PROVE  TypeOK'
  <2>0. j \in Nat
    BY BoundsAssumption
  <2>1. plan' \in AssetPlan /\ plan.assignments[j].amount \in Nat
    BY <1>0, <1>1, <2>0 DEF ExecuteSpecificAsset
  <2>2. ata[m] \in Nat
    BY <1>1 DEF ExecuteSpecificAsset, TypeOK
  <2>3. PICK amt : /\ amt = Lesser(plan.assignments[j].amount, ata[m])
                   /\ amt \in Nat /\ amt <= ata[m]
    BY <2>1, <2>2, SatSubNat
  <2>4. ata' \in [Mints -> Nat \cup {NoAccount}]
    BY <1>1, <2>2, <2>3 DEF ExecuteSpecificAsset, TypeOK
  <2>5. tokens' \in [Mints -> [Accounts -> Nat]]
    <3> DEFINE w == WalletOf(plan.assignments[j].beneficiary_index)
    <3>1. tokens[m] \in [Accounts -> Nat]
      BY DEF TypeOK
    <3>2. [tokens[m] EXCEPT ![w] = @ + amt] \in [Accounts -> Nat]
      BY <2>3, <3>1, AddAt
    <3>3. tokens' = [tokens EXCEPT ![m] = [tokens[m] EXCEPT ![w] = @ + amt]]
      BY <1>1, <2>3 DEF ExecuteSpecificAsset
    <3> HIDE DEF w
    <3>4. QED
      BY <3>2, <3>3 DEF TypeOK
  <2>6. QED
    BY <1>1, <2>1, <2>4, <2>5 DEF ExecuteSpecificAsset, TypeOK
<1>2. ASSUME NEW j \in 1..MaxAssignments, ExecuteSpecificSol(j) PROVE TypeOK'
  <2>0. j \in Nat
    BY BoundsAssumption
  <2>1. plan' \in AssetPlan /\ plan.assignments[j].amount \in Nat
    BY <1>0, <1>2, <2>0 DEF ExecuteSpecificSol
  <2>3. PICK amt : /\ amt = Lesser(plan.assignments[j].amount, Available)
                   /\ amt \in Nat /\ amt <= lamports
    BY <2>1, LesserAvailable
  <2>4. sol' \in [Accounts -> Nat] /\ lamports' \in Nat
    <3>1. /\ lamports' = lamports - amt
          /\ sol' = [sol EXCEPT
                 ![WalletOf(plan.assignments[j].beneficiary_index)] = @ + amt]
      BY <1>2, <2>3 DEF ExecuteSpecificSol
    <3>2. lamports \in Nat /\ sol \in [Accounts -> Nat]
      BY DEF TypeOK
    <3>3. QED
      BY <2>3, <3>1, <3>2, AddAt
  <2>5. QED
    BY <1>2, <2>1, <2>4 DEF ExecuteSpecificSol, TypeOK
<1>3. QED
  BY <1>1, <1>2

\* A batch of SOL shares: the debit check makes the subtraction safe.
LEMMA SolSharesTyped ==
  ASSUME TypeOK, NEW batch \in SUBSET (1..MaxBeneficiaries), ExecuteSolShares(batch)
  PROVE  /\ log' \in ExecutionLog
         /\ sol' \in [Accounts -> Nat] /\ lamports' \in Nat
<1>0. batch \subseteq Nat
  BY BoundsAssumption
<1> DEFINE n == Len(vault.beneficiaries)
           shares == Shares(log.sol_snapshot)
           fresh == StillUnpaid(batch, log.sol_paid_mask)
           paying == {i \in fresh : shares[i] > 0}
           total == SumOver(n, paying, shares)
<1>1. log \in ExecutionLog
  BY DEF ExecuteSolShares, TypeOK
<1>2. log.sol_snapshot \in Nat
  BY <1>1 DEF ExecutionLog
<1>3. n \in Nat /\ shares \in [1..n -> Nat]
  BY <1>2, SharesNat DEF ExecuteSolShares
<1>4. total \in Nat
  BY <1>3, SumOverNat
<1>5. Credited(sol, paying, shares) \in [Accounts -> Nat]
  BY <1>3, CreditedNat DEF ExecuteSolShares, TypeOK
<1>6. /\ total <= lamports
      /\ lamports' = lamports - total
      /\ sol' = Credited(sol, paying, shares)
      /\ log' = [log EXCEPT !.sol_paid_mask = @ \cup fresh,
                           !.transfer_count = @ + Cardinality(paying),
                           !.total_sol_distributed = @ + total]
  BY DEF ExecuteSolShares
<1>7. Cardinality(paying) \in Nat
  <2>1. IsFiniteSet(1..MaxBeneficiaries)
    BY BoundsAssumption, FS_Interval
  <2>2. QED
    BY <2>1, FS_Subset, FS_CardinalityType DEF StillUnpaid
<1> HIDE DEF total, paying, shares, n
<1>8. log' \in ExecutionLog
  <2>1. /\ log.transfer_count + Cardinality(paying) \in Nat
        /\ log.total_sol_distributed + total \in Nat
    BY <1>1, <1>4, <1>7 DEF ExecutionLog
  <2>2. log.sol_paid_mask \cup fresh \in SUBSET Nat
    BY <1>0, <1>1 DEF StillUnpaid, ExecutionLog
  <2> HIDE DEF fresh
  <2>3. QED
    BY <1>1, <1>6, <2>1, <2>2 DEF ExecutionLog
<1>9. sol' \in [Accounts -> Nat] /\ lamports' \in Nat
  BY <1>4, <1>5, <1>6 DEF TypeOK
<1>11. QED
  BY <1>8, <1>9

\* A batch of token shares.
LEMMA TokenSharesTyped ==
  ASSUME TypeOK, NEW batch \in SUBSET (1..MaxBeneficiaries), NEW m \in Mints,
         ExecuteTokenShares(m, batch)
  PROVE  /\ dist' \in [Mints -> TokenDist \cup {NoAccount}]
         /\ dist[m] \in TokenDist /\ dist'[m] \in TokenDist
         /\ \A x \in Mints : x # m => dist'[x] = dist[x]
         /\ ata' \in [Mints -> Nat \cup {NoAccount}]
         /\ tokens' \in [Mints -> [Accounts -> Nat]]
<1>0. batch \subseteq Nat
  BY BoundsAssumption
<1> DEFINE n == Len(vault.beneficiaries)
           shares == Shares(dist[m].snapshot)
           fresh == StillUnpaid(batch, dist[m].paid_mask)
           paying == {i \in fresh : shares[i] > 0}
           leaving == {i \in paying : WalletOf(i) # VaultKey}
           total == SumOver(n, leaving, shares)
<1>1. dist[m] \in TokenDist
  BY DEF ExecuteTokenShares, TypeOK
<1>2. dist[m].snapshot \in Nat
  BY <1>1 DEF TokenDist
<1>3. n \in Nat /\ shares \in [1..n -> Nat]
  BY <1>2, SharesNat DEF ExecuteTokenShares
<1>4. total \in Nat
  BY <1>3, SumOverNat
<1>5. Credited(tokens[m], leaving, shares) \in [Accounts -> Nat]
  BY <1>3, CreditedNat DEF ExecuteTokenShares, TypeOK
<1>6. /\ ata[m] # NoAccount /\ total <= ata[m]
      /\ ata' = [ata EXCEPT ![m] = @ - total]
      /\ tokens' = [tokens EXCEPT ![m] = Credited(tokens[m], leaving, shares)]
      /\ dist' = [dist EXCEPT ![m].paid_mask = @ \cup fresh]
  BY DEF ExecuteTokenShares, TypeOK
<1> HIDE DEF total, leaving, paying, shares, n
<1>7. dist' \in [Mints -> TokenDist \cup {NoAccount}]
  BY <1>0, <1>1, <1>6 DEF StillUnpaid, TypeOK, TokenDist
<1>8. ata' \in [Mints -> Nat \cup {NoAccount}]
  BY <1>4, <1>6 DEF TypeOK
<1>9. tokens' \in [Mints -> [Accounts -> Nat]]
  BY <1>5, <1>6 DEF TypeOK
<1>10. /\ dist[m] \in TokenDist /\ dist'[m] \in TokenDist
       /\ \A x \in Mints : x # m => dist'[x] = dist[x]
  BY <1>0, <1>1, <1>6 DEF StillUnpaid, TypeOK, TokenDist
<1>11. QED
  BY <1>6, <1>7, <1>8, <1>9, <1>10

\* Both kinds of batches.
LEMMA TypeShares ==
  ASSUME TypeOK, NEW batch \in SUBSET (1..MaxBeneficiaries),
         ExecuteSolShares(batch) \/ \E m \in Mints : ExecuteTokenShares(m, batch)
  PROVE  TypeOK'
<1>1. CASE ExecuteSolShares(batch)
  BY <1>1, SolSharesTyped DEF ExecuteSolShares, TypeOK
<1>2. ASSUME NEW m \in Mints, ExecuteTokenShares(m, batch) PROVE TypeOK'
  BY <1>2, TokenSharesTyped DEF ExecuteTokenShares, TypeOK
<1>3. QED
  BY <1>1, <1>2

\* finalize_execution, close_token_dist and the core closes.
LEMMA TypeClose ==
  ASSUME TypeOK,
         \/ \E payer \in Payers : FinalizeExecution(payer) \/ CloseExecutedVault(payer)
         \/ CloseExecutedVaultByOwner
         \/ \E m \in Mints : CloseTokenDist(m)
  PROVE  TypeOK'
<1>1. ASSUME NEW payer \in Payers, FinalizeExecution(payer) PROVE TypeOK'
  <2>1. vault \in VaultConfig /\ log \in ExecutionLog
    BY <1>1 DEF FinalizeExecution, TypeOK
  <2>2. vault.keeper_bounty \in Nat
    BY <2>1 DEF VaultConfig
  <2>3. PICK amt : /\ amt = Lesser(vault.keeper_bounty, Available)
                   /\ amt \in Nat /\ amt <= lamports
    BY <2>2, LesserAvailable
  <2>4. sol' \in [Accounts -> Nat] /\ lamports' \in Nat
    <3>1. lamports' = lamports - amt /\ sol' = [sol EXCEPT ![payer] = @ + amt]
      BY <1>1, <2>3 DEF FinalizeExecution
    <3>2. lamports \in Nat /\ sol \in [Accounts -> Nat]
      BY DEF TypeOK
    <3>3. QED
      BY <2>3, <3>1, <3>2, AddAt
  <2>5. vault' \in VaultConfig
    BY <1>1, <2>1 DEF FinalizeExecution, VaultConfig
  <2>6. log' \in ExecutionLog
    BY <1>1, <2>1 DEF FinalizeExecution, ExecutionLog
  <2>7. QED
    BY <1>1, <2>4, <2>5, <2>6 DEF FinalizeExecution, TypeOK
<1>2. ASSUME NEW rentTo, CloseCore(rentTo) PROVE TypeOK'
  <2>1. PICK dust : /\ dust = IF LargestWallet = VaultKey THEN 0 ELSE Available
                    /\ dust \in Nat /\ dust <= lamports
    BY AvailableNat DEF TypeOK
  <2>2. sol' = [a \in Accounts |->
                  sol[a] + (IF a = LargestWallet THEN dust ELSE 0)
                         + (IF a = rentTo THEN lamports - dust ELSE 0)]
    BY <1>2, <2>1 DEF CloseCore
  <2>3. sol' \in [Accounts -> Nat] /\ lamports' \in Nat
    BY <1>2, <2>1, <2>2 DEF CloseCore, TypeOK
  <2>4. QED
    BY <1>2, <2>3 DEF CloseCore, PlanClosed, TypeOK
<1>3. ASSUME NEW m \in Mints, CloseTokenDist(m) PROVE TypeOK'
  <2>1. ata[m] \in Nat
    BY <1>3 DEF CloseTokenDist, TypeOK
  <2>2. tokens' \in [Mints -> [Accounts -> Nat]]
    BY <1>3, <2>1 DEF CloseTokenDist, TypeOK
  <2>3. vault \in VaultConfig
    BY <1>3 DEF CloseTokenDist, TypeOK
  <2>4. SatSub(vault.open_token_dists, 1) \in Nat
    BY <2>3, SatSubNat DEF VaultConfig
  <2>5. vault' \in VaultConfig
    BY <1>3, <2>3, <2>4 DEF CloseTokenDist, OneLessOpen, VaultConfig
  <2>6. QED
    BY <1>3, <2>2, <2>5 DEF CloseTokenDist, TypeOK
<1>4. QED
  BY <1>1, <1>2, <1>3 DEF CloseExecutedVault, CloseExecutedVaultByOwner

\* Every step keeps the types.
LEMMA TypeNext ==
  ASSUME TypeOK, [Next]_vars
  PROVE  TypeOK'
<1>1. CASE OwnerNext
  BY <1>1, TypeInitialize, TypeUpdate, TypeOwner, TypeClose DEF OwnerNext
<1>2. CASE AgentNext
  BY <1>2, TypeOwner DEF AgentNext
<1>3. CASE CrankNext
  BY <1>3, TypeBegin, TypeSpecific, TypeShares, TypeClose DEF CrankNext
<1>4. CASE EnvironmentNext
  BY <1>4, TypeEnvironment
<1>5. CASE UNCHANGED vars
  BY <1>5 DEF TypeOK
<1>6. QED
  BY <1>1, <1>2, <1>3, <1>4, <1>5 DEF Next

\* Whatever the callers pass and in whatever order instructions land, no debit
\* of a handler underflows: balances and counters stay natural numbers, and
\* every account holds data of its own type.
THEOREM TypeCorrect == Spec => []TypeOK
<1>1. Init => TypeOK
  BY InputsAssumption DEF Init, TypeOK
<1>2. QED
  BY <1>1, TypeNext, PTL DEF Spec

------------------------------------------------------------------------------
(* LifecycleInv is inductive, and what follows from it: the accounts of a  *)
(* vault come and go together, an ExecutionLog proves that grace elapsed,  *)
(* the deadline never overflows, bequests stay in range and the terms of   *)
(* an execution stay as they were when it began.  At the end, VaultProgram *)
(* is shown to implement Distribution.                                     *)

USE DEF accounts, balances, vars

\* Changing one field of an account leaves an account.
LEMMA RecordsStay ==
  /\ \A v \in VaultConfig : v # NoAccount
  /\ \A l \in ExecutionLog : l # NoAccount
  /\ \A p \in AssetPlan : p # NoAccount
  /\ \A d \in TokenDist : d # NoAccount
  /\ \A n \in Nat : n # NoAccount
BY NoAccountAssumption

\* A step that changes no account and not the clock keeps the invariant.
LEMMA LifeQuiet ==
  ASSUME LifecycleInv, TypeOK', UNCHANGED <<now, accounts>>
  PROVE  LifecycleInv'
<1>1. UNCHANGED <<now, vault, heartbeat, log, plan, dist>>
  OBVIOUS
<1>2. QED
  BY <1>1 DEF LifecycleInv, AccountsTogether, VaultInOrder, DistsNeedLog,
     LogProvesGrace, OpenDistsCounted, PlanIndicesInRange, VaultExists,
     GraceElapsed, Deadline, Indices

\* Time only ever adds to the grace that has elapsed.
LEMMA LifeTick ==
  ASSUME LifecycleInv, TypeOK', Tick
  PROVE  LifecycleInv'
<1>1. UNCHANGED <<vault, heartbeat, log, plan, dist>> /\ now' = now + 1
  BY DEF Tick
<1>2. now' <= MaxTime /\ now \in Nat /\ now' \in Nat
  BY <1>1, BoundsAssumption DEF Tick, LifecycleInv, TypeOK
<1>3. AccountsTogether' /\ DistsNeedLog' /\ OpenDistsCounted' /\ PlanIndicesInRange'
  BY <1>1 DEF LifecycleInv, AccountsTogether, DistsNeedLog, OpenDistsCounted,
     PlanIndicesInRange, Indices
<1>4. ASSUME vault # NoAccount
      PROVE  /\ vault.heartbeat_interval \in Nat /\ vault.grace_period \in Nat
             /\ heartbeat \in Nat
  BY <1>4 DEF LifecycleInv, TypeOK, VaultConfig, AccountsTogether
<1>5. VaultInOrder'
  BY <1>1, <1>2, <1>4 DEF LifecycleInv, VaultInOrder
<1>6. LogProvesGrace'
  BY <1>1, <1>2, <1>4 DEF LifecycleInv, LogProvesGrace, VaultExists, GraceElapsed, Deadline
<1>7. QED
  BY <1>2, <1>3, <1>5, <1>6 DEF LifecycleInv

\* Nothing has begun while the owner's instructions are admitted.
LEMMA OwnerBeforeExecution ==
  ASSUME LifecycleInv, VaultExists, NotFrozen
  PROVE  log = NoAccount /\ \A m \in Mints : dist[m] = NoAccount
<1>1. vault.heartbeat_interval \in Nat /\ vault.grace_period \in Nat /\ heartbeat \in Nat
      /\ now \in Nat
  BY DEF LifecycleInv, TypeOK, VaultConfig, VaultExists
<1>2. ~GraceElapsed
  BY <1>1 DEF NotFrozen, GraceElapsed, Deadline
<1>3. QED
  BY <1>2 DEF LifecycleInv, LogProvesGrace, DistsNeedLog

\* Without TokenDist accounts there are none to count.
LEMMA NoDists ==
  ASSUME \A m \in Mints : dist[m] = NoAccount
  PROVE  Cardinality({m \in Mints : dist[m] # NoAccount}) = 0
<1>1. {m \in Mints : dist[m] # NoAccount} = {}
  OBVIOUS
<1>2. QED
  BY <1>1, FS_EmptySet

\* initialize_vault finds nothing left over from an earlier vault.
LEMMA LifeInitialize ==
  ASSUME LifecycleInv, TypeOK', NEW agent \in Agents, NEW interval \in IntervalInputs,
         NEW grace \in GraceInputs, NEW bs \in BeneficiaryInputs,
         NEW mutable \in BOOLEAN, NEW bounty \in BountyInputs,
         InitializeVault(agent, interval, grace, bs, mutable, bounty)
  PROVE  LifecycleInv'
<1>1. /\ log = NoAccount /\ plan = NoAccount /\ \A m \in Mints : dist[m] = NoAccount
      /\ UNCHANGED <<now, log, plan, dist>>
  BY DEF InitializeVault, LifecycleInv, AccountsTogether
<1>2. /\ interval \in Nat /\ grace \in Nat /\ bounty \in Nat
      /\ bs \in Seq(Beneficiary)
  BY InputsAssumption
<1>3. vault' \in VaultConfig
  BY <1>2 DEF InitializeVault, VaultConfig
<1>4. now \in Nat /\ now <= MaxTime
  BY DEF LifecycleInv, TypeOK
<1>5. vault' # NoAccount /\ heartbeat' # NoAccount
  BY <1>3, <1>4, RecordsStay DEF InitializeVault
<1>6. AccountsTogether' /\ LogProvesGrace' /\ DistsNeedLog' /\ PlanIndicesInRange'
  BY <1>1, <1>5 DEF InitializeVault, AccountsTogether, LogProvesGrace, DistsNeedLog,
     PlanIndicesInRange
<1>7. VaultInOrder'
  BY <1>4 DEF InitializeVault, VaultInOrder
<1>8. OpenDistsCounted'
  BY <1>1, NoDists DEF InitializeVault, OpenDistsCounted
<1>9. QED
  BY <1>1, <1>4, <1>6, <1>7, <1>8 DEF LifecycleInv

\* update_vault runs before the deadline, so no log exists whose grace a longer interval could take back.
LEMMA LifeUpdate ==
  ASSUME LifecycleInv, TypeOK', NEW interval \in IntervalInputs \cup {NoChange},
         NEW grace \in GraceInputs \cup {NoChange},
         NEW bs \in BeneficiaryInputs \cup {NoChange},
         UpdateVault(interval, grace, bs)
  PROVE  LifecycleInv'
<1>1. /\ VaultExists /\ NotFrozen
      /\ UNCHANGED <<now, heartbeat, log, plan, dist>>
  BY DEF UpdateVault, OpenForOwner
<1>2. log = NoAccount /\ \A m \in Mints : dist[m] = NoAccount
  BY <1>1, OwnerBeforeExecution
<1>3. vault \in VaultConfig
  BY <1>1 DEF LifecycleInv, TypeOK, VaultExists
<1>4. vault' = [vault EXCEPT
           !.heartbeat_interval = IF interval = NoChange THEN @ ELSE interval,
           !.grace_period = IF grace = NoChange THEN @ ELSE grace,
           !.beneficiaries = IF bs = NoChange THEN @ ELSE bs]
  BY DEF UpdateVault
<1>5. /\ vault'.heartbeat_interval =
             (IF interval = NoChange THEN vault.heartbeat_interval ELSE interval)
      /\ vault'.grace_period = (IF grace = NoChange THEN vault.grace_period ELSE grace)
      /\ vault'.beneficiaries = (IF bs = NoChange THEN vault.beneficiaries ELSE bs)
      /\ vault'.active = vault.active /\ vault'.executed = vault.executed
      /\ vault'.has_asset_plan = vault.has_asset_plan
      /\ vault'.open_token_dists = vault.open_token_dists
  BY <1>3, <1>4 DEF VaultConfig
<1>6. vault' \in VaultConfig
  <2>1. /\ interval # NoChange => interval \in Nat
        /\ grace # NoChange => grace \in Nat
        /\ bs # NoChange => bs \in Seq(Beneficiary)
    BY InputsAssumption
  <2>2. QED
    BY <1>3, <1>4, <2>1 DEF VaultConfig
<1>7. vault' # NoAccount /\ heartbeat # NoAccount
  BY <1>1, <1>6, RecordsStay DEF VaultExists
<1>8. AccountsTogether' /\ LogProvesGrace' /\ DistsNeedLog'
  BY <1>1, <1>2, <1>5, <1>7 DEF LifecycleInv, AccountsTogether, LogProvesGrace,
     DistsNeedLog, VaultExists
<1>9. PlanIndicesInRange'
  <2>1. CASE plan = NoAccount
    BY <1>1, <2>1 DEF PlanIndicesInRange
  <2>2. CASE plan # NoAccount
    <3>1. bs = NoChange
      BY <1>1, <2>2 DEF UpdateVault, BeneficiariesEditable, LifecycleInv,
         AccountsTogether, VaultExists
    <3>2. QED
      BY <1>1, <1>5, <3>1 DEF LifecycleInv, PlanIndicesInRange, Indices
  <2>3. QED
    BY <2>1, <2>2
<1>10. VaultInOrder'
  BY <1>1, <1>5 DEF UpdateVault, LifecycleInv, VaultInOrder, VaultExists
<1>11. OpenDistsCounted'
  BY <1>1, <1>5 DEF LifecycleInv, OpenDistsCounted, VaultExists
<1>12. QED
  BY <1>1, <1>8, <1>9, <1>10, <1>11 DEF LifecycleInv

\* The heartbeat moves only while nothing has begun.
LEMMA LifeHeartbeat ==
  ASSUME LifecycleInv, TypeOK', NEW agent \in Agents,
         RecordHeartbeat(agent) \/ RotateAgent(agent)
  PROVE  LifecycleInv'
<1>1. /\ VaultExists /\ NotFrozen /\ heartbeat' = now
      /\ UNCHANGED <<now, log, plan, dist>>
  BY DEF RecordHeartbeat, RotateAgent, OpenForOwner
<1>2. log = NoAccount /\ \A m \in Mints : dist[m] = NoAccount
  BY <1>1, OwnerBeforeExecution
<1>3. vault \in VaultConfig /\ now \in Nat /\ now <= MaxTime
  BY <1>1 DEF LifecycleInv, TypeOK, VaultExists
<1>4. vault' \in VaultConfig
  BY <1>3 DEF RecordHeartbeat, RotateAgent, VaultConfig
<1>5. /\ vault'.heartbeat_interval = vault.heartbeat_interval
      /\ vault'.grace_period = vault.grace_period
      /\ vault'.beneficiaries = vault.beneficiaries
      /\ vault'.active = vault.active /\ vault'.executed = vault.executed
      /\ vault'.has_asset_plan = vault.has_asset_plan
      /\ vault'.open_token_dists = vault.open_token_dists
  BY <1>3 DEF RecordHeartbeat, RotateAgent, VaultConfig
<1>6. vault' # NoAccount /\ heartbeat' # NoAccount
  BY <1>1, <1>3, <1>4, RecordsStay
<1>7. AccountsTogether' /\ LogProvesGrace' /\ DistsNeedLog' /\ PlanIndicesInRange'
  BY <1>1, <1>2, <1>5, <1>6 DEF LifecycleInv, AccountsTogether, LogProvesGrace,
     DistsNeedLog, PlanIndicesInRange, Indices, VaultExists
<1>8. VaultInOrder'
  BY <1>1, <1>3, <1>5 DEF LifecycleInv, VaultInOrder, VaultExists
<1>9. OpenDistsCounted'
  BY <1>1, <1>5 DEF LifecycleInv, OpenDistsCounted, VaultExists
<1>10. QED
  BY <1>1, <1>3, <1>7, <1>8, <1>9 DEF LifecycleInv

\* Once the core accounts close nothing is left behind.
LEMMA LifeGone ==
  ASSUME LifecycleInv, TypeOK', vault' = NoAccount, heartbeat' = NoAccount,
         log' = NoAccount, plan' = NoAccount, UNCHANGED <<now, dist>>,
         \A m \in Mints : dist[m] = NoAccount
  PROVE  LifecycleInv'
BY DEF LifecycleInv, AccountsTogether, VaultInOrder, DistsNeedLog, LogProvesGrace,
   OpenDistsCounted, PlanIndicesInRange, VaultExists

\* revoke_vault runs before the deadline, so it leaves no log behind.
LEMMA LifeRevoke ==
  ASSUME LifecycleInv, TypeOK', RevokeVault
  PROVE  LifecycleInv'
<1>1. VaultExists /\ NotFrozen /\ UNCHANGED <<now, log, dist>>
  BY DEF RevokeVault, OpenForOwner
<1>2. log = NoAccount /\ \A m \in Mints : dist[m] = NoAccount
  BY <1>1, OwnerBeforeExecution
<1>3. plan' = NoAccount
  BY <1>1 DEF RevokeVault, PlanClosed, LifecycleInv, AccountsTogether, VaultExists
<1>4. QED
  BY <1>1, <1>2, <1>3, LifeGone DEF RevokeVault

\* A vault is inactive only when it is executed, so this instruction, which
\* ignores every other account, finds no vault of this version.
LEMMA LifeCloseRevoked ==
  ASSUME LifecycleInv, CloseRevokedVault
  PROVE  FALSE
BY DEF CloseRevokedVault, LifecycleInv, VaultInOrder, VaultExists

\* A counter at zero means that no TokenDist exists.
LEMMA ClosedWithoutDists ==
  ASSUME LifecycleInv, vault # NoAccount, vault.open_token_dists = 0
  PROVE  \A m \in Mints : dist[m] = NoAccount
<1> DEFINE Open == {m \in Mints : dist[m] # NoAccount}
<1>1. Cardinality(Open) = 0
  BY DEF LifecycleInv, OpenDistsCounted
<1>2. IsFiniteSet(Open)
  BY KeysAssumption, FS_Subset
<1>3. Open = {}
  BY <1>1, <1>2, FS_EmptySet
<1>4. QED
  BY <1>3

\* A core close requires that no TokenDist is open.
LEMMA LifeCloseCore ==
  ASSUME LifecycleInv, TypeOK', NEW rentTo, vault # NoAccount,
         vault.open_token_dists = 0, CloseCore(rentTo)
  PROVE  LifecycleInv'
<1>1. plan' = NoAccount
  BY DEF CloseCore, PlanClosed, LifecycleInv, AccountsTogether
<1>2. \A m \in Mints : dist[m] = NoAccount
  BY ClosedWithoutDists
<1>3. QED
  BY <1>1, <1>2, LifeGone DEF CloseCore

\* The plan edits validate against the current beneficiaries.
LEMMA LifePlan ==
  ASSUME LifecycleInv, TypeOK',
         ClearAssetPlan \/ \E assignments \in PlanInputs :
             SetAssetPlan(assignments) \/ UpdateAssetPlan(assignments)
  PROVE  LifecycleInv'
<1>1. /\ VaultExists /\ NotFrozen
      /\ UNCHANGED <<now, heartbeat, log, dist>>
  BY DEF ClearAssetPlan, SetAssetPlan, UpdateAssetPlan, OpenForOwner
<1>2. log = NoAccount /\ \A m \in Mints : dist[m] = NoAccount
  BY <1>1, OwnerBeforeExecution
<1>3. vault \in VaultConfig /\ now <= MaxTime
  BY <1>1 DEF LifecycleInv, TypeOK, VaultExists
<1>4. vault' \in VaultConfig
  BY <1>3 DEF ClearAssetPlan, SetAssetPlan, UpdateAssetPlan, VaultConfig
<1>5. /\ vault'.heartbeat_interval = vault.heartbeat_interval
      /\ vault'.grace_period = vault.grace_period
      /\ vault'.beneficiaries = vault.beneficiaries
      /\ vault'.active = vault.active /\ vault'.executed = vault.executed
      /\ vault'.open_token_dists = vault.open_token_dists
  BY <1>3 DEF ClearAssetPlan, SetAssetPlan, UpdateAssetPlan, VaultConfig
<1>6. /\ vault' # NoAccount
      /\ vault'.has_asset_plan <=> plan' # NoAccount
      /\ plan' # NoAccount =>
             ValidAssignments(plan'.assignments, Len(vault.beneficiaries))
  <2>1. vault' # NoAccount
    BY <1>4, RecordsStay
  <2>2. CASE ClearAssetPlan
    BY <1>3, <2>1, <2>2 DEF ClearAssetPlan, VaultConfig
  <2>3. ASSUME NEW assignments \in PlanInputs,
               SetAssetPlan(assignments) \/ UpdateAssetPlan(assignments)
        PROVE  /\ vault'.has_asset_plan <=> plan' # NoAccount
               /\ plan' # NoAccount =>
                      ValidAssignments(plan'.assignments, Len(vault.beneficiaries))
    <3>1. NewPlan(assignments) \in AssetPlan
      BY InputsAssumption DEF NewPlan, AssetPlan
    <3>2. plan' = NewPlan(assignments) /\ plan' # NoAccount
      BY <2>3, <3>1, RecordsStay DEF SetAssetPlan, UpdateAssetPlan
    <3>3. plan'.assignments = assignments
      BY <3>2 DEF NewPlan
    <3>4. vault'.has_asset_plan
      BY <1>3, <2>3 DEF SetAssetPlan, UpdateAssetPlan, VaultConfig
    <3>5. ValidAssignments(assignments, Len(vault.beneficiaries))
      BY <2>3 DEF SetAssetPlan, UpdateAssetPlan
    <3>6. QED
      BY <2>1, <3>2, <3>3, <3>4, <3>5
  <2>4. QED
    BY <2>1, <2>2, <2>3
<1>7. AccountsTogether' /\ LogProvesGrace' /\ DistsNeedLog'
  BY <1>1, <1>2, <1>6 DEF AccountsTogether, LogProvesGrace, DistsNeedLog, VaultExists
<1>8. PlanIndicesInRange'
  BY <1>5, <1>6 DEF PlanIndicesInRange, ValidAssignments, Indices
<1>9. VaultInOrder'
  BY <1>1, <1>5 DEF LifecycleInv, VaultInOrder, VaultExists
<1>10. OpenDistsCounted'
  BY <1>1, <1>5 DEF LifecycleInv, OpenDistsCounted, VaultExists
<1>11. QED
  BY <1>1, <1>3, <1>7, <1>8, <1>9, <1>10 DEF LifecycleInv

\* What every permissionless step before the core close keeps.
SameTerms ==
  /\ vault' # NoAccount
  /\ vault'.heartbeat_interval = vault.heartbeat_interval
  /\ vault'.grace_period = vault.grace_period
  /\ vault'.beneficiaries = vault.beneficiaries
  /\ vault'.has_asset_plan = vault.has_asset_plan
  /\ vault'.keeper_bounty = vault.keeper_bounty
  /\ heartbeat' = heartbeat
  /\ plan # NoAccount =>
         plan' # NoAccount /\ plan'.assignments = plan.assignments
  /\ plan = NoAccount => plan' = NoAccount

\* A permissionless step that keeps terms and plan keeps the invariant.
LEMMA LifeCrank ==
  ASSUME LifecycleInv, TypeOK', vault # NoAccount, now' = now, SameTerms,
         VaultExists /\ GraceElapsed, log' # NoAccount,
         vault'.active <=> ~vault'.executed,
         OpenDistsCounted'
  PROVE  LifecycleInv'
<1>1. AccountsTogether' /\ DistsNeedLog' /\ PlanIndicesInRange'
  BY DEF SameTerms, LifecycleInv, AccountsTogether, DistsNeedLog, PlanIndicesInRange,
     Indices, VaultExists
<1>2. VaultInOrder'
  BY DEF SameTerms, LifecycleInv, VaultInOrder
<1>3. LogProvesGrace'
  BY DEF SameTerms, LogProvesGrace, GraceElapsed, Deadline
<1>4. QED
  BY <1>1, <1>2, <1>3 DEF LifecycleInv

\* The count of distributions stands while none opens or closes.
LEMMA SameDistsCounted ==
  ASSUME LifecycleInv, vault # NoAccount,
         vault'.open_token_dists = vault.open_token_dists,
         \A m \in Mints : dist'[m] # NoAccount <=> dist[m] # NoAccount
  PROVE  OpenDistsCounted'
<1>1. {m \in Mints : dist'[m] # NoAccount} = {m \in Mints : dist[m] # NoAccount}
  OBVIOUS
<1>2. QED
  BY <1>1 DEF LifecycleInv, OpenDistsCounted

\* A crank that finds a log runs after grace.
LEMMA CrankAfterGrace ==
  ASSUME LifecycleInv, vault # NoAccount, log # NoAccount
  PROVE  VaultExists /\ GraceElapsed
BY DEF LifecycleInv, AccountsTogether, LogProvesGrace, VaultExists

\* The log that begin_execution writes.
LEMMA BegunLog ==
  ASSUME LifecycleInv, BeginExecution
  PROVE  log' \in ExecutionLog
<1>1. vault.keeper_bounty \in Nat
  BY DEF BeginExecution, VaultExists, LifecycleInv, TypeOK, VaultConfig
<1>2. SolResidual \in Nat
  BY <1>1, SpecificSumNat, AvailableNat, SatSubNat
     DEF BeginExecution, LifecycleInv, SolResidual
<1>3. QED
  BY <1>2 DEF BeginExecution, ExecutionLog, LifecycleInv, TypeOK

\* The distribution that begin_token_dist writes.
LEMMA BegunDist ==
  ASSUME LifecycleInv, NEW m \in Mints, BeginTokenDist(m)
  PROVE  /\ TokenResidual(m) \in Nat /\ AtaBalance(m) \in Nat
         /\ dist'[m] = [snapshot |-> TokenResidual(m), paid_mask |-> {}]
         /\ dist'[m] \in TokenDist
         /\ \A x \in Mints : x # m => dist'[x] = dist[x]
<1>1. AtaBalance(m) \in Nat
  BY DEF AtaBalance, LifecycleInv, TypeOK
<1>2. TokenResidual(m) \in Nat
  BY <1>1, SpecificSumNat, SatSubNat DEF BeginTokenDist, LifecycleInv, TokenResidual
<1>3. QED
  BY <1>1, <1>2 DEF BeginTokenDist, LifecycleInv, TypeOK, TokenDist

\* begin_execution.
LEMMA LifeBegin ==
  ASSUME LifecycleInv, TypeOK', BeginExecution
  PROVE  LifecycleInv'
<1>1. /\ VaultExists /\ GraceElapsed
      /\ UNCHANGED <<now, vault, heartbeat, plan, dist>>
  BY DEF BeginExecution
<1>2. SameTerms
  BY <1>1 DEF SameTerms, VaultExists
<1>3. log' \in ExecutionLog
  BY BegunLog
<1>4. log' # NoAccount
  BY <1>3, RecordsStay
<1>5. OpenDistsCounted'
  BY <1>1, SameDistsCounted DEF VaultExists
<1>6. vault'.active <=> ~vault'.executed
  BY <1>1 DEF LifecycleInv, VaultInOrder, VaultExists
<1>7. QED
  BY <1>1, <1>2, <1>4, <1>5, <1>6, LifeCrank DEF VaultExists

\* begin_token_dist: one more account, one more counted.
LEMMA LifeBeginDist ==
  ASSUME LifecycleInv, TypeOK', NEW m \in Mints, BeginTokenDist(m)
  PROVE  LifecycleInv'
<1>1. /\ vault # NoAccount /\ log # NoAccount /\ dist[m] = NoAccount
      /\ UNCHANGED <<now, heartbeat, log, plan>>
      /\ vault' = [vault EXCEPT !.open_token_dists = @ + 1]
  BY DEF BeginTokenDist
<1>2. vault \in VaultConfig
  BY <1>1 DEF LifecycleInv, TypeOK
<1>3. vault' \in VaultConfig /\ vault'.open_token_dists = vault.open_token_dists + 1
  BY <1>1, <1>2 DEF VaultConfig
<1>4. SameTerms
  BY <1>1, <1>2, <1>3, RecordsStay DEF SameTerms, VaultConfig
<1>5. vault'.active <=> ~vault'.executed
  BY <1>1, <1>2 DEF LifecycleInv, VaultInOrder, VaultConfig
<1>6. OpenDistsCounted'
  <2> DEFINE Open == {x \in Mints : dist[x] # NoAccount}
  <2>1. dist'[m] \in TokenDist /\ \A x \in Mints : x # m => dist'[x] = dist[x]
    BY BegunDist
  <2>2. {x \in Mints : dist'[x] # NoAccount} = Open \cup {m}
    BY <2>1, RecordsStay
  <2>3. IsFiniteSet(Open) /\ m \notin Open
    BY <1>1, KeysAssumption, FS_Subset
  <2>4. Cardinality(Open \cup {m}) = Cardinality(Open) + 1
    BY <2>3, FS_AddElement
  <2>5. vault.open_token_dists = Cardinality(Open)
    BY <1>1 DEF LifecycleInv, OpenDistsCounted
  <2> HIDE DEF Open
  <2>6. QED
    BY <1>3, <2>2, <2>4, <2>5 DEF OpenDistsCounted
<1>7. QED
  BY <1>1, <1>4, <1>5, <1>6, CrankAfterGrace, LifeCrank

\* The two payments of a specific bequest.
LEMMA LifeSpecific ==
  ASSUME LifecycleInv, TypeOK', NEW j \in 1..MaxAssignments,
         ExecuteSpecificSol(j) \/ \E m \in Mints : ExecuteSpecificAsset(m, j)
  PROVE  LifecycleInv'
<1>1. /\ vault # NoAccount /\ log # NoAccount /\ plan # NoAccount
      /\ UNCHANGED <<now, vault, heartbeat, log, dist>>
      /\ plan' = [plan EXCEPT !.paid_mask = @ \cup {j}]
  BY DEF ExecuteSpecificSol, ExecuteSpecificAsset, PayableSpecific
<1>2. plan \in AssetPlan /\ j \in Nat
  BY <1>1, BoundsAssumption DEF LifecycleInv, TypeOK
<1>3. plan' \in AssetPlan /\ plan'.assignments = plan.assignments
  BY <1>1, <1>2 DEF AssetPlan
<1>4. SameTerms
  BY <1>1, <1>3, RecordsStay DEF SameTerms
<1>5. OpenDistsCounted'
  BY <1>1, SameDistsCounted
<1>6. vault'.active <=> ~vault'.executed
  BY <1>1 DEF LifecycleInv, VaultInOrder
<1>7. QED
  BY <1>1, <1>4, <1>5, <1>6, CrankAfterGrace, LifeCrank

\* The two share batches.
LEMMA LifeShares ==
  ASSUME LifecycleInv, TypeOK', NEW batch \in SUBSET (1..MaxBeneficiaries),
         ExecuteSolShares(batch) \/ \E m \in Mints : ExecuteTokenShares(m, batch)
  PROVE  LifecycleInv'
<1>0. TypeOK
  BY DEF LifecycleInv
<1>1. vault # NoAccount /\ UNCHANGED <<now, vault, heartbeat, plan>>
  BY DEF ExecuteSolShares, ExecuteTokenShares
<1>2. SameTerms
  BY <1>1 DEF SameTerms
<1>3. log # NoAccount /\ log' # NoAccount
  <2>1. CASE ExecuteSolShares(batch)
    BY <1>0, <2>1, SolSharesTyped, RecordsStay DEF ExecuteSolShares
  <2>2. ASSUME NEW m \in Mints, ExecuteTokenShares(m, batch)
        PROVE  log # NoAccount /\ log' # NoAccount
    BY <2>2 DEF ExecuteTokenShares, LifecycleInv, DistsNeedLog
  <2>3. QED
    BY <2>1, <2>2
<1>4. \A x \in Mints : dist'[x] # NoAccount <=> dist[x] # NoAccount
  <2>1. CASE ExecuteSolShares(batch)
    BY <2>1 DEF ExecuteSolShares
  <2>2. ASSUME NEW m \in Mints, ExecuteTokenShares(m, batch), NEW x \in Mints
        PROVE  dist'[x] # NoAccount <=> dist[x] # NoAccount
    <3>1. CASE x = m
      BY <1>0, <2>2, <3>1, TokenSharesTyped, RecordsStay
    <3>2. CASE x # m
      BY <1>0, <2>2, <3>2, TokenSharesTyped
    <3>3. QED
      BY <3>1, <3>2
  <2>3. QED
    BY <2>1, <2>2
<1>5. OpenDistsCounted'
  BY <1>1, <1>4, SameDistsCounted
<1>6. vault'.active <=> ~vault'.executed
  BY <1>1 DEF LifecycleInv, VaultInOrder
<1>7. QED
  BY <1>1, <1>2, <1>3, <1>5, <1>6, CrankAfterGrace, LifeCrank

\* finalize_execution.
LEMMA LifeFinalize ==
  ASSUME LifecycleInv, TypeOK', NEW payer \in Payers, FinalizeExecution(payer)
  PROVE  LifecycleInv'
<1>1. /\ vault # NoAccount /\ log # NoAccount
      /\ UNCHANGED <<now, heartbeat, plan, dist>>
      /\ vault' = [vault EXCEPT !.executed = TRUE, !.active = FALSE]
      /\ log' = [log EXCEPT !.completed = TRUE]
  BY DEF FinalizeExecution
<1>2. vault \in VaultConfig /\ log \in ExecutionLog
  BY <1>1 DEF LifecycleInv, TypeOK
<1>3. vault' \in VaultConfig /\ log' \in ExecutionLog
  BY <1>1, <1>2 DEF VaultConfig, ExecutionLog
<1>4. SameTerms
  BY <1>1, <1>2, <1>3, RecordsStay DEF SameTerms, VaultConfig
<1>5. vault'.executed = TRUE /\ vault'.active = FALSE
  BY <1>1, <1>2 DEF VaultConfig
<1>6. vault'.open_token_dists = vault.open_token_dists
  BY <1>1, <1>2 DEF VaultConfig
<1>7. OpenDistsCounted'
  BY <1>1, <1>6, SameDistsCounted
<1>8. log' # NoAccount
  BY <1>3, RecordsStay
<1>9. QED
  BY <1>1, <1>4, <1>5, <1>7, <1>8, CrankAfterGrace, LifeCrank

\* close_token_dist: the counter is positive, so it does not saturate.
LEMMA LifeCloseDist ==
  ASSUME LifecycleInv, TypeOK', NEW m \in Mints, CloseTokenDist(m)
  PROVE  LifecycleInv'
<1>1. /\ vault # NoAccount /\ dist[m] # NoAccount
      /\ UNCHANGED <<now, heartbeat, log, plan>>
      /\ vault' = [vault EXCEPT !.open_token_dists = SatSub(@, 1)]
      /\ dist' = [dist EXCEPT ![m] = NoAccount]
  BY DEF CloseTokenDist, OneLessOpen
<1>2. vault \in VaultConfig /\ log # NoAccount
  BY <1>1 DEF LifecycleInv, TypeOK, DistsNeedLog
<1>3. SatSub(vault.open_token_dists, 1) \in Nat
  BY <1>2, SatSubNat DEF VaultConfig
<1>4. /\ vault' \in VaultConfig
      /\ vault'.open_token_dists = SatSub(vault.open_token_dists, 1)
  BY <1>1, <1>2, <1>3 DEF VaultConfig
<1>5. SameTerms
  BY <1>1, <1>2, <1>4, RecordsStay DEF SameTerms, VaultConfig
<1>6. vault'.active <=> ~vault'.executed
  BY <1>1, <1>2 DEF LifecycleInv, VaultInOrder, VaultConfig
<1>7. OpenDistsCounted'
  <2> DEFINE Open == {x \in Mints : dist[x] # NoAccount}
  <2>1. {x \in Mints : dist'[x] # NoAccount} = Open \ {m}
    BY <1>1 DEF LifecycleInv, TypeOK
  <2>2. IsFiniteSet(Open) /\ m \in Open
    BY <1>1, KeysAssumption, FS_Subset
  <2>3. /\ Cardinality(Open \ {m}) = Cardinality(Open) - 1
        /\ Cardinality(Open) \in Nat /\ Cardinality(Open \ {m}) \in Nat
    BY <2>2, FS_RemoveElement, FS_CardinalityType
  <2>4. vault.open_token_dists = Cardinality(Open)
    BY <1>1 DEF LifecycleInv, OpenDistsCounted
  <2> HIDE DEF Open
  <2>5. SatSub(vault.open_token_dists, 1) = Cardinality(Open \ {m})
    BY <2>3, <2>4 DEF SatSub
  <2>6. QED
    BY <1>4, <2>1, <2>5 DEF OpenDistsCounted
<1>8. QED
  BY <1>1, <1>2, <1>5, <1>6, <1>7, CrankAfterGrace, LifeCrank

\* Every step keeps the invariant.
LEMMA LifeNext ==
  ASSUME LifecycleInv, [Next]_vars
  PROVE  LifecycleInv'
<1>0. TypeOK'
  BY TypeNext DEF LifecycleInv
<1>1. CASE OwnerNext
  <2>1. ASSUME NEW amount \in Amounts, WithdrawSolFromVault(amount) PROVE LifecycleInv'
    BY <1>0, <2>1, LifeQuiet DEF WithdrawSolFromVault
  <2>2. ASSUME NEW m \in Mints, NEW amount \in Amounts, WithdrawFromVault(m, amount)
        PROVE  LifecycleInv'
    BY <1>0, <2>2, LifeQuiet DEF WithdrawFromVault
  <2>3. CASE CloseExecutedVaultByOwner
    BY <1>0, <2>3, LifeCloseCore DEF CloseExecutedVaultByOwner, VaultExists
  <2>4. QED
    BY <1>0, <1>1, <2>1, <2>2, <2>3, LifeInitialize, LifeUpdate, LifeHeartbeat, LifePlan,
       LifeRevoke, LifeCloseRevoked DEF OwnerNext
<1>2. CASE AgentNext
  BY <1>0, <1>2, LifeHeartbeat DEF AgentNext
<1>3. CASE CrankNext
  <2>1. ASSUME NEW payer \in Payers, CloseExecutedVault(payer) PROVE LifecycleInv'
    BY <1>0, <2>1, LifeCloseCore DEF CloseExecutedVault, VaultExists
  <2>2. QED
    BY <1>0, <1>3, <2>1, LifeBegin, LifeBeginDist, LifeSpecific, LifeShares,
       LifeFinalize, LifeCloseDist DEF CrankNext
<1>4. CASE EnvironmentNext
  <2>1. CASE Tick
    BY <1>0, <2>1, LifeTick
  <2>2. CASE ~Tick
    <3>1. UNCHANGED <<now, accounts>>
      BY <1>4, <2>2 DEF EnvironmentNext, DepositSol, CreateVaultAta, DepositTokens,
         Freeze, Thaw
    <3>2. QED
      BY <1>0, <3>1, LifeQuiet
  <2>3. QED
    BY <2>1, <2>2
<1>5. CASE UNCHANGED vars
  BY <1>0, <1>5, LifeQuiet
<1>6. QED
  BY <1>1, <1>2, <1>3, <1>4, <1>5 DEF Next

\* The initial chain satisfies the inductive invariant.
LEMMA LifeInit == Init => LifecycleInv
<1>1. ASSUME Init PROVE LifecycleInv
  <2>1. TypeOK
    BY <1>1, InputsAssumption DEF Init, TypeOK
  <2>2. now <= MaxTime
    BY <1>1, BoundsAssumption DEF Init
  <2>3. QED
    BY <1>1, <2>1, <2>2 DEF Init, LifecycleInv, AccountsTogether, VaultInOrder,
       DistsNeedLog, LogProvesGrace, OpenDistsCounted, PlanIndicesInRange, VaultExists
<1>2. QED
  BY <1>1

\* The lifecycle invariant holds of every reachable chain, for any number of
\* beneficiaries, bequests and mints and any order of instructions.
THEOREM LifecycleInvariant == Spec => []LifecycleInv
BY LifeInit, LifeNext, PTL DEF Spec

\* No account derived from a vault outlives it (revoke_vault and the two core
\* closes free every PDA), and has_asset_plan is never stale.
THEOREM AccountsStayTogether == Spec => []AccountsTogether
<1>1. LifecycleInv => AccountsTogether
  BY DEF LifecycleInv
<1>2. QED
  BY <1>1, LifecycleInvariant, PTL

\* The existence of the ExecutionLog proves grace to every instruction that
\* relies on it instead of the heartbeat.
THEOREM LogAlwaysProvesGrace == Spec => []LogProvesGrace
<1>1. LifecycleInv => LogProvesGrace
  BY DEF LifecycleInv
<1>2. QED
  BY <1>1, LifecycleInvariant, PTL

\* deadline() never overflows for a configuration that the bounds of
\* constants.rs admit.
THEOREM DeadlineSafe == Spec => []DeadlineNeverOverflows
<1>1. ASSUME LifecycleInv, VaultExists PROVE Deadline <= I64Max
  <2>1. /\ vault.heartbeat_interval \in Nat /\ vault.grace_period \in Nat
        /\ heartbeat \in Nat /\ now \in Nat
    BY <1>1 DEF LifecycleInv, TypeOK, VaultExists, VaultConfig
  <2>2. /\ vault.heartbeat_interval <= MaxInterval /\ vault.grace_period <= MaxGrace
        /\ heartbeat <= now /\ now <= MaxTime
    BY <1>1 DEF LifecycleInv, VaultInOrder, ValidInterval, ValidGrace, VaultExists
  <2>3. QED
    BY <2>1, <2>2, BoundsAssumption DEF Deadline
<1>2. LifecycleInv => DeadlineNeverOverflows
  BY <1>1 DEF DeadlineNeverOverflows
<1>3. QED
  BY <1>2, LifecycleInvariant, PTL

\* Bequests point at beneficiaries the vault has, however edits interleave.
THEOREM PlansInRange == Spec => []PlanIndicesInRange
<1>1. LifecycleInv => PlanIndicesInRange
  BY DEF LifecycleInv
<1>2. QED
  BY <1>1, LifecycleInvariant, PTL

\* open_token_dists counts the TokenDist accounts, which both core closes
\* rely on.
THEOREM DistsCounted == Spec => []OpenDistsCounted
<1>1. LifecycleInv => OpenDistsCounted
  BY DEF LifecycleInv
<1>2. QED
  BY <1>1, LifecycleInvariant, PTL

-------------------------------------------------------------------------------
\* The step that ExecutionTermsFrozen asks for.
TermsKept ==
  /\ log' # NoAccount
  /\ log'.sol_snapshot = log.sol_snapshot
  /\ log'.started_at = log.started_at
  /\ log.sol_paid_mask \subseteq log'.sol_paid_mask
  /\ heartbeat' = heartbeat
  /\ vault'.beneficiaries = vault.beneficiaries
  /\ vault'.keeper_bounty = vault.keeper_bounty
  /\ plan # NoAccount =>
         /\ plan' # NoAccount
         /\ plan'.assignments = plan.assignments
         /\ plan.paid_mask \subseteq plan'.paid_mask

\* No permissionless step changes the terms.
LEMMA CrankKeepsTerms ==
  ASSUME LifecycleInv, log # NoAccount, vault # NoAccount, vault' # NoAccount, CrankNext
  PROVE  TermsKept
<1>0. TypeOK /\ vault \in VaultConfig /\ log \in ExecutionLog
  BY DEF LifecycleInv, TypeOK
<1>1. CASE BeginExecution
  BY <1>1 DEF BeginExecution
<1>2. ASSUME NEW m \in Mints, BeginTokenDist(m) \/ CloseTokenDist(m) PROVE TermsKept
  BY <1>0, <1>2 DEF BeginTokenDist, CloseTokenDist, TermsKept, VaultConfig
<1>3. ASSUME NEW j \in 1..MaxAssignments,
             ExecuteSpecificSol(j) \/ \E m \in Mints : ExecuteSpecificAsset(m, j)
      PROVE  TermsKept
  <2>1. /\ plan # NoAccount /\ UNCHANGED <<vault, heartbeat, log>>
        /\ plan' = [plan EXCEPT !.paid_mask = @ \cup {j}]
    BY <1>3 DEF ExecuteSpecificSol, ExecuteSpecificAsset, PayableSpecific
  <2>2. plan \in AssetPlan /\ j \in Nat
    BY <2>1, BoundsAssumption DEF LifecycleInv, TypeOK
  <2>3. /\ plan' \in AssetPlan /\ plan'.assignments = plan.assignments
        /\ plan'.paid_mask = plan.paid_mask \cup {j}
    BY <2>1, <2>2 DEF AssetPlan
  <2>4. QED
    BY <2>1, <2>3, RecordsStay DEF TermsKept
<1>4. ASSUME NEW batch \in SUBSET (1..MaxBeneficiaries), ExecuteSolShares(batch)
      PROVE  TermsKept
  <2>1. log' # NoAccount /\ UNCHANGED <<vault, heartbeat, plan>>
    BY <1>0, <1>4, SolSharesTyped, RecordsStay DEF ExecuteSolShares
  <2>2. \E x, y, z : log' = [log EXCEPT !.sol_paid_mask = @ \cup x,
                                         !.transfer_count = y,
                                         !.total_sol_distributed = z]
    BY <1>4 DEF ExecuteSolShares
  <2>3. /\ log'.sol_snapshot = log.sol_snapshot
        /\ log'.started_at = log.started_at
        /\ log.sol_paid_mask \subseteq log'.sol_paid_mask
    BY <1>0, <2>2 DEF ExecutionLog
  <2>4. QED
    BY <2>1, <2>3 DEF TermsKept
<1>5. ASSUME NEW m \in Mints, NEW batch \in SUBSET (1..MaxBeneficiaries),
             ExecuteTokenShares(m, batch)
      PROVE  TermsKept
  BY <1>5 DEF ExecuteTokenShares, TermsKept
<1>6. ASSUME NEW payer \in Payers, FinalizeExecution(payer) PROVE TermsKept
  <2>1. /\ UNCHANGED <<heartbeat, plan>>
        /\ vault' = [vault EXCEPT !.executed = TRUE, !.active = FALSE]
        /\ log' = [log EXCEPT !.completed = TRUE]
    BY <1>6 DEF FinalizeExecution
  <2>2. log' \in ExecutionLog
    BY <1>0, <2>1 DEF ExecutionLog
  <2>3. QED
    BY <1>0, <2>1, <2>2, RecordsStay DEF TermsKept, VaultConfig, ExecutionLog
<1>7. ASSUME NEW payer \in Payers, CloseExecutedVault(payer) PROVE FALSE
  BY <1>7 DEF CloseExecutedVault, CloseCore
<1>8. QED
  BY <1>1, <1>2, <1>3, <1>4, <1>5, <1>6, <1>7 DEF CrankNext

\* Nor does a step of anybody else, which the deadline shuts out.
LEMMA StepKeepsTerms ==
  ASSUME LifecycleInv, [Next]_vars, log # NoAccount, vault' # NoAccount
  PROVE  TermsKept
<1>1. vault # NoAccount /\ VaultExists /\ GraceElapsed
  BY DEF LifecycleInv, AccountsTogether, LogProvesGrace, VaultExists
<1>2. ~NotFrozen
  BY <1>1, OwnerBeforeExecution
<1>3. CASE UNCHANGED accounts
  BY <1>3 DEF TermsKept
<1>4. CASE OwnerNext
  <2>1. UNCHANGED accounts
    BY <1>1, <1>2, <1>4, LifeCloseRevoked DEF OwnerNext, InitializeVault, UpdateVault,
       RotateAgent, SetAssetPlan, UpdateAssetPlan, ClearAssetPlan, RevokeVault,
       WithdrawSolFromVault, WithdrawFromVault, CloseExecutedVaultByOwner, CloseCore,
       OpenForOwner
  <2>2. QED
    BY <1>3, <2>1
<1>5. CASE AgentNext
  BY <1>2, <1>5 DEF AgentNext, RecordHeartbeat, OpenForOwner
<1>6. CASE CrankNext
  BY <1>1, <1>6, CrankKeepsTerms
<1>7. CASE EnvironmentNext
  <2>1. UNCHANGED accounts
    BY <1>7 DEF EnvironmentNext, Tick, DepositSol, CreateVaultAta, DepositTokens,
       Freeze, Thaw
  <2>2. QED
    BY <1>3, <2>1
<1>8. QED
  BY <1>3, <1>4, <1>5, <1>6, <1>7 DEF Next

\* From begin_execution until the core accounts close, no step of anybody
\* changes what the execution distributes or takes a paid bit back.
THEOREM TermsFrozen == Spec => ExecutionTermsFrozen
<1>1. LifecycleInv /\ [Next]_vars =>
          [log # NoAccount /\ vault' # NoAccount => TermsKept]_vars
  BY StepKeepsTerms
<1>2. QED
  BY <1>1, LifecycleInvariant, PTL DEF Spec, ExecutionTermsFrozen, TermsKept
-------------------------------------------------------------------------------
(***************************************************************************)
(* VaultProgram implements Distribution, for every number of mints,        *)
(* beneficiaries and bequests: each instruction is one step of the promise *)
(* or changes no debt.  LedgerInv is the invariant that the steps need:    *)
(* the core close finds no debt left because finalize_execution did.       *)
(***************************************************************************)

\* What a step must show: the invariant again, and a step of the promise.
Kept == DebtsSettled' /\ PlanShort' /\ (Promise!DistNext \/ UNCHANGED Promise!distVars)

\* The indices of the beneficiaries are within the bound of the promise.
LEMMA IndicesBounded ==
  ASSUME LifecycleInv, vault # NoAccount
  PROVE  Indices \in SUBSET (1..MaxBeneficiaries)
<1>1. Len(vault.beneficiaries) \in 1..MaxBeneficiaries
  BY DEF LifecycleInv, VaultInOrder, ValidBeneficiaries
<1>2. QED
  BY <1>1, BoundsAssumption DEF Indices

\* A step that leaves the accounts of the execution alone leaves the debts alone.
LEMMA QuietKept ==
  ASSUME LedgerInv, UNCHANGED <<vault, log, plan, dist>>
  PROVE  Kept
<1>1. UNCHANGED <<Stage, SolDue, PlanDue, DistDue>>
  BY DEF Stage, SolDue, PlanDue, DistDue, Indices
<1>2. DebtsSettled' /\ PlanShort'
  BY <1>1 DEF LedgerInv, DebtsSettled, PlanShort
<1>3. QED
  BY <1>1, <1>2 DEF Kept, Promise!distVars

\* Without a log nothing is owed, whatever the owner changes.
LEMMA UnbegunKept ==
  ASSUME LedgerInv, log = NoAccount, log' = NoAccount, dist' = dist,
         \A m \in Mints : dist[m] = NoAccount, PlanShort'
  PROVE  Kept
<1>1. UNCHANGED <<Stage, SolDue, PlanDue>>
  BY DEF Stage, SolDue, PlanDue
<1>2. UNCHANGED DistDue
  BY DEF DistDue
<1>3. DebtsSettled'
  BY DEF DebtsSettled, SolDue, PlanDue
<1>4. QED
  BY <1>1, <1>2, <1>3 DEF Kept, Promise!distVars

\* The owner and the agent act only before an execution, and the plan edits
\* keep the bound of constants.rs.
LEMMA OwnerKept ==
  ASSUME LedgerInv, OwnerNext \/ AgentNext, ~CloseExecutedVaultByOwner
  PROVE  Kept
<1>0. LifecycleInv
  BY DEF LedgerInv
<1>. ~CloseRevokedVault
  BY <1>0, LifeCloseRevoked
<1>1. CASE UNCHANGED <<vault, log, plan, dist>>
  BY <1>1, QuietKept
<1>2. CASE vault = NoAccount
  <2>1. /\ log = NoAccount /\ plan = NoAccount /\ \A m \in Mints : dist[m] = NoAccount
    BY <1>0, <1>2 DEF LifecycleInv, AccountsTogether
  <2>2. UNCHANGED <<log, plan, dist>>
    BY <1>2 DEF OwnerNext, AgentNext, InitializeVault, UpdateVault, RotateAgent,
       RecordHeartbeat, SetAssetPlan, UpdateAssetPlan, ClearAssetPlan, RevokeVault,
       WithdrawSolFromVault, WithdrawFromVault, OpenForOwner, VaultExists
  <2>3. QED
    BY <2>1, <2>2, UnbegunKept DEF PlanShort
<1>3. CASE vault # NoAccount /\ ~UNCHANGED <<vault, log, plan, dist>>
  <2>1. VaultExists /\ NotFrozen /\ UNCHANGED <<log, dist>>
    BY <1>3 DEF OwnerNext, AgentNext, InitializeVault, UpdateVault, RotateAgent,
       RecordHeartbeat, SetAssetPlan, UpdateAssetPlan, ClearAssetPlan, RevokeVault,
       WithdrawSolFromVault, WithdrawFromVault, OpenForOwner, VaultExists
  <2>2. log = NoAccount /\ \A m \in Mints : dist[m] = NoAccount
    BY <1>0, <2>1, OwnerBeforeExecution
  <2>3. PlanShort'
    <3>1. CASE plan' = plan \/ plan' = NoAccount
      BY <3>1 DEF LedgerInv, PlanShort
    <3>2. CASE plan' # plan /\ plan' # NoAccount
      <4>1. PICK assignments \in PlanInputs :
                SetAssetPlan(assignments) \/ UpdateAssetPlan(assignments)
        BY <1>3, <3>2 DEF OwnerNext, AgentNext, InitializeVault, UpdateVault, RotateAgent,
           RecordHeartbeat, ClearAssetPlan, RevokeVault, PlanClosed,
           WithdrawSolFromVault, WithdrawFromVault
      <4>2. plan'.assignments = assignments /\ Len(assignments) <= MaxAssignments
        BY <4>1 DEF SetAssetPlan, UpdateAssetPlan, NewPlan, ValidAssignments
      <4>3. QED
        BY <4>2 DEF PlanShort
    <3>3. QED
      BY <3>1, <3>2
  <2>4. QED
    BY <2>1, <2>2, <2>3, UnbegunKept
<1>4. QED
  BY <1>1, <1>2, <1>3

\* begin_execution owes every beneficiary a share, and every bequest.
LEMMA BeginKept ==
  ASSUME LedgerInv, BeginExecution
  PROVE  Kept
<1>0. LifecycleInv
  BY DEF LedgerInv
<1>1. /\ vault # NoAccount /\ ~vault.executed /\ log = NoAccount
      /\ UNCHANGED <<vault, plan, dist>> /\ log'.sol_paid_mask = {}
  BY DEF BeginExecution, VaultExists
<1>2. log' # NoAccount
  BY <1>0, BegunLog, RecordsStay
<1>3. /\ Stage = "none" /\ Stage' = "begun" /\ SolDue' = Indices /\ UNCHANGED DistDue
  BY <1>1, <1>2 DEF Stage, SolDue, DistDue, Indices
<1>4. PlanDue' \in SUBSET (1..MaxAssignments)
  <2>1. CASE plan = NoAccount
    BY <1>1, <2>1 DEF PlanDue
  <2>2. CASE plan # NoAccount
    <3>1. Len(plan.assignments) <= MaxAssignments /\ Len(plan.assignments) \in Nat
      BY <1>0, <2>2, AmountsNat DEF LedgerInv, LifecycleInv, PlanShort
    <3>2. PlanDue' = (1..Len(plan.assignments)) \ plan.paid_mask
      BY <1>1, <1>2, <2>2 DEF PlanDue
    <3>3. QED
      BY <3>1, <3>2, BoundsAssumption
  <2>3. QED
    BY <2>1, <2>2
<1>5. Promise!Begin(Indices, PlanDue')
  BY <1>3 DEF Promise!Begin
<1>6. Promise!DistNext
  BY <1>0, <1>1, <1>4, <1>5, IndicesBounded DEF Promise!DistNext
<1>7. DebtsSettled' /\ PlanShort'
  BY <1>1 DEF LedgerInv, DebtsSettled, PlanShort
<1>8. QED
  BY <1>6, <1>7 DEF Kept

\* begin_token_dist owes every beneficiary a share of the mint's residual.
LEMMA BeginDistKept ==
  ASSUME LedgerInv, NEW m \in Mints, BeginTokenDist(m)
  PROVE  Kept
<1>0. LifecycleInv
  BY DEF LedgerInv
<1>1. /\ vault # NoAccount /\ log # NoAccount /\ dist[m] = NoAccount
      /\ UNCHANGED <<log, plan>>
      /\ vault' = [vault EXCEPT !.open_token_dists = @ + 1]
  BY DEF BeginTokenDist
<1>2. vault \in VaultConfig
  BY <1>0, <1>1 DEF LifecycleInv, TypeOK
<1>3. /\ vault'.executed = vault.executed
      /\ vault'.beneficiaries = vault.beneficiaries
  BY <1>1, <1>2 DEF VaultConfig
<1>4. UNCHANGED <<Stage, SolDue, PlanDue, Indices>> /\ Stage # "none"
  BY <1>1, <1>3 DEF Stage, SolDue, PlanDue, Indices
<1>5. /\ dist'[m] # NoAccount /\ dist'[m].paid_mask = {}
      /\ \A x \in Mints : x # m => dist'[x] = dist[x]
  <2>1. /\ dist'[m] = [snapshot |-> TokenResidual(m), paid_mask |-> {}]
        /\ dist'[m] \in TokenDist
        /\ \A x \in Mints : x # m => dist'[x] = dist[x]
    BY <1>0, BegunDist
  <2>2. QED
    BY <2>1, RecordsStay
<1>6. DistDue[m] = NoAccount /\ DistDue' = [DistDue EXCEPT ![m] = Indices]
  BY <1>1, <1>4, <1>5 DEF DistDue
<1>7. Promise!OpenDist(m, Indices)
  BY <1>4, <1>6 DEF Promise!OpenDist
<1>8. Promise!DistNext
  BY <1>0, <1>1, <1>7, IndicesBounded DEF Promise!DistNext
<1>9. DebtsSettled' /\ PlanShort'
  BY <1>1, <1>3, <1>4 DEF LedgerInv, DebtsSettled, PlanShort
<1>10. QED
  BY <1>8, <1>9 DEF Kept

\* A payment of a specific bequest discharges that bequest, which was owed.
LEMMA SpecificKept ==
  ASSUME LedgerInv, NEW j \in 1..MaxAssignments,
         ExecuteSpecificSol(j) \/ \E m \in Mints : ExecuteSpecificAsset(m, j)
  PROVE  Kept
<1>0. LifecycleInv
  BY DEF LedgerInv
<1>1. /\ vault # NoAccount /\ log # NoAccount /\ plan # NoAccount
      /\ UNCHANGED <<vault, log, dist>>
      /\ plan' = [plan EXCEPT !.paid_mask = @ \cup {j}]
      /\ j \in (1..Len(plan.assignments)) \ plan.paid_mask
  BY DEF ExecuteSpecificSol, ExecuteSpecificAsset, PayableSpecific, OfMint
<1>2. plan \in AssetPlan /\ j \in Nat
  BY <1>0, <1>1, BoundsAssumption DEF LifecycleInv, TypeOK
<1>3. /\ plan' \in AssetPlan /\ plan'.assignments = plan.assignments
      /\ plan'.paid_mask = plan.paid_mask \cup {j}
  BY <1>1, <1>2 DEF AssetPlan
<1>4. plan' # NoAccount
  BY <1>3, RecordsStay
<1>5. UNCHANGED <<Stage, SolDue, DistDue>> /\ Stage # "none"
  BY <1>1 DEF Stage, SolDue, DistDue, Indices
<1>6. j \in PlanDue /\ PlanDue' = PlanDue \ {j}
  BY <1>1, <1>3, <1>4 DEF PlanDue
<1>7. Promise!PayBequest(j)
  BY <1>5, <1>6 DEF Promise!PayBequest
<1>8. Promise!DistNext
  BY <1>7 DEF Promise!DistNext
<1>9. DebtsSettled' /\ PlanShort'
  BY <1>1, <1>3, <1>5, <1>6 DEF LedgerInv, DebtsSettled, PlanShort
<1>10. QED
  BY <1>8, <1>9 DEF Kept

\* execute_sol_shares discharges the shares of the batch that were owed.
LEMMA SolSharesKept ==
  ASSUME LedgerInv, NEW batch \in SUBSET (1..MaxBeneficiaries), ExecuteSolShares(batch)
  PROVE  Kept
<1>0. LifecycleInv /\ TypeOK
  BY DEF LedgerInv, LifecycleInv
<1>1. /\ vault # NoAccount /\ ~vault.executed /\ log # NoAccount
      /\ UNCHANGED <<vault, plan, dist>>
  BY DEF ExecuteSolShares
<1>2. log' # NoAccount
  BY <1>0, SolSharesTyped, RecordsStay
<1>3. log'.sol_paid_mask = log.sol_paid_mask \cup (batch \ log.sol_paid_mask)
  <2>1. \E y, z : log' = [log EXCEPT !.sol_paid_mask = @ \cup (batch \ log.sol_paid_mask),
                                     !.transfer_count = y,
                                     !.total_sol_distributed = z]
    BY DEF ExecuteSolShares, StillUnpaid
  <2>2. log \in ExecutionLog
    BY <1>0, <1>1 DEF TypeOK
  <2>3. QED
    BY <2>1, <2>2 DEF ExecutionLog
<1>4. UNCHANGED <<Stage, PlanDue, DistDue>> /\ Stage = "begun"
  BY <1>1, <1>2 DEF Stage, PlanDue, DistDue, Indices
<1>5. SolDue' = SolDue \ batch
  BY <1>1, <1>2, <1>3 DEF SolDue, Indices
<1>6. Promise!PaySol(batch)
  BY <1>4, <1>5 DEF Promise!PaySol
<1>7. Promise!DistNext
  BY <1>6 DEF Promise!DistNext
<1>8. DebtsSettled' /\ PlanShort'
  BY <1>1 DEF LedgerInv, DebtsSettled, PlanShort
<1>9. QED
  BY <1>7, <1>8 DEF Kept

\* execute_token_shares discharges the shares of one mint.
LEMMA TokenSharesKept ==
  ASSUME LedgerInv, NEW m \in Mints, NEW batch \in SUBSET (1..MaxBeneficiaries),
         ExecuteTokenShares(m, batch)
  PROVE  Kept
<1>0. LifecycleInv /\ TypeOK
  BY DEF LedgerInv, LifecycleInv
<1>1. vault # NoAccount /\ dist[m] # NoAccount /\ UNCHANGED <<vault, log, plan>>
  BY DEF ExecuteTokenShares
<1>2. /\ dist'[m] # NoAccount
      /\ \A x \in Mints : x # m => dist'[x] = dist[x]
  BY <1>0, TokenSharesTyped, RecordsStay
<1>3. dist'[m].paid_mask = dist[m].paid_mask \cup (batch \ dist[m].paid_mask)
  <2>1. dist' = [dist EXCEPT ![m].paid_mask = @ \cup (batch \ dist[m].paid_mask)]
    BY DEF ExecuteTokenShares, StillUnpaid
  <2>2. dist \in [Mints -> TokenDist \cup {NoAccount}] /\ dist[m] \in TokenDist
    BY <1>0, <1>1 DEF TypeOK
  <2>3. QED
    BY <2>1, <2>2 DEF TokenDist
<1>4. UNCHANGED <<Stage, SolDue, PlanDue, Indices>>
  BY <1>1 DEF Stage, SolDue, PlanDue, Indices
<1>5. DistDue' = [DistDue EXCEPT ![m] = @ \ batch]
  BY <1>1, <1>2, <1>3, <1>4 DEF DistDue
<1>6. DistDue[m] # NoAccount
  <2>1. DistDue[m] = Indices \ dist[m].paid_mask
    BY <1>1 DEF DistDue
  <2>2. Indices \ dist[m].paid_mask \in SUBSET (1..MaxBeneficiaries)
    BY <1>0, <1>1, IndicesBounded
  <2>3. QED
    BY <2>1, <2>2, DebtsAssumption
<1>7. Promise!PayTokens(m, batch)
  BY <1>4, <1>5, <1>6 DEF Promise!PayTokens
<1>8. Promise!DistNext
  BY <1>7 DEF Promise!DistNext
<1>9. DebtsSettled' /\ PlanShort'
  BY <1>1, <1>4 DEF LedgerInv, DebtsSettled, PlanShort
<1>10. QED
  BY <1>8, <1>9 DEF Kept

\* finalize_execution finds every share and every bequest discharged.
LEMMA FinalizeKept ==
  ASSUME LedgerInv, NEW payer \in Payers, FinalizeExecution(payer)
  PROVE  Kept
<1>0. LifecycleInv
  BY DEF LedgerInv
<1>1. /\ vault # NoAccount /\ ~vault.executed /\ log # NoAccount
      /\ log.sol_paid_mask = Indices
      /\ vault.has_asset_plan => plan # NoAccount /\ FullPlan
      /\ UNCHANGED <<plan, dist>>
      /\ vault' = [vault EXCEPT !.executed = TRUE, !.active = FALSE]
      /\ log' = [log EXCEPT !.completed = TRUE]
  BY DEF FinalizeExecution
<1>2. vault \in VaultConfig /\ log \in ExecutionLog
  BY <1>0, <1>1 DEF LifecycleInv, TypeOK
<1>3. /\ vault'.executed = TRUE /\ vault'.beneficiaries = vault.beneficiaries
      /\ log' \in ExecutionLog /\ log'.sol_paid_mask = log.sol_paid_mask
  BY <1>1, <1>2 DEF VaultConfig, ExecutionLog
<1>4. log' # NoAccount
  BY <1>3, RecordsStay
<1>5. SolDue = {} /\ SolDue' = {} /\ UNCHANGED DistDue
  BY <1>1, <1>3, <1>4 DEF SolDue, DistDue, Indices
<1>6. PlanDue = {} /\ PlanDue' = {}
  <2>1. plan # NoAccount => vault.has_asset_plan
    BY <1>0, <1>1 DEF LifecycleInv, AccountsTogether
  <2>2. QED
    BY <1>1, <1>4, <2>1 DEF PlanDue, FullPlan
<1>7. Stage = "begun" /\ Stage' = "executed"
  BY <1>1, <1>3, <1>4 DEF Stage
<1>8. Promise!Finalize
  BY <1>5, <1>6, <1>7 DEF Promise!Finalize
<1>9. Promise!DistNext
  BY <1>8 DEF Promise!DistNext
<1>10. DebtsSettled' /\ PlanShort'
  BY <1>1, <1>5, <1>6 DEF LedgerInv, DebtsSettled, PlanShort
<1>11. QED
  BY <1>9, <1>10 DEF Kept

\* close_token_dist finds the residual of its mint paid in full.
LEMMA CloseDistKept ==
  ASSUME LedgerInv, NEW m \in Mints, CloseTokenDist(m)
  PROVE  Kept
<1>0. LifecycleInv
  BY DEF LedgerInv
<1>1. /\ vault # NoAccount /\ vault.executed /\ dist[m] # NoAccount
      /\ dist[m].paid_mask = Indices
      /\ UNCHANGED <<log, plan>>
      /\ \E n : vault' = [vault EXCEPT !.open_token_dists = n]
      /\ dist' = [dist EXCEPT ![m] = NoAccount]
  BY DEF CloseTokenDist
<1>2. vault \in VaultConfig /\ log # NoAccount
  BY <1>0, <1>1 DEF LifecycleInv, TypeOK, DistsNeedLog
<1>3. /\ vault'.executed = vault.executed
      /\ vault'.beneficiaries = vault.beneficiaries
  BY <1>1, <1>2 DEF VaultConfig
<1>4. UNCHANGED <<Stage, SolDue, PlanDue, Indices>> /\ Stage = "executed"
  BY <1>1, <1>2, <1>3 DEF Stage, SolDue, PlanDue, Indices
<1>5. dist'[m] = NoAccount /\ \A x \in Mints : x # m => dist'[x] = dist[x]
  BY <1>0, <1>1 DEF LifecycleInv, TypeOK
<1>6. DistDue[m] = {} /\ DistDue' = [DistDue EXCEPT ![m] = NoAccount]
  BY <1>1, <1>4, <1>5 DEF DistDue
<1>7. Promise!CloseDist(m)
  BY <1>4, <1>6 DEF Promise!CloseDist
<1>8. Promise!DistNext
  BY <1>7 DEF Promise!DistNext
<1>9. DebtsSettled' /\ PlanShort'
  BY <1>1, <1>3, <1>4 DEF LedgerInv, DebtsSettled, PlanShort
<1>10. QED
  BY <1>8, <1>9 DEF Kept

\* A core close finds no distribution open and, of an executed vault, no debt.
LEMMA CloseKept ==
  ASSUME LedgerInv, NEW rentTo, vault # NoAccount, vault.executed, log # NoAccount,
         vault.open_token_dists = 0, CloseCore(rentTo)
  PROVE  Kept
<1>0. LifecycleInv
  BY DEF LedgerInv
<1>1. /\ vault' = NoAccount /\ log' = NoAccount /\ dist' = dist
      /\ plan' = plan \/ plan' = NoAccount
  BY DEF CloseCore, PlanClosed
<1>2. \A m \in Mints : dist[m] = NoAccount
  BY <1>0, ClosedWithoutDists
<1>3. Stage = "executed" /\ Stage' = "none"
  BY <1>1 DEF Stage
<1>4. SolDue = {} /\ PlanDue = {} /\ SolDue' = {} /\ PlanDue' = {}
  BY <1>1 DEF LedgerInv, DebtsSettled, SolDue, PlanDue
<1>5. UNCHANGED DistDue /\ \A m \in Mints : DistDue[m] = NoAccount
  BY <1>1, <1>2 DEF DistDue
<1>6. Promise!Close
  BY <1>3, <1>4, <1>5 DEF Promise!Close, Promise!NoDistOpen
<1>7. Promise!DistNext
  BY <1>6 DEF Promise!DistNext
<1>8. DebtsSettled' /\ PlanShort'
  BY <1>1 DEF LedgerInv, DebtsSettled, PlanShort
<1>9. QED
  BY <1>7, <1>8 DEF Kept

\* Every step keeps the invariant and is a step of the promise.
LEMMA LedgerNext ==
  ASSUME LedgerInv, [Next]_vars
  PROVE  LedgerInv' /\ [Promise!DistNext]_Promise!distVars
<1>1. SUFFICES Kept
  BY LifeNext DEF Kept, LedgerInv
<1>2. CASE UNCHANGED <<vault, log, plan, dist>>
  BY <1>2, QuietKept
<1>3. CASE OwnerNext \/ AgentNext
  <2>1. CASE ~CloseExecutedVaultByOwner
    BY <1>3, <2>1, OwnerKept
  <2>2. CASE CloseExecutedVaultByOwner
    BY <2>2, CloseKept DEF CloseExecutedVaultByOwner, VaultExists
  <2>3. QED
    BY <2>1, <2>2
<1>4. CASE CrankNext
  <2>1. ASSUME NEW payer \in Payers, CloseExecutedVault(payer) PROVE Kept
    BY <2>1, CloseKept DEF CloseExecutedVault, VaultExists
  <2>2. QED
    BY <1>4, <2>1, BeginKept, BeginDistKept, SpecificKept, SolSharesKept,
       TokenSharesKept, FinalizeKept, CloseDistKept DEF CrankNext
<1>5. CASE EnvironmentNext
  BY <1>2, <1>5 DEF EnvironmentNext, Tick, DepositSol, CreateVaultAta, DepositTokens,
     Freeze, Thaw
<1>6. QED
  BY <1>2, <1>3, <1>4, <1>5 DEF Next

\* The initial chain owes nothing.
LEMMA LedgerInit == Init => LedgerInv /\ Promise!DistInit
<1>1. ASSUME Init PROVE DebtsSettled /\ PlanShort /\ Promise!DistInit
  BY <1>1 DEF Init, DebtsSettled, PlanShort, Promise!DistInit, Stage, SolDue, PlanDue, DistDue
<1>2. QED
  BY <1>1, LifeInit DEF LedgerInv

\* The program implements Distribution: under every interleaving of cranks,
\* owner instructions and transfers a debt of an execution is discharged once,
\* in the promised order, and none comes back.
THEOREM ImplementsPromise == Spec => Distributes
<1>1. LedgerInv /\ [Next]_vars => LedgerInv' /\ [Promise!DistNext]_Promise!distVars
  BY LedgerNext
<1>2. QED
  BY <1>1, LedgerInit, PTL DEF Spec, Distributes, Promise!DistSpec
===============================================================================
