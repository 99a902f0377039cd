-------------------------------- MODULE Sums --------------------------------
(***************************************************************************)
(* Sums of natural numbers over the indices of a list.                     *)
(***************************************************************************)
EXTENDS Integers

\* PrefixSums(n, f)[k] is f[1] + ... + f[k].
PrefixSums(n, f) ==
    LET s[k \in 0..n] == IF k = 0 THEN 0 ELSE s[k - 1] + f[k] IN s

SumTo(n, f) == PrefixSums(n, f)[n]

\* The sum of f over the indices of 1..n that are in S.
SumOver(n, S, f) == SumTo(n, [k \in 1..n |-> IF k \in S THEN f[k] ELSE 0])
=============================================================================
