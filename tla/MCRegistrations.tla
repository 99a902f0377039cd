--------------------------- MODULE MCRegistrations ---------------------------
(***************************************************************************)
(* Instances of Registrations for TLC: one vault, its owner, who moves to  *)
(* another device, and a holder of the secret who asks for the vault too.  *)
(***************************************************************************)
EXTENDS Registrations, TLC

CONSTANTS o1, o2, v1, s1, s2, n1, n2, t1, t2

OwnerOfV1 == [v \in Vaults |-> o1]
SlotSymmetry == Permutations(Slots) \cup Permutations(Nonces)

Register(o, t, r) == [owner |-> o, vault |-> v1, token |-> t, revision |-> r]
OwnerSigns == {Register(o1, t1, 1), Register(o1, t2, 1), Register(o1, t2, 2)}
OwnerLeaves == {[owner |-> o1, vault |-> v1]}
SecretHolders == {[owner |-> o, vault |-> v1, token |-> t1] : o \in Owners}
==============================================================================
