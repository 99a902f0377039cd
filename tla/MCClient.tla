------------------------------ MODULE MCClient ------------------------------
(***************************************************************************)
(* Instances of NotificationClient for TLC.                                *)
(***************************************************************************)
EXTENDS NotificationClient, TLC

CONSTANTS t1, t2, c1, c2

ClientSymmetry == Permutations(Checks) \cup Permutations(Tokens)
==============================================================================
