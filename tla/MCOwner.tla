------------------------------- MODULE MCOwner -------------------------------
(* Instances of the owner's consoles: two heirs, whose order on the screen   *)
(* is what a bequest refers to.                                              *)
EXTENDS OwnerApp

CONSTANTS h1, h2

OneList == {<<h1, h2>>}
==============================================================================
