----------------------------- MODULE MCEscalation -----------------------------
(* Two vaults of one owner; stage 1 is seen at one unit overdue, stage 4 at  *)
(* four.                                                                     *)
EXTENDS Escalation

Ends == <<2, 3, 4>>
TwoVaults == << {"spec", "tok"}, {"spec", "sol"} >>
===============================================================================
