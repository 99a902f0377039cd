------------------------------- MODULE MCCrank -------------------------------
(***************************************************************************)
(* An instance of Crank for TLC.                                           *)
(***************************************************************************)
EXTENDS Crank

CONSTANTS k, c, m1

\* A bequest of SOL before one of the mint, and no plan at all.
SolAndMint == {<<SOL, m1>>, << >>}

\* A keeper with a server and an app, one that only cranks with an heir, and an
\* heir without a keeper.
Pairs == {<<"keeper", "server">>, <<"keeper", "app">>, <<"crankOnly", "heir">>,
          <<"web", "server">>}
PairsOf == {k :> p[1] @@ c :> p[2] : p \in Pairs}
==============================================================================
