------------------------------ MODULE CrankProofs ------------------------------
(***************************************************************************)
(* Proofs about the crankers: however keepers, servers, apps and heirs     *)
(* overtake each other, a keeper closes no vault over a balance that its   *)
(* scan could have seen.  A scan that another cluster answers sees nothing.  *)
(***************************************************************************)
EXTENDS Crank, TLAPS

------------------------------------------------------------------------------
(* One cranker moves.                                                      *)

\* A cranker that moves, and is not about to close afterwards, disturbs
\* nobody's scan as long as nothing arrives.
LEMMA MovesOn ==
  ASSUME CrankInv, NEW c \in Crankers, NEW y, Shaped(y), y.pc # "close",
         crank' = [crank EXCEPT ![c] = y], held' \subseteq held, orphaned' = {}
  PROVE  CrankInv'
<1>1. crank' = [i \in Crankers |-> IF i = c THEN y ELSE crank[i]]
  BY DEF CrankInv
<1>2. ASSUME NEW i \in Crankers PROVE Shaped(crank'[i]) /\ ScanHolds(crank[i])
  BY <1>1 DEF CrankInv
<1>3. ASSUME NEW i \in Crankers, crank'[i].pc = "close" PROVE held' \subseteq crank'[i].fresh
  <2>1. i # c /\ crank'[i] = crank[i]
    BY <1>1, <1>3
  <2>2. held \subseteq crank[i].fresh
    BY <1>2, <1>3, <2>1 DEF ScanHolds
  <2> QED
    BY <2>1, <2>2
<1>4. crank' = [i \in Crankers |-> crank'[i]]
  BY <1>1
<1> QED
  BY <1>2, <1>3, <1>4 DEF CrankInv, ScanHolds

\* Nobody moves and nothing arrives.
LEMMA NobodyMoves ==
  ASSUME CrankInv, UNCHANGED crank, held' \subseteq held, orphaned' = {}
  PROVE  CrankInv'
<1>1. \A i \in Crankers : Shaped(crank[i]) /\ ScanHolds(crank[i])
  BY DEF CrankInv
<1>2. \A i \in Crankers : crank[i].pc = "close" => held' \subseteq crank[i].fresh
  BY <1>1 DEF ScanHolds
<1> QED
  BY <1>1, <1>2 DEF CrankInv, ScanHolds

\* The ways in which a cranker moves keep its record one, and none of them
\* leads to the close.
LEMMA Goes ==
  ASSUME CrankInv, NEW c \in Crankers, NEW pc, pc # "close", held' \subseteq held,
         orphaned' = {}, Goto(c, pc) \/ ToMints(c, pc)
  PROVE  CrankInv'
<1> DEFINE x == crank[c]
           todo == x.mints \ x.stuck
           y == [x EXCEPT !.pc = pc]
           z == [x EXCEPT !.pc = pc, !.todo = todo, !.next = 0, !.fresh = {}]
<1>1. Shaped(x)
  BY DEF CrankInv
<1>2. CASE Goto(c, pc)
  <2>1. crank' = [crank EXCEPT ![c] = y]
    BY <1>2 DEF Goto, CrankInv
  <2>2. Shaped(y) /\ y.pc # "close"
    <3> HIDE DEF x
    <3> QED
      BY <1>1 DEF Shaped
  <2> HIDE DEF y
  <2> QED
    BY <2>1, <2>2, MovesOn
<1>3. CASE ToMints(c, pc)
  <2>1. crank' = [crank EXCEPT ![c] = z]
    BY <1>3 DEF ToMints, CrankInv
  <2>2. Shaped(z) /\ z.pc # "close"
    <3> HIDE DEF x, todo
    <3> QED
      BY <1>1 DEF Shaped
  <2> HIDE DEF z
  <2> QED
    BY <2>1, <2>2, MovesOn
<1> QED
  BY <1>2, <1>3

\* A mint is done with (OpenTokenDist, ExecuteTokenShares, CloseTokenDist).
LEMMA MintDone ==
  ASSUME CrankInv, NEW c \in Crankers, held' \subseteq held, orphaned' = {},
         NEW m, ~Is(c, "close"), Done(c, m)
  PROVE  CrankInv'
<1> DEFINE x == crank[c]
           todo == x.todo \ {m}
           y == [x EXCEPT !.todo = todo]
<1>1. Shaped(x)
  BY DEF CrankInv
<1>2. x.pc # "close"
  BY DEF Is
<1>3. crank' = [crank EXCEPT ![c] = y]
  BY DEF CrankInv, Done
<1>4. Shaped(y) /\ y.pc # "close"
  <2> HIDE DEF x, todo
  <2> QED
    BY <1>1, <1>2 DEF Shaped
<1> HIDE DEF y
<1> QED
  BY <1>3, <1>4, MovesOn

\* A mint is skipped for the rest of the pass (markStuck).
LEMMA MintStuck ==
  ASSUME CrankInv, NEW c \in Crankers, held' \subseteq held, orphaned' = {},
         NEW m, ~Is(c, "close"), markStuck(c, m)
  PROVE  CrankInv'
<1> DEFINE x == crank[c]
           todo == x.todo \ {m}
           stuck == x.stuck \cup {m}
           y == [x EXCEPT !.todo = todo, !.stuck = stuck]
<1>1. Shaped(x)
  BY DEF CrankInv
<1>2. x.pc # "close"
  BY DEF Is
<1>3. crank' = [crank EXCEPT ![c] = y]
  BY DEF CrankInv, markStuck
<1>4. Shaped(y) /\ y.pc # "close"
  <2> HIDE DEF x, todo, stuck
  <2> QED
    BY <1>1, <1>2 DEF Shaped
<1> HIDE DEF y
<1> QED
  BY <1>3, <1>4, MovesOn

\* The mints of the pass are read (Collect, CollectsNothing).
LEMMA Collects ==
  ASSUME CrankInv, NEW c \in Crankers, held' \subseteq held, orphaned' = {},
         Collect(c) \/ CollectsNothing(c)
  PROVE  CrankInv'
<1>0. PICK mints : crank' = [crank EXCEPT ![c].pc = "open", ![c].mints = mints,
                                          ![c].todo = mints, ![c].fresh = planDue]
  BY DEF Collect, CollectsNothing
<1> DEFINE x == crank[c]
           y == [x EXCEPT !.pc = "open", !.mints = mints, !.todo = mints, !.fresh = planDue]
<1>1. Shaped(x)
  BY DEF CrankInv
<1>2. crank' = [crank EXCEPT ![c] = y]
  BY <1>0 DEF CrankInv
<1>3. Shaped(y) /\ y.pc # "close"
  <2> HIDE DEF x
  <2> QED
    BY <1>1 DEF Shaped
<1> HIDE DEF y
<1> QED
  BY <1>2, <1>3, MovesOn

\* A bequest is passed, paid or not (ExecuteSpecific).
LEMMA Marks ==
  ASSUME CrankInv, NEW c \in Crankers, held' \subseteq held, orphaned' = {},
         NEW j, NEW fresh, NEW stuck, ~Is(c, "close"),
         crank' = [crank EXCEPT ![c].next = j, ![c].fresh = fresh, ![c].stuck = stuck]
  PROVE  CrankInv'
<1> DEFINE x == crank[c]
           y == [x EXCEPT !.next = j, !.fresh = fresh, !.stuck = stuck]
<1>1. Shaped(x)
  BY DEF CrankInv
<1>2. x.pc # "close"
  BY DEF Is
<1>3. crank' = [crank EXCEPT ![c] = y]
  BY DEF CrankInv
<1>4. Shaped(y) /\ y.pc # "close"
  <2> HIDE DEF x
  <2> QED
    BY <1>1, <1>2 DEF Shaped
<1> HIDE DEF y
<1> QED
  BY <1>3, <1>4, MovesOn

\* The same for a bequest that was paid (ExecuteSpecific).
LEMMA MarksPaid ==
  ASSUME CrankInv, NEW c \in Crankers, held' \subseteq held, orphaned' = {},
         NEW j, NEW fresh, ~Is(c, "close"),
         crank' = [crank EXCEPT ![c].next = j, ![c].fresh = fresh]
  PROVE  CrankInv'
<1> DEFINE x == crank[c]
           y == [x EXCEPT !.next = j, !.fresh = fresh]
<1>1. Shaped(x)
  BY DEF CrankInv
<1>2. x.pc # "close"
  BY DEF Is
<1>3. crank' = [crank EXCEPT ![c] = y]
  BY DEF CrankInv
<1>4. Shaped(y) /\ y.pc # "close"
  <2> HIDE DEF x
  <2> QED
    BY <1>1, <1>2 DEF Shaped
<1> HIDE DEF y
<1> QED
  BY <1>3, <1>4, MovesOn

\* The keeper starts a pass, or the scan (KeeperTick).
LEMMA Ticks ==
  ASSUME CrankInv, NEW c \in Crankers, held' \subseteq held, orphaned' = {},
         NEW cleanup, NEW pc, pc # "close",
         crank' = [crank EXCEPT ![c].cleanup = cleanup, ![c].pc = pc]
  PROVE  CrankInv'
<1> DEFINE x == crank[c]
           y == [x EXCEPT !.cleanup = cleanup, !.pc = pc]
<1>1. Shaped(x)
  BY DEF CrankInv
<1>2. crank' = [crank EXCEPT ![c] = y]
  BY DEF CrankInv
<1>3. Shaped(y) /\ y.pc # "close"
  <2> HIDE DEF x
  <2> QED
    BY <1>1 DEF Shaped
<1> HIDE DEF y
<1> QED
  BY <1>2, <1>3, MovesOn

\* The app starts its one pass (AppExecutes).
LEMMA AppStarts ==
  ASSUME CrankInv, NEW c \in Crankers, held' \subseteq held, orphaned' = {},
         AppExecutes(c)
  PROVE  CrankInv'
<1> DEFINE x == crank[c]
           y == [x EXCEPT !.pc = "begin", !.started = TRUE]
<1>1. Shaped(x)
  BY DEF CrankInv
<1>2. crank' = [crank EXCEPT ![c] = y]
  BY DEF CrankInv, AppExecutes
<1>3. Shaped(y) /\ y.pc # "close"
  <2> HIDE DEF x
  <2> QED
    BY <1>1 DEF Shaped
<1> HIDE DEF y
<1> QED
  BY <1>2, <1>3, MovesOn

\* The list of inheritances is read (fetchInheritances).
LEMMA ListRead ==
  ASSUME CrankInv, NEW c \in Crankers, held' \subseteq held, orphaned' = {},
         fetchInheritances(c)
  PROVE  CrankInv'
<1> DEFINE x == crank[c]
           shown == status
           y == [x EXCEPT !.shown = shown]
<1>1. Shaped(x)
  BY DEF CrankInv
<1>2. x.pc = "idle"
  BY DEF fetchInheritances, Is
<1>3. crank' = [crank EXCEPT ![c] = y]
  BY DEF CrankInv, fetchInheritances
<1>4. Shaped(y) /\ y.pc # "close"
  <2> HIDE DEF x, shown
  <2> QED
    BY <1>1, <1>2 DEF Shaped
<1> HIDE DEF y
<1> QED
  BY <1>3, <1>4, MovesOn

\* A claim is built (runClaim).
LEMMA ClaimStarts ==
  ASSUME CrankInv, NEW c \in Crankers, held' \subseteq held, orphaned' = {},
         runClaim(c)
  PROVE  CrankInv'
<1> DEFINE x == crank[c]
           steps == buildClaimTransactions
           y == [x EXCEPT !.pc = "claim", !.steps = steps, !.next = 1]
<1>1. Shaped(x)
  BY DEF CrankInv
<1>2. crank' = [crank EXCEPT ![c] = y]
  BY DEF CrankInv, runClaim
<1>3. Shaped(y) /\ y.pc # "close"
  <2> HIDE DEF x, steps
  <2> QED
    BY <1>1 DEF Shaped
<1> HIDE DEF y
<1> QED
  BY <1>2, <1>3, MovesOn

\* A step of a claim is behind it (sendConfirm, ConfirmationLost, StepLost).
LEMMA ClaimSends ==
  ASSUME CrankInv, NEW c \in Crankers, held' \subseteq held, orphaned' = {},
         NEW counted, Is(c, "claim"), Sent(c, counted)
  PROVE  CrankInv'
<1> DEFINE x == crank[c]
           steps == Tail(x.steps)
           progressed == x.progressed \/ counted
           started == x.started \/ counted
           y == [x EXCEPT !.steps = steps, !.progressed = progressed, !.started = started]
<1>1. Shaped(x)
  BY DEF CrankInv
<1>2. x.pc = "claim"
  BY DEF Is
<1>3. crank' = [crank EXCEPT ![c] = y]
  BY DEF CrankInv, Sent
<1>4. Shaped(y) /\ y.pc # "close"
  <2> HIDE DEF x, steps, progressed, started
  <2> QED
    BY <1>1, <1>2 DEF Shaped
<1> HIDE DEF y
<1> QED
  BY <1>3, <1>4, MovesOn

\* A claim is built anew (NextPass).
LEMMA ClaimGoesOn ==
  ASSUME CrankInv, NEW c \in Crankers, held' \subseteq held, orphaned' = {},
         NextPass(c)
  PROVE  CrankInv'
<1> DEFINE x == crank[c]
           steps == buildClaimTransactions
           next == x.next + 1
           y == [x EXCEPT !.steps = steps, !.next = next, !.progressed = FALSE]
<1>1. Shaped(x)
  BY DEF CrankInv
<1>2. x.pc = "claim"
  BY DEF NextPass, Is
<1>3. crank' = [crank EXCEPT ![c] = y]
  BY DEF CrankInv, NextPass
<1>4. Shaped(y) /\ y.pc # "close"
  <2> HIDE DEF x, steps, next
  <2> QED
    BY <1>1, <1>2 DEF Shaped
<1> HIDE DEF y
<1> QED
  BY <1>3, <1>4, MovesOn

\* A cranker at rest has a record, and is not about to close (Rest).
LEMMA RestedShaped ==
  ASSUME NEW c \in Crankers
  PROVE  /\ Shaped(Rested(c)) /\ Rested(c).pc = "idle"
         /\ Shaped(Resting) /\ Resting.pc = "idle"
<1> DEFINE started == kind[c] = "app" /\ crank[c].started
           shown == crank[c].shown
           x == [Resting EXCEPT !.started = started, !.shown = shown]
<1>1. Shaped(Resting) /\ Resting.pc = "idle"
  BY DEF Resting, Shaped
<1>2. Shaped(x) /\ x.pc = "idle"
  <2> HIDE DEF started, shown
  <2> QED
    BY <1>1 DEF Shaped
<1> QED
  BY <1>1, <1>2 DEF Rested

\* A pass ends, in any of its ways (Rest, FinishPass, AppRestarts, ClaimFails,
\* buildCloseTokenDistTransactions, ClaimReturns).
LEMMA Rests ==
  ASSUME CrankInv, NEW c \in Crankers, held' \subseteq held, orphaned' = {},
         NEW todo, NEW shown,
         \/ Rest(c)
         \/ crank' = [crank EXCEPT ![c] = Resting]
         \/ crank' = [crank EXCEPT ![c] = [Resting EXCEPT !.pc = "scan"]]
         \/ crank' = [crank EXCEPT ![c] = [Resting EXCEPT !.shown = shown]]
         \/ crank' = [crank EXCEPT ![c] = [Rested(c) EXCEPT !.shown = shown]]
         \/ crank' = [crank EXCEPT ![c] = [Rested(c) EXCEPT !.pc = "sweep", !.todo = todo]]
  PROVE  CrankInv'
<1> DEFINE scanning == [Resting EXCEPT !.pc = "scan"]
           listed == [Resting EXCEPT !.shown = shown]
           failed == [Rested(c) EXCEPT !.shown = shown]
           sweeping == [Rested(c) EXCEPT !.pc = "sweep", !.todo = todo]
<1>1. /\ Shaped(Rested(c)) /\ Rested(c).pc = "idle"
      /\ Shaped(Resting) /\ Resting.pc = "idle"
  BY RestedShaped
<1>2. Shaped(scanning) /\ scanning.pc # "close"
  BY <1>1 DEF Shaped
<1>3. Shaped(listed) /\ listed.pc # "close"
  BY <1>1 DEF Shaped
<1>4. Shaped(failed) /\ failed.pc # "close"
  BY <1>1 DEF Shaped
<1>5. Shaped(sweeping) /\ sweeping.pc # "close"
  BY <1>1 DEF Shaped
<1>6. \E y \in {Rested(c), Resting, scanning, listed, failed, sweeping} :
         crank' = [crank EXCEPT ![c] = y]
  BY DEF Rest
<1> HIDE DEF scanning, listed, failed, sweeping
<1>7. PICK y \in {Rested(c), Resting, scanning, listed, failed, sweeping} :
         crank' = [crank EXCEPT ![c] = y]
  BY <1>6
<1>8. Shaped(y) /\ y.pc # "close"
  BY <1>1, <1>2, <1>3, <1>4, <1>5
<1> QED
  BY <1>7, <1>8, MovesOn

------------------------------------------------------------------------------
(* The steps of a pass, of a claim, of the keeper and of the world.        *)

\* A pass never disturbs a scan: it takes balances out, and never goes to the
\* close itself (Opening, Paying).
LEMMA PassStep ==
  ASSUME CrankInv, NEW c \in Crankers, Opening(c) \/ Paying(c)
  PROVE  CrankInv'
<1>1. orphaned = {}
  BY DEF CrankInv
<1>2. CASE BeginExecution(c)
  <2>1. held' \subseteq held /\ orphaned' = {} /\ Goto(c, "collect")
    BY <1>1, <1>2 DEF BeginExecution
  <2> QED
    BY <2>1, Goes
<1>3. CASE Collect(c)
  <2>1. held' \subseteq held /\ orphaned' = {}
    BY <1>1, <1>3 DEF Collect, chain
  <2> QED
    BY <1>3, <2>1, Collects
<1>4. ASSUME NEW m \in DistMints,
             OpenTokenDist(c, m) \/ ExecuteTokenShares(c, m) \/ CloseTokenDist(c, m)
      PROVE  CrankInv'
  <2>1. held' \subseteq held /\ orphaned' = {} /\ (Done(c, m) \/ markStuck(c, m)) /\ ~Is(c, "close")
    BY <1>1, <1>4 DEF OpenTokenDist, ExecuteTokenShares, CloseTokenDist, Is
  <2> QED
    BY <2>1, MintDone, MintStuck
<1>5. CASE ExecuteSpecific(c)
  <2> DEFINE j == FirstBequest(c)
             stuck == IF plan[j] = SOL THEN crank[c].stuck ELSE crank[c].stuck \cup {plan[j]}
  <2>1. held' \subseteq held /\ orphaned' = {} /\ ~Is(c, "close")
    BY <1>1, <1>5 DEF ExecuteSpecific, Opened, Is
  <2>2. \/ crank' = [crank EXCEPT ![c].next = j, ![c].fresh = MaskSeen(c)]
        \/ crank' = [crank EXCEPT ![c].next = j, ![c].fresh = MaskSeen(c), ![c].stuck = stuck]
    BY <1>5 DEF ExecuteSpecific
  <2> HIDE DEF j, stuck
  <2> QED
    BY <2>1, <2>2, Marks, MarksPaid
<1>6. CASE ExecuteSolShares(c)
  <2>1. held' \subseteq held /\ orphaned' = {} /\ UNCHANGED crank
    BY <1>1, <1>6 DEF ExecuteSolShares
  <2> QED
    BY <2>1, NobodyMoves
<1>7. CASE FinalizeExecution(c)
  <2>1. held' \subseteq held /\ orphaned' = {} /\ ToMints(c, "residual")
    BY <1>1, <1>7 DEF FinalizeExecution
  <2> QED
    BY <2>1, Goes
<1>8. CASE CloseDists(c)
  <2>1. held' \subseteq held /\ orphaned' = {} /\ (ToMints(c, "sweep") \/ Goto(c, "finish"))
    BY <1>1, <1>8 DEF CloseDists, chain
  <2> QED
    BY <2>1, Goes
<1>9. CASE FinishPass(c)
  <2>1. /\ held' \subseteq held /\ orphaned' = {}
        /\ Rest(c) \/ crank' = [crank EXCEPT ![c] = [Resting EXCEPT !.pc = "scan"]]
    BY <1>1, <1>9 DEF FinishPass, chain
  <2> QED
    BY <2>1, Rests
<1> QED
  BY <1>2, <1>3, <1>4, <1>5, <1>6, <1>7, <1>8, <1>9 DEF Opening, Paying

\* Nor does a failure (MintFails, Abort, Overtaken, AppReverts, AppRestarts).
LEMMA FailureStep ==
  ASSUME CrankInv, NEW c \in Crankers,
         \/ \E m \in DistMints : MintFails(c, m)
         \/ Abort(c) \/ Overtaken(c) \/ AppReverts(c) \/ AppRestarts(c) \/ Revalidated(c)
  PROVE  CrankInv'
<1>1. held' \subseteq held /\ orphaned' = {}
  BY DEF CrankInv, MintFails, Abort, Overtaken, AppReverts, AppRestarts, Revalidated, chain
<1>2. CASE \E m \in DistMints : MintFails(c, m)
  BY <1>1, <1>2, MintStuck DEF MintFails, Is
<1>3. CASE Rest(c) \/ crank' = [crank EXCEPT ![c] = Resting]
  BY <1>1, <1>3, Rests
<1>4. CASE AppReverts(c)
  <2>1. CASE Goto(c, "collect") \/ ToMints(c, "residual")
    BY <1>1, <2>1, Goes
  <2>2. CASE ~Is(c, "close") /\ \E m \in crank[c].todo : Done(c, m)
    BY <1>1, <2>2, MintDone
  <2>3. CASE /\ Opened(c)
             /\ crank' = [crank EXCEPT ![c].next = FirstBequest(c), ![c].fresh = MaskSeen(c)]
    <3>1. ~Is(c, "close")
      BY <2>3 DEF Opened, Is
    <3> QED
      BY <1>1, <2>3, <3>1, MarksPaid
  <2> QED
    BY <1>4, <2>1, <2>2, <2>3 DEF AppReverts
<1> QED
  BY <1>2, <1>3, <1>4 DEF Abort, Overtaken, AppRestarts, Revalidated

\* The keeper goes to the close only over a vault that holds nothing, and
\* closes over nothing but what has arrived since (AntiOrphanScan, CloseVault).
LEMMA KeeperCloses ==
  ASSUME CrankInv, NEW c \in Crankers, AntiOrphanScan(c) \/ CloseVault(c)
  PROVE  CrankInv'
<1>1. CASE AntiOrphanScan(c)
  <2>1. UNCHANGED held /\ orphaned' = {}
    BY <1>1 DEF AntiOrphanScan, chain, CrankInv
  <2>2. CASE Rest(c)
    BY <2>1, <2>2, Rests
  <2>3. CASE vaultHoldsNoTokens /\ crank' = [crank EXCEPT ![c].pc = "close", ![c].fresh = {}]
    <3> DEFINE x == crank[c]
               y == [x EXCEPT !.pc = "close", !.fresh = {}]
    <3>1. Shaped(x)
      BY DEF CrankInv
    <3>2. crank' = [crank EXCEPT ![c] = y]
      BY <2>3 DEF CrankInv
    <3>3. Shaped(y)
      <4> HIDE DEF x
      <4> QED
        BY <3>1 DEF Shaped
    <3>4. held' = {}
      BY <2>1, <2>3 DEF vaultHoldsNoTokens
    <3> HIDE DEF y
    <3>5. crank' = [i \in Crankers |-> IF i = c THEN y ELSE crank[i]]
      BY <3>2 DEF CrankInv
    <3>6. crank' = [i \in Crankers |-> crank'[i]] /\ \A i \in Crankers : Shaped(crank'[i])
      BY <3>3, <3>5 DEF CrankInv
    <3> QED
      BY <2>1, <3>4, <3>6 DEF CrankInv, ScanHolds
  <2> QED
    BY <1>1, <2>2, <2>3 DEF AntiOrphanScan
<1>2. CASE CloseVault(c)
  <2>1. held \subseteq crank[c].fresh
    BY <1>2 DEF CloseVault, Is, CrankInv, ScanHolds
  <2>2. UNCHANGED held /\ Rest(c) /\ orphaned' = {}
    BY <1>2, <2>1 DEF CloseVault, CrankInv
  <2> QED
    BY <2>2, Rests
<1> QED
  BY <1>1, <1>2

\* A scan that another cluster answers goes to the close over everything that is
\* there, and no other answer of it leads there (AnsweredElsewhere).
LEMMA MisreadStep ==
  ASSUME CrankInv, NEW c \in Crankers, AnsweredElsewhere(c)
  PROVE  CrankInv'
<1>1. UNCHANGED held /\ orphaned' = {}
  BY DEF AnsweredElsewhere, chain, CrankInv
<1>2. CASE CollectsNothing(c)
  BY <1>1, <1>2, Collects
<1>3. CASE \E m \in DistMints : MissesMint(c, m)
  <2>1. PICK m \in DistMints : ~Is(c, "close") /\ (Done(c, m) \/ markStuck(c, m))
    BY <1>3 DEF MissesMint, Is
  <2> QED
    BY <1>1, <2>1, MintDone, MintStuck
<1>4. CASE MissesBequest(c)
  <2> DEFINE j == FirstBequest(c)
             stuck == IF plan[j] = SOL THEN crank[c].stuck ELSE crank[c].stuck \cup {plan[j]}
  <2>1. ~Is(c, "close")
    BY <1>4 DEF MissesBequest, Opened, Is
  <2>2. crank' = [crank EXCEPT ![c].next = j, ![c].fresh = MaskSeen(c), ![c].stuck = stuck]
    BY <1>4 DEF MissesBequest
  <2> HIDE DEF j, stuck
  <2> QED
    BY <1>1, <2>1, <2>2, Marks
<1>5. CASE ScansNothing(c)
  <2> DEFINE x == crank[c]
             y == [x EXCEPT !.pc = "close", !.fresh = held]
  <2>1. Shaped(x)
    BY DEF CrankInv
  <2>2. crank' = [crank EXCEPT ![c] = y]
    BY <1>5 DEF ScansNothing, CrankInv
  <2>3. Shaped(y) /\ y.fresh = held
    <3> HIDE DEF x
    <3> QED
      BY <2>1 DEF Shaped
  <2> HIDE DEF y
  <2>4. crank' = [i \in Crankers |-> IF i = c THEN y ELSE crank[i]]
    BY <2>2 DEF CrankInv
  <2>5. \A i \in Crankers : Shaped(crank[i]) /\ ScanHolds(crank[i])
    BY DEF CrankInv
  <2>6. crank' = [i \in Crankers |-> crank'[i]]
    BY <2>4
  <2>7. \A i \in Crankers :
          Shaped(crank'[i]) /\ (crank'[i].pc = "close" => held' \subseteq crank'[i].fresh)
    BY <1>1, <2>3, <2>4, <2>5 DEF ScanHolds
  <2> QED
    BY <1>1, <2>6, <2>7 DEF CrankInv, ScanHolds
<1> QED
  BY <1>2, <1>3, <1>4, <1>5 DEF AnsweredElsewhere

\* Claims (HeirStep, ConfirmationLost, StepLost).
LEMMA ClaimStep ==
  ASSUME CrankInv, NEW c \in Crankers, HeirStep(c) \/ ConfirmationLost(c) \/ StepLost(c)
  PROVE  CrankInv'
<1>1. ASSUME NEW step, Lands(step) PROVE held' \subseteq held /\ orphaned' = {}
  BY <1>1 DEF Lands, CrankInv
<1>2. CASE sendConfirm(c) \/ ConfirmationLost(c) \/ StepLost(c)
  <2>1. held' \subseteq held /\ orphaned' = {}
    BY <1>1, <1>2 DEF sendConfirm, ConfirmationLost, StepLost, chain, CrankInv
  <2>2. Is(c, "claim") /\ \E counted : Sent(c, counted)
    BY <1>2 DEF sendConfirm, ConfirmationLost, StepLost
  <2> QED
    BY <2>1, <2>2, ClaimSends
<1>3. ASSUME UNCHANGED chain PROVE held' \subseteq held /\ orphaned' = {}
  BY <1>3 DEF chain, CrankInv
<1>4. CASE fetchInheritances(c) \/ runClaim(c) \/ NextPass(c)
  <2>1. UNCHANGED chain
    BY <1>4 DEF fetchInheritances, runClaim, NextPass
  <2> QED
    BY <1>3, <1>4, <2>1, ListRead, ClaimStarts, ClaimGoesOn
<1>5. CASE ClaimFails(c) \/ buildCloseTokenDistTransactions(c) \/ ClaimReturns(c)
  <2>1. UNCHANGED chain
    BY <1>5 DEF ClaimFails, buildCloseTokenDistTransactions, ClaimReturns
  <2>2. \E todo, shown :
          \/ crank' = [crank EXCEPT ![c] = [Resting EXCEPT !.shown = shown]]
          \/ crank' = [crank EXCEPT ![c] = [Rested(c) EXCEPT !.shown = shown]]
          \/ crank' = [crank EXCEPT ![c] = [Rested(c) EXCEPT !.pc = "sweep", !.todo = todo]]
    BY <1>5 DEF ClaimFails, buildCloseTokenDistTransactions, ClaimReturns
  <2> QED
    BY <1>3, <2>1, <2>2, Rests
<1>6. CASE \E m \in DistMints : CloseTokenDist(c, m)
  BY <1>6, PassStep DEF Paying
<1> QED
  BY <1>2, <1>4, <1>5, <1>6 DEF HeirStep, load, onClaim, useInheritances, useClaim

\* What arrives between a scan and its close counts as late (DepositTokens).
LEMMA DepositStep ==
  ASSUME CrankInv, NEW m \in DistMints, DepositTokens(m)
  PROVE  CrankInv'
<1> DEFINE late(x) == [x EXCEPT !.fresh = x.fresh \cup {m}]
<1>1. crank' = [c \in Crankers |-> IF Is(c, "close") THEN late(crank[c]) ELSE crank[c]]
  BY DEF DepositTokens
<1>2. held' = held \cup {m} /\ orphaned' = {}
  BY DEF DepositTokens, CrankInv
<1>3. ASSUME NEW x, Shaped(x)
      PROVE  Shaped(late(x)) /\ late(x).fresh = x.fresh \cup {m} /\ late(x).pc = x.pc
  BY <1>3 DEF Shaped
<1>4. ASSUME NEW c \in Crankers
      PROVE  Shaped(crank'[c]) /\ (crank'[c].pc = "close" => held' \subseteq crank'[c].fresh)
  <2>1. Shaped(crank[c]) /\ ScanHolds(crank[c])
    BY DEF CrankInv
  <2>2. CASE Is(c, "close")
    <3>1. crank'[c] = late(crank[c])
      BY <1>1, <2>2
    <3>2. held \subseteq crank[c].fresh
      BY <2>1, <2>2 DEF ScanHolds, Is
    <3> HIDE DEF late
    <3> QED
      BY <1>2, <1>3, <2>1, <3>1, <3>2
  <2>3. CASE ~Is(c, "close")
    BY <1>1, <2>1, <2>3 DEF Is
  <2> QED
    BY <2>2, <2>3
<1>5. crank' = [c \in Crankers |-> crank'[c]]
  BY <1>1
<1> QED
  BY <1>2, <1>4, <1>5 DEF CrankInv, ScanHolds

------------------------------------------------------------------------------
(* Theorems.                                                               *)

\* Whatever the vault holds while a keeper is about to close it has arrived
\* since the keeper's scan, or was hidden from the scan by another cluster's
\* answer, and nothing else is left behind.
THEOREM CrankInvariant == Spec => []CrankInv
<1>1. Init => CrankInv
  <2> SUFFICES ASSUME Init PROVE CrankInv
    OBVIOUS
  <2>1. crank = [c \in Crankers |-> Resting] /\ orphaned = {}
    BY DEF Init
  <2>2. Shaped(Resting) /\ Resting.pc # "close"
    BY DEF Resting, Shaped
  <2> HIDE DEF Resting
  <2> QED
    BY <2>1, <2>2 DEF CrankInv, ScanHolds
<1>2. ASSUME CrankInv, [Next]_vars PROVE CrankInv'
  <2>1. ASSUME NEW c \in Crankers,
               KeeperStep(c) \/ RunExecutor(c) \/ AppStep(c)
        PROVE  CrankInv'
    <3>1. CASE RunExecutor(c)
      <4>1. held' \subseteq held /\ orphaned' = {} /\ Goto(c, "begin")
        BY <1>2, <3>1 DEF RunExecutor, chain, CrankInv
      <4> QED
        BY <1>2, <4>1, Goes
    <3>2. CASE KeeperTick(c)
      <4>1. held' \subseteq held /\ orphaned' = {}
        BY <1>2, <3>2 DEF KeeperTick, chain, CrankInv
      <4>2. CASE Goto(c, "begin")
        BY <1>2, <4>1, <4>2, Goes
      <4>3. CASE crank' = [crank EXCEPT ![c].cleanup = ~NoDistOpen,
                             ![c].pc = IF NoDistOpen THEN "scan" ELSE "begin"]
        <5>1. PICK cleanup, pc : /\ pc # "close"
                                 /\ crank' = [crank EXCEPT ![c].cleanup = cleanup, ![c].pc = pc]
          <6> DEFINE cleanup == ~NoDistOpen
                     pc == IF NoDistOpen THEN "scan" ELSE "begin"
          <6>1. pc # "close" /\ crank' = [crank EXCEPT ![c].cleanup = cleanup, ![c].pc = pc]
            BY <4>3
          <6> HIDE DEF cleanup, pc
          <6> QED
            BY <6>1
        <5> QED
          BY <1>2, <4>1, <5>1, Ticks
      <4> QED
        BY <3>2, <4>2, <4>3 DEF KeeperTick
    <3>3. CASE AppExecutes(c)
      <4>1. held' \subseteq held /\ orphaned' = {}
        BY <1>2, <3>3 DEF AppExecutes, chain, CrankInv
      <4> QED
        BY <1>2, <3>3, <4>1, AppStarts
    <3> QED
      BY <1>2, <2>1, <3>1, <3>2, <3>3, PassStep, FailureStep, KeeperCloses, MisreadStep
         DEF KeeperStep, runKeeperOnce, AppStep, crankBeginExecution, crankBeginTokenDist,
             crankExecuteSpecificSol, crankExecuteSpecificAsset, crankExecuteSolShares,
             crankFinalize, crankExecuteTokenShares, crankCloseTokenDist, Opening, Paying
  <2>2. ASSUME NEW c \in Crankers,
               ServerCollects(c) \/ ServerOpens(c) \/ ServerPays(c) \/ ServerCloses(c)
        PROVE  CrankInv'
    BY <1>2, <2>2, PassStep
       DEF ServerCollects, ServerOpens, ServerPays, ServerCloses, Opening, Paying
  <2>3. ASSUME NEW c \in Crankers,
               \/ ServerAborts(c) \/ \E m \in DistMints : ServerSkips(c, m)
               \/ AppReverts(c) \/ AppRestarts(c) \/ Overtaken(c) \/ Abort(c)
               \/ ServerMisreads(c) \/ \E m \in DistMints : MintFails(c, m)
        PROVE  CrankInv'
    BY <1>2, <2>3, FailureStep, MisreadStep DEF ServerAborts, ServerSkips, ServerMisreads
  <2>4. CASE \/ GraceElapses \/ WindowElapses \/ OwnerCloses \/ RpcTurns \/ RpcRecovers
             \/ \E m \in DistMints : Blocks(m) \/ Unblocks(m)
             \/ UNCHANGED vars
    <3>1. held' \subseteq held /\ orphaned' = {} /\ UNCHANGED crank
      BY <1>2, <2>4 DEF GraceElapses, WindowElapses, OwnerCloses, RpcTurns, RpcRecovers, Blocks,
         Unblocks, vars, chain, CrankInv
    <3> QED
      BY <1>2, <3>1, NobodyMoves
  <2> QED
    BY <1>2, <2>1, <2>2, <2>3, <2>4, ClaimStep, DepositStep DEF Next
<1> QED
  BY <1>1, <1>2, PTL DEF Spec

\* A close by the keeper leaves no balance behind that was there when it scanned
\* the cluster of the vault (vaultHoldsUndistributedTokens).
THEOREM NothingOrphaned == Spec => []KeeperNeverOrphans
<1>1. CrankInv => KeeperNeverOrphans
  BY DEF CrankInv, KeeperNeverOrphans
<1> QED
  BY <1>1, CrankInvariant, PTL
================================================================================
