----------------------------- MODULE ClientProofs -----------------------------
(***************************************************************************)
(* Proofs about the phone's half of notification registration: however     *)
(* attempts, checks, rotations, closes and restarts interleave, revisions  *)
(* rise, and notifications that were turned off, or whose vault is closed, *)
(* do not come back on the screen.  The last section is about what the     *)
(* phone shows of the wallet: its total adds up.                           *)
(***************************************************************************)
EXTENDS NotificationClient, Portfolio, FiniteSetTheorems, TLAPS

------------------------------------------------------------------------------
(* Checks of the observer.                                                 *)

\* The checks may be those of before, outdated, ended, or at their start.
Outdated(x) == x = None \/ (x \in Check /\ (~x.live \/ x.at = "closed"))
Refreshed == check' \in [Checks -> Check \cup {None}] /\ \A c \in Checks : Outdated(check'[c])
Waned ==
    /\ check' \in [Checks -> Check \cup {None}]
    /\ \A c \in Checks : Outdated(check'[c]) \/ check'[c] = check[c]

\* generation++ outdates every check (checkNow).
LEMMA InvalidatedOutdated ==
  ASSUME ClientTypeOK
  PROVE  /\ invalidated \in [Checks -> Check \cup {None}]
         /\ \A c \in Checks : invalidated[c] = None
                              \/ (invalidated[c] \in Check /\ ~invalidated[c].live)
<1>1. ASSUME NEW c \in Checks, check[c] # None
      PROVE  /\ [check[c] EXCEPT !.live = FALSE] \in Check
             /\ ~[check[c] EXCEPT !.live = FALSE].live
  <2>1. check[c] \in Check
    BY <1>1 DEF ClientTypeOK
  <2> QED
    BY <2>1 DEF Check
<1> QED
  BY <1>1 DEF invalidated

\* A check of its own replaces all others (checkNow, FinishWithCheck).
LEMMA CheckNowRefreshes ==
  ASSUME ClientTypeOK, NEW handler \in BOOLEAN, checkNow(handler)
  PROVE  Refreshed
<1> DEFINE x == [at |-> "closed", live |-> TRUE, record |-> None, handler |-> handler]
<1>1. x \in Check /\ x.at = "closed"
  BY DEF Check
<1>2. PICK c \in Checks : check' = [invalidated EXCEPT ![c] = x]
  BY DEF checkNow, Started
<1>3. /\ invalidated \in [Checks -> Check \cup {None}]
      /\ \A i \in Checks : Outdated(invalidated[i])
  BY InvalidatedOutdated DEF Outdated
<1> HIDE DEF x
<1> QED
  BY <1>1, <1>2, <1>3 DEF Refreshed, Outdated

\* So does the end of a handler (Finish).
LEMMA FinishRefreshes ==
  ASSUME ClientTypeOK, check' = invalidated
  PROVE  Refreshed
BY InvalidatedOutdated DEF Refreshed, Outdated

\* A check that emits ends, and may outdate the others (Emit).
LEMMA EmitWanes ==
  ASSUME ClientTypeOK, NEW c \in Checks, NEW s, Emit(c, s)
  PROVE  Waned
<1> DEFINE base == IF check[c].handler THEN invalidated ELSE check
<1>1. check' = [base EXCEPT ![c] = None]
  BY DEF Emit
<1>2. /\ base \in [Checks -> Check \cup {None}]
      /\ \A i \in Checks : Outdated(base[i]) \/ base[i] = check[i]
  BY InvalidatedOutdated DEF ClientTypeOK, Outdated
<1> HIDE DEF base
<1> QED
  BY <1>1, <1>2 DEF Waned, Outdated

\* A check that goes on (Proceed).
LEMMA ProceedMoves ==
  ASSUME ClientTypeOK, NEW c \in Checks, check[c] # None,
         NEW at \in {"closed", "repair", "read", "token"}, Proceed(c, at)
  PROVE  /\ check' \in [Checks -> Check \cup {None}]
         /\ check'[c] \in Check /\ check'[c].at = at
         /\ check'[c].live = check[c].live /\ check'[c].record = check[c].record
         /\ \A i \in Checks : i # c => check'[i] = check[i]
<1> DEFINE x == check[c]
           y == [x EXCEPT !.at = at]
<1>1. x \in Check /\ check \in [Checks -> Check \cup {None}]
  BY DEF ClientTypeOK
<1>2. check' = [check EXCEPT ![c] = y]
  BY <1>1 DEF Proceed
<1> HIDE DEF x
<1>3. y \in Check /\ y.at = at /\ y.live = x.live /\ y.record = x.record
  BY <1>1 DEF Check
<1> HIDE DEF y
<1> QED
  BY <1>1, <1>2, <1>3 DEF x

\* Soundness of the checks when they all start again (CheckSound).
LEMMA RefreshedSound ==
  ASSUME Refreshed, NEW t, NEW s
  PROVE  \A c \in Checks : CheckSound(check'[c], t, s)
BY DEF Refreshed, Outdated, CheckSound

\* Soundness when checks only end, nothing is turned off, and no record
\* becomes active again.
LEMMA WanedSound ==
  ASSUME Waned, NEW t, NEW s, NEW u, NEW r,
         \A c \in Checks : CheckSound(check[c], t, s),
         OffKept(u) => OffKept(t), ClosedUp(r) => ClosedUp(s),
         IsActive(r.record) => IsActive(s.record)
  PROVE  \A c \in Checks : CheckSound(check'[c], u, r)
<1> SUFFICES ASSUME NEW c \in Checks PROVE CheckSound(check'[c], u, r)
  OBVIOUS
<1>1. CASE Outdated(check'[c])
  BY <1>1 DEF Outdated, CheckSound
<1>2. CASE check'[c] = check[c]
  BY <1>2 DEF CheckSound
<1> QED
  BY <1>1, <1>2 DEF Waned

------------------------------------------------------------------------------
(* The screen and the table.                                               *)

ScreenOK(x) == x \in [shows : {x.shows}, busy : BOOLEAN, guard : BOOLEAN]
TableOK(s) ==
    s \in [record : Record \cup {None}, watermark : Nat, closed : Nat \cup {None}, pending : BOOLEAN]

\* A check shows what it found, unless Settings is busy or guards against it
\* (onState, Emit).
LEMMA EmitShows ==
  ASSUME ClientTypeOK, NEW c \in Checks, check[c] # None, NEW s, Emit(c, s)
  PROVE  /\ ScreenOK(screen')
         /\ \/ screen'.shows = screen.shows
            \/ /\ screen'.shows = s /\ check[c].live
               /\ ~(screen.guard /\ s \in {"enabled", "update_required"})
<1> DEFINE guard == screen.guard /\ s \notin {"disabled", "not_enabled"}
           after == IF check[c].live THEN onState(s) ELSE screen
<1>1. ScreenOK(screen)
  BY DEF ClientTypeOK, ScreenOK
<1>2. guard \in BOOLEAN
  BY Zenon
<1>3. \/ after = screen
      \/ /\ after = [screen EXCEPT !.shows = s, !.guard = guard]
         /\ check[c].live /\ ~(screen.guard /\ s \in {"enabled", "update_required"})
  BY Zenon DEF onState
<1> HIDE DEF guard
<1>4. /\ ScreenOK(after)
      /\ \/ after.shows = screen.shows
         \/ /\ after.shows = s /\ check[c].live
            /\ ~(screen.guard /\ s \in {"enabled", "update_required"})
  <2> HIDE DEF after
  <2>1. CASE after = [screen EXCEPT !.shows = s, !.guard = guard]
    <3>1. ScreenOK(after) /\ after.shows = s
      BY <1>1, <1>2, <2>1 DEF ScreenOK
    <3> QED
      BY <1>3, <3>1
  <2> QED
    BY <1>1, <1>3, <2>1
<1>5. screen' = after \/ screen' = [after EXCEPT !.busy = FALSE]
  BY DEF Emit
<1> HIDE DEF after
<1> QED
  <2>1. CASE screen' = [after EXCEPT !.busy = FALSE]
    <3>1. ScreenOK(screen') /\ screen'.shows = after.shows
      BY <1>4, <2>1 DEF ScreenOK
    <3> QED
      BY <1>4, <3>1
  <2> QED
    BY <1>4, <1>5, <2>1

\* The record of a deregistration.
LEMMA TombstoneOff == Tombstone \in Record /\ ~IsActive(Tombstone)
BY DEF Tombstone, Record, IsActive

------------------------------------------------------------------------------
(* Steps of the observer.                                                  *)

\* The steps that leave attempts and revisions alone.
LEMMA RevisionsUntouched ==
  ASSUME RevisionsKept, UNCHANGED <<op, used>>, store'.watermark = store.watermark
  PROVE  RevisionsKept'
BY DEF RevisionsKept

\* Closed-vault marker first: what goes on has no closed vault under it (CheckClosed).
LEMMA CheckClosedStep ==
  ASSUME ClientInv, NEW c \in Checks, CheckClosed(c)
  PROVE  ClientInv'
<1>1. ClientTypeOK /\ RevisionsKept /\ OffRecorded /\ check[c] # None /\ TableOK(store)
  BY DEF ClientInv, CheckClosed, ClientTypeOK, TableOK
<1>2. \A i \in Checks : CheckSound(check[i], told, store)
  BY DEF ClientInv
<1>3. UNCHANGED <<op, told, token, used>>
  BY DEF CheckClosed
<1>4. CASE Emit(c, "vault_closed_cleanup_pending") /\ UNCHANGED store
  <2>1. Waned /\ ScreenOK(screen')
    BY <1>1, <1>4, EmitWanes, EmitShows
  <2>2. \A i \in Checks : CheckSound(check'[i], told, store)
    BY <1>2, <2>1, WanedSound
  <2> QED
    BY <1>1, <1>3, <1>4, <2>1, <2>2, RevisionsUntouched
       DEF ClientInv, ClientTypeOK, ScreenOK, OffRecorded, Waned
<1>5. CASE Proceed(c, "repair")
  <2>1. /\ check' \in [Checks -> Check \cup {None}]
        /\ check'[c] \in Check /\ check'[c].at = "repair"
        /\ \A i \in Checks : i # c => check'[i] = check[i]
    BY <1>1, <1>5, ProceedMoves
  <2>2. UNCHANGED screen
    BY <1>5 DEF Proceed
  <2>3. CASE UNCHANGED store
    <3>1. ~ClosedUp(store)
      <4>1. \/ store.closed = None
            \/ ~(IsActive(store.record) /\ ~ClosureIsStale(store.record))
            \/ Emit(c, "vault_closed_cleanup_pending")
        BY DEF CheckClosed
      <4>2. CASE store.closed = None
        BY <4>2 DEF ClosedUp
      <4>3. CASE ~(IsActive(store.record) /\ ~ClosureIsStale(store.record))
        <5> SUFFICES ASSUME ClosedUp(store) PROVE FALSE
          OBVIOUS
        <5>1. /\ store.closed # None /\ IsActive(store.record)
              /\ store.record.revision <= store.closed
              /\ store.record.revision > store.closed
          BY <4>3 DEF ClosedUp, ClosureIsStale
        <5>2. store.record \in Record /\ store.closed \in Nat
          BY <1>1, <5>1 DEF TableOK, IsActive
        <5>3. store.record.revision \in Nat
          BY <5>2 DEF Record
        <5> QED
          BY <5>1, <5>2, <5>3
      <4>4. CASE Emit(c, "vault_closed_cleanup_pending")
        <5>1. check'[c] = None
          BY <1>1, <4>4, InvalidatedOutdated DEF Emit, ClientTypeOK
        <5> QED
          BY <2>1, <5>1, ClientAssumption
      <4> QED
        BY <4>1, <4>2, <4>3, <4>4
    <3>2. ASSUME NEW i \in Checks PROVE CheckSound(check'[i], told, store)
      BY <1>2, <2>1, <3>1 DEF CheckSound
    <3> QED
      BY <1>1, <1>3, <2>1, <2>2, <2>3, <3>2, RevisionsUntouched
         DEF ClientInv, ClientTypeOK, OffRecorded
  <2>4. CASE store' = [store EXCEPT !.closed = None]
    <3>1. /\ TableOK(store') /\ store'.record = store.record /\ store'.closed = None
          /\ store'.watermark = store.watermark /\ store'.pending = store.pending
      BY <1>1, <2>4 DEF TableOK
    <3>2. ~ClosedUp(store')
      BY <3>1 DEF ClosedUp
    <3>3. ASSUME NEW i \in Checks PROVE CheckSound(check'[i], told, store')
      BY <1>2, <2>1, <3>1, <3>2 DEF CheckSound
    <3> QED
      BY <1>1, <1>3, <2>1, <2>2, <3>1, <3>3, RevisionsUntouched
         DEF ClientInv, ClientTypeOK, OffRecorded, TableOK
  <2> QED
    BY <2>3, <2>4 DEF CheckClosed
<1> QED
  BY <1>4, <1>5 DEF CheckClosed

\* A tombstone that was pending is written before the record is read (CheckRepair).
LEMMA CheckRepairStep ==
  ASSUME ClientInv, NEW c \in Checks, CheckRepair(c)
  PROVE  ClientInv'
<1>1. ClientTypeOK /\ RevisionsKept /\ OffRecorded /\ TableOK(store)
  BY DEF ClientInv, ClientTypeOK, TableOK
<1>2. \A i \in Checks : CheckSound(check[i], told, store)
  BY DEF ClientInv
<1>3. UNCHANGED <<op, told, token, used>> /\ check[c] # None /\ check[c].at = "repair"
  BY DEF CheckRepair
<1>4. CASE Emit(c, "local_cleanup_pending")
           /\ (UNCHANGED store \/ store' = [store EXCEPT !.record = Tombstone])
  <2>1. Waned /\ ScreenOK(screen')
    BY <1>1, <1>3, <1>4, EmitWanes, EmitShows
  <2>2. /\ TableOK(store') /\ store'.closed = store.closed /\ store'.pending = store.pending
        /\ store'.watermark = store.watermark
        /\ store'.record = store.record \/ ~IsActive(store'.record)
    BY <1>1, <1>4, TombstoneOff DEF TableOK
  <2>3. (ClosedUp(store') => ClosedUp(store)) /\ (IsActive(store'.record) => IsActive(store.record))
    BY <2>2 DEF ClosedUp
  <2>4. \A i \in Checks : CheckSound(check'[i], told, store')
    BY <1>2, <2>1, <2>3, WanedSound
  <2>5. OffRecorded'
    BY <1>1, <1>3, <2>2 DEF OffRecorded
  <2> QED
    BY <1>1, <1>3, <2>1, <2>2, <2>4, <2>5, RevisionsUntouched
       DEF ClientInv, ClientTypeOK, ScreenOK, TableOK, Waned
<1>5. CASE Proceed(c, "read")
  <2>1. /\ check' \in [Checks -> Check \cup {None}]
        /\ check'[c] \in Check /\ check'[c].at = "read" /\ check'[c].live = check[c].live
        /\ \A i \in Checks : i # c => check'[i] = check[i]
    BY <1>1, <1>3, <1>5, ProceedMoves
  <2>2. UNCHANGED screen
    BY <1>5 DEF Proceed
  <2>3. CASE store' = [store EXCEPT !.record = Tombstone, !.pending = FALSE]
    <3>1. /\ TableOK(store') /\ store'.watermark = store.watermark /\ ~IsActive(store'.record)
      BY <1>1, <2>3, TombstoneOff DEF TableOK
    <3>2. ASSUME NEW i \in Checks PROVE CheckSound(check'[i], told, store')
      BY <1>2, <2>1, <3>1 DEF CheckSound, ClosedUp
    <3>3. OffRecorded'
      BY <3>1 DEF OffRecorded
    <3> QED
      BY <1>1, <1>3, <2>1, <2>2, <3>1, <3>2, <3>3, RevisionsUntouched
         DEF ClientInv, ClientTypeOK, TableOK
  <2>4. CASE ~store.pending /\ UNCHANGED store
    <3>1. OffKept(told) => ~IsActive(store.record)
      BY <1>1, <2>4 DEF OffRecorded
    <3>2. ASSUME NEW i \in Checks PROVE CheckSound(check'[i], told, store)
      BY <1>2, <1>3, <2>1, <3>1 DEF CheckSound
    <3> QED
      BY <1>1, <1>3, <2>1, <2>2, <2>4, <3>2, RevisionsUntouched
         DEF ClientInv, ClientTypeOK, OffRecorded
  <2>5. CASE Emit(c, "local_cleanup_pending")
    <3>1. check'[c] = None
      BY <1>1, <2>5, InvalidatedOutdated DEF Emit, ClientTypeOK
    <3> QED
      BY <2>1, <3>1, ClientAssumption
  <2> QED
    BY <2>3, <2>4, <2>5 DEF CheckRepair
<1> QED
  BY <1>4, <1>5 DEF CheckRepair

\* The record that a check reads is not an active one that was turned off (CheckRead).
LEMMA CheckReadStep ==
  ASSUME ClientInv, NEW c \in Checks, CheckRead(c)
  PROVE  ClientInv'
<1> DEFINE x == check[c]
           record == store.record
           y == [x EXCEPT !.record = record, !.at = "token"]
<1>1. ClientTypeOK /\ RevisionsKept /\ OffRecorded
  BY DEF ClientInv
<1>2. x \in Check /\ record \in Record \cup {None} /\ x.at = "read"
      /\ check \in [Checks -> Check \cup {None}]
  BY <1>1 DEF CheckRead, ClientTypeOK
<1>3. check' = [check EXCEPT ![c] = y]
  BY <1>2 DEF CheckRead
<1>4. \A i \in Checks : CheckSound(check[i], told, store)
  BY DEF ClientInv
<1>5. UNCHANGED <<op, told, token, used, store, screen>>
  BY DEF CheckRead
<1>6. y \in Check /\ y.at = "token" /\ y.live = x.live /\ y.record = record
  <2> HIDE DEF x, record
  <2> QED
    BY <1>2 DEF Check
<1>7. CheckSound(y, told, store)
  <2>1. CheckSound(x, told, store) /\ x # None
    BY <1>2, <1>4, ClientAssumption
  <2> HIDE DEF x, y
  <2> QED
    BY <1>2, <1>6, <2>1 DEF CheckSound
<1> HIDE DEF y
<1>8. check' \in [Checks -> Check \cup {None}] /\ \A i \in Checks : CheckSound(check'[i], told, store)
  BY <1>2, <1>3, <1>4, <1>6, <1>7
<1> QED
  BY <1>1, <1>5, <1>8, RevisionsUntouched DEF ClientInv, ClientTypeOK, OffRecorded

\* The last step of a check (CheckToken).
LEMMA CheckTokenStep ==
  ASSUME ClientInv, NEW c \in Checks, CheckToken(c)
  PROVE  ClientInv'
<1>1. ClientTypeOK /\ RevisionsKept /\ OffRecorded
  BY DEF ClientInv
<1>2. \A i \in Checks : CheckSound(check[i], told, store)
  BY DEF ClientInv
<1>3. UNCHANGED <<op, told, token, used, store>> /\ check[c] # None
  BY DEF CheckToken
<1>4. PICK s : Emit(c, s)
  BY DEF CheckToken
<1>5. Waned /\ ScreenOK(screen')
  BY <1>1, <1>3, <1>4, EmitWanes, EmitShows
<1>6. \A i \in Checks : CheckSound(check'[i], told, store)
  BY <1>2, <1>5, WanedSound
<1> QED
  BY <1>1, <1>3, <1>5, <1>6, RevisionsUntouched
     DEF ClientInv, ClientTypeOK, ScreenOK, OffRecorded, Waned

------------------------------------------------------------------------------
(* Attempts, handlers and the world.                                       *)

\* A step that outdates all checks is sound when the deregistration it may
\* confirm is on record (Finish, FinishWithCheck, checkNow).
LEMMA RefreshStep ==
  ASSUME ClientInv, Refreshed, ScreenOK(screen'), TableOK(store'),
         store'.watermark = store.watermark, op' = op \/ op' = None, UNCHANGED used,
         token' \in Tokens, told' \in [says : {"on", "off", "never"}, kept : BOOLEAN], OffRecorded'
  PROVE  ClientInv'
<1>1. ClientTypeOK /\ RevisionsKept
  BY DEF ClientInv
<1>2. \A c \in Checks : CheckSound(check'[c], told', store')
  BY RefreshedSound
<1>3. RevisionsKept'
  BY <1>1 DEF RevisionsKept
<1>4. ClientTypeOK'
  BY <1>1 DEF ClientTypeOK, ScreenOK, TableOK, Refreshed
<1> QED
  BY <1>2, <1>3, <1>4 DEF ClientInv

\* A step of the attempt alone.
LEMMA AttemptStep ==
  ASSUME ClientInv, UNCHANGED <<store, check, told, token>>, ScreenOK(screen'),
         op' \in Attempt \cup {None}, used' \in Nat, RevisionsKept'
  PROVE  ClientInv'
<1>1. ClientTypeOK /\ OffRecorded /\ \A c \in Checks : CheckSound(check[c], told, store)
  BY DEF ClientInv
<1> QED
  BY <1>1 DEF ClientInv, ClientTypeOK, ScreenOK, OffRecorded

\* A registration takes a revision above the watermark, which is above all that
\* were sent (StartRegister, computeNextRevision).
LEMMA StartRegisterStep ==
  ASSUME ClientInv, NEW now \in Revisions, StartRegister(now)
  PROVE  ClientInv'
<1> DEFINE revision == computeNextRevision(store.watermark, now)
<1>1. ClientTypeOK /\ RevisionsKept /\ OffRecorded /\ TableOK(store) /\ ScreenOK(screen)
  BY DEF ClientInv, ClientTypeOK, TableOK, ScreenOK
<1>2. store.watermark \in Nat /\ used \in Nat /\ used <= store.watermark /\ token \in Tokens
  BY <1>1 DEF ClientTypeOK, RevisionsKept
<1>3. revision \in Nat /\ revision > store.watermark
  BY <1>2, ClientAssumption DEF computeNextRevision, GreatestOf, Revisions
<1> HIDE DEF revision
<1>4. /\ store' = [store EXCEPT !.watermark = revision]
      /\ op' = [kind |-> "register", at |-> "wallet", token |-> token,
                revision |-> revision, proven |-> FALSE, known |-> FALSE]
      /\ UNCHANGED <<check, told, token, used>>
  BY DEF StartRegister, revision
<1>5. /\ TableOK(store') /\ store'.watermark = revision /\ store'.record = store.record
      /\ store'.closed = store.closed /\ store'.pending = store.pending
  BY <1>1, <1>3, <1>4 DEF TableOK
<1>6. op' \in Attempt /\ op'.revision = revision
  BY <1>2, <1>3, <1>4 DEF Attempt
<1>7. RevisionsKept'
  <2>1. used' = used /\ used <= revision /\ revision > used /\ revision <= revision
    BY <1>2, <1>3, <1>4
  <2> QED
    BY <1>5, <1>6, <2>1 DEF RevisionsKept
<1>8. ScreenOK(screen')
  <2>1. screen' = [screen EXCEPT !.shows = "registering", !.busy = TRUE, !.guard = FALSE]
    BY DEF StartRegister
  <2> QED
    BY <1>1, <2>1 DEF ScreenOK
<1>9. ClosedUp(store') <=> ClosedUp(store)
  BY <1>5 DEF ClosedUp
<1>10. \A c \in Checks : CheckSound(check'[c], told', store')
  <2>1. \A c \in Checks : CheckSound(check[c], told, store)
    BY DEF ClientInv
  <2> QED
    BY <1>4, <1>5, <1>9, <2>1 DEF CheckSound
<1>11. OffRecorded'
  BY <1>1, <1>4, <1>5 DEF OffRecorded
<1>12. ClientTypeOK'
  BY <1>1, <1>4, <1>5, <1>6, <1>8 DEF ClientTypeOK, TableOK, ScreenOK
<1> QED
  BY <1>7, <1>10, <1>11, <1>12 DEF ClientInv

\* The wallet, the server and the network move an attempt on (WalletSigns,
\* ServerRegisters, ServerDeregisters, GiveUp).
LEMMA OpMovesOn ==
  ASSUME ClientInv, op # None,
         NEW at \in {"sent", "accepted", "refused", "removed", "absent", "gone"}, OpTo(at)
  PROVE  /\ op \in Attempt /\ op' \in Attempt /\ op'.at = at /\ op'.kind = op.kind
         /\ op'.revision = op.revision
<1>1. op \in Attempt
  BY DEF ClientInv, ClientTypeOK
<1>2. op' = [op EXCEPT !.at = at]
  BY DEF OpTo
<1> QED
  BY <1>1, <1>2 DEF Attempt

\* These steps, and the ones of the chain and of the poller.
LEMMA OpStep ==
  ASSUME ClientInv,
         \/ \E cleanup \in BOOLEAN : StartDeregister(cleanup)
         \/ WalletSigns \/ ServerRegisters \/ ServerDeregisters \/ GiveUp \/ LateArrival
         \/ CloseElsewhere \/ CreateVault \/ PollerDrops
  PROVE  ClientInv'
<1>1. UNCHANGED <<store, check, told, token>>
  BY DEF StartDeregister, WalletSigns, ServerRegisters, ServerDeregisters, GiveUp, LateArrival,
     CloseElsewhere, CreateVault, PollerDrops
<1>2. ScreenOK(screen) /\ op \in Attempt \cup {None} /\ used \in Nat /\ RevisionsKept
      /\ store.watermark \in Nat
  BY DEF ClientInv, ClientTypeOK, ScreenOK
<1>3. CASE \E cleanup \in BOOLEAN : StartDeregister(cleanup)
  <2>1. PICK cleanup \in BOOLEAN : StartDeregister(cleanup)
    BY <1>3
  <2>2. PICK proven, known \in BOOLEAN :
          op' = [kind |-> "deregister", at |-> "wallet", token |-> None, revision |-> 0,
                 proven |-> proven, known |-> known]
    <3> DEFINE proven == cleanup /\ store.closed # None
               known == store.record # None
    <3>1. proven \in BOOLEAN /\ known \in BOOLEAN
      BY Zenon
    <3>2. op' = [kind |-> "deregister", at |-> "wallet", token |-> None, revision |-> 0,
                 proven |-> proven, known |-> known]
      BY <2>1 DEF StartDeregister, attemptSignedDeregistration
    <3> HIDE DEF proven, known
    <3> QED
      BY <3>1, <3>2
  <2>3. op' \in Attempt /\ op'.kind = "deregister"
    BY <2>2 DEF Attempt
  <2>4. screen' = [screen EXCEPT !.shows = "disabling", !.busy = TRUE] /\ UNCHANGED used
    BY <2>1 DEF StartDeregister
  <2>5. ScreenOK(screen')
    BY <1>2, <2>4 DEF ScreenOK
  <2>6. RevisionsKept'
    BY <1>1, <1>2, <2>3, <2>4 DEF RevisionsKept
  <2> QED
    BY <1>1, <1>2, <2>3, <2>4, <2>5, <2>6, AttemptStep
<1>4. CASE WalletSigns
  <2>1. op # None /\ OpTo("sent") /\ UNCHANGED screen
        /\ used' = IF op.kind = "register" THEN GreatestOf(used, op.revision) ELSE used
    BY <1>4 DEF WalletSigns, OpAt
  <2>2. op \in Attempt /\ op' \in Attempt /\ op'.at = "sent" /\ op'.kind = op.kind
        /\ op'.revision = op.revision
    BY <2>1, OpMovesOn
  <2>3. op.revision \in Nat
    BY <2>2 DEF Attempt
  <2>4. /\ used <= store.watermark
        /\ op.kind = "register" => op.revision <= store.watermark
    BY <1>2, <2>1 DEF RevisionsKept
  <2>5. used' \in Nat /\ used' <= store.watermark
    BY <1>2, <2>1, <2>3, <2>4 DEF GreatestOf
  <2>6. RevisionsKept'
    BY <1>1, <2>2, <2>4, <2>5 DEF RevisionsKept
  <2> QED
    BY <1>1, <1>2, <2>1, <2>2, <2>5, <2>6, AttemptStep
<1>5. CASE ServerRegisters \/ ServerDeregisters \/ GiveUp
  <2>1. op # None /\ UNCHANGED <<screen, used>>
    BY <1>5 DEF ServerRegisters, ServerDeregisters, GiveUp, OpAt
  <2>2. PICK at \in {"sent", "accepted", "refused", "removed", "absent", "gone"} : OpTo(at)
    BY <1>5 DEF ServerRegisters, ServerDeregisters, GiveUp
  <2>3. op' \in Attempt /\ op'.kind = op.kind /\ op'.revision = op.revision /\ op'.at = at
    BY <2>1, <2>2, OpMovesOn
  <2>4. op'.at # "wallet"
    BY <2>3
  <2>5. RevisionsKept'
    BY <1>1, <1>2, <2>1, <2>3, <2>4 DEF RevisionsKept
  <2> QED
    BY <1>1, <1>2, <2>1, <2>3, <2>5, AttemptStep
<1>6. CASE UNCHANGED <<op, screen, used>>
  <2>1. RevisionsKept'
    BY <1>1, <1>2, <1>6 DEF RevisionsKept
  <2> QED
    BY <1>1, <1>2, <1>6, <2>1, AttemptStep
<1> QED
  BY <1>3, <1>4, <1>5, <1>6 DEF LateArrival, CloseElsewhere, CreateVault, PollerDrops

\* The steps that outdate the checks and keep what is on record
\* (RegisterFailsLocally, TapWhileActive, WalletDeclines, AttemptFails, Focus,
\* TokenRotates, Restart).
LEMMA HandlerStep ==
  ASSUME ClientInv,
         \/ RegisterFailsLocally \/ \E kind \in {"register", "deregister"} : TapWhileActive(kind)
         \/ WalletDeclines \/ AttemptFails \/ Focus \/ TokenRotates \/ Restart
  PROVE  ClientInv'
<1>1. ClientTypeOK /\ OffRecorded /\ TableOK(store) /\ ScreenOK(screen)
  BY DEF ClientInv, ClientTypeOK, TableOK, ScreenOK
<1>2. UNCHANGED <<store, told, used>> /\ (op' = op \/ op' = None)
  BY DEF RegisterFailsLocally, TapWhileActive, WalletDeclines, AttemptFails, Focus, TokenRotates,
     Restart
<1>3. token' \in Tokens
  BY <1>1 DEF ClientTypeOK, RegisterFailsLocally, TapWhileActive, WalletDeclines, AttemptFails,
     Focus, TokenRotates, Restart
<1>4. Refreshed
  <2>1. CASE check' = invalidated
    BY <1>1, <2>1, FinishRefreshes
  <2>2. CASE \E handler \in BOOLEAN : checkNow(handler)
    BY <1>1, <2>2, CheckNowRefreshes
  <2>3. CASE Restart
    <3> DEFINE x == [at |-> "closed", live |-> TRUE, record |-> None, handler |-> FALSE]
    <3>1. x \in Check /\ x.at = "closed"
      BY DEF Check
    <3>2. PICK c \in Checks : check' = [d \in Checks |-> IF d = c THEN x ELSE None]
      BY <2>3 DEF Restart
    <3> HIDE DEF x
    <3> QED
      BY <3>1, <3>2 DEF Refreshed, Outdated
  <2> QED
    BY <2>1, <2>2, <2>3 DEF RegisterFailsLocally, TapWhileActive, WalletDeclines, AttemptFails,
       Focus, TokenRotates, Finish, FinishWithCheck
<1>5. ScreenOK(screen')
  <2>1. CASE UNCHANGED screen
    BY <1>1, <2>1
  <2>2. CASE RegisterFailsLocally
    <3>1. screen' = [screen EXCEPT !.shows = "failed", !.guard = FALSE]
      BY <2>2 DEF RegisterFailsLocally
    <3> QED
      BY <1>1, <3>1 DEF ScreenOK
  <2>3. CASE \E kind \in {"register", "deregister"} : TapWhileActive(kind)
    <3>1. PICK kind \in {"register", "deregister"} : TapWhileActive(kind)
      BY <2>3
    <3> DEFINE shows == IF kind # op.kind THEN "failed"
                        ELSE IF kind = "register" THEN "registering" ELSE "disabling"
               guard == screen.guard /\ kind # "register"
    <3>2. screen' = [screen EXCEPT !.shows = shows, !.guard = guard]
      BY <3>1 DEF TapWhileActive
    <3>3. guard \in BOOLEAN
      BY Zenon
    <3> HIDE DEF shows, guard
    <3> QED
      BY <1>1, <3>2, <3>3 DEF ScreenOK
  <2>4. CASE WalletDeclines
    <3>1. screen' = [screen EXCEPT !.busy = FALSE]
      BY <2>4 DEF WalletDeclines, FinishWithCheck
    <3> QED
      BY <1>1, <3>1 DEF ScreenOK
  <2>5. CASE AttemptFails
    <3>1. screen' = [screen EXCEPT !.shows = "failed", !.busy = FALSE]
      BY <2>5 DEF AttemptFails, Finish
    <3> QED
      BY <1>1, <3>1 DEF ScreenOK
  <2>6. CASE Restart
    <3>1. screen' = [shows |-> "not_enabled", busy |-> FALSE, guard |-> FALSE]
      BY <2>6 DEF Restart, FreshScreen
    <3> QED
      BY <3>1 DEF ScreenOK
  <2> QED
    BY <2>1, <2>2, <2>3, <2>4, <2>5, <2>6 DEF Focus, TokenRotates
<1>6. told' \in [says : {"on", "off", "never"}, kept : BOOLEAN] /\ OffRecorded'
  BY <1>1, <1>2 DEF ClientTypeOK, OffRecorded
<1> QED
  BY <1>1, <1>2, <1>3, <1>4, <1>5, <1>6, RefreshStep

\* The steps that write what the server confirmed, or that the vault is closed
\* (Registered, NothingRemoved, Deregistered, CleanupPending, RevokeInSettings).
LEMMA WriteStep ==
  ASSUME ClientInv,
         Registered \/ NothingRemoved \/ Deregistered \/ CleanupPending \/ RevokeInSettings
  PROVE  ClientInv'
<1>1. ClientTypeOK /\ OffRecorded /\ TableOK(store) /\ ScreenOK(screen) /\ token \in Tokens
      /\ op \in Attempt \cup {None}
  BY DEF ClientInv, ClientTypeOK, TableOK, ScreenOK
<1>2. /\ UNCHANGED used /\ token' \in Tokens /\ (op' = op \/ op' = None)
  BY <1>1 DEF Registered, NothingRemoved, Deregistered, CleanupPending, RevokeInSettings
<1>3. CASE Registered \/ NothingRemoved \/ Deregistered
  <2>1. screen' = [screen EXCEPT !.busy = FALSE] /\ checkNow(TRUE)
    BY <1>3 DEF Registered, NothingRemoved, Deregistered, FinishWithCheck
  <2>2. ScreenOK(screen') /\ Refreshed
    BY <1>1, <2>1, CheckNowRefreshes DEF ScreenOK
  <2>3. CASE Registered
    <3>1. PICK kept, cleared \in BOOLEAN :
            /\ store' = [store EXCEPT
                           !.record = IF kept THEN Active(op.token, op.revision) ELSE @,
                           !.closed = IF cleared THEN None ELSE @]
            /\ told' = [says |-> "on", kept |-> kept]
      BY <2>3 DEF Registered
    <3> DEFINE record == IF kept THEN Active(op.token, op.revision) ELSE store.record
               closed == IF cleared THEN None ELSE store.closed
    <3>2. store' = [store EXCEPT !.record = record, !.closed = closed]
      BY <3>1
    <3>3. record \in Record \cup {None} /\ closed \in Nat \cup {None}
      <4>1. op \in Attempt
        BY <1>1, <2>3 DEF Registered, OpAt
      <4>2. Active(op.token, op.revision) \in Record
        BY <4>1 DEF Active, Attempt, Record
      <4> QED
        BY <1>1, <4>2 DEF TableOK
    <3> HIDE DEF record, closed
    <3>4. TableOK(store') /\ store'.watermark = store.watermark
      BY <1>1, <3>2, <3>3 DEF TableOK
    <3>5. told' \in [says : {"on", "off", "never"}, kept : BOOLEAN] /\ OffRecorded'
      BY <3>1 DEF OffRecorded, OffKept
    <3> QED
      BY <1>2, <2>2, <3>4, <3>5, RefreshStep
  <2>4. CASE NothingRemoved
    <3>1. store' = [store EXCEPT !.closed = None] /\ told' = [says |-> "never", kept |-> TRUE]
      BY <2>4 DEF NothingRemoved
    <3>2. TableOK(store') /\ store'.watermark = store.watermark
      BY <1>1, <3>1 DEF TableOK
    <3>3. told' \in [says : {"on", "off", "never"}, kept : BOOLEAN] /\ OffRecorded'
      BY <3>1 DEF OffRecorded, OffKept
    <3> QED
      BY <1>2, <2>2, <3>2, <3>3, RefreshStep
  <2>5. CASE Deregistered
    <3>1. PICK cleared \in BOOLEAN :
            store' = [store EXCEPT !.record = Tombstone, !.closed = IF cleared THEN None ELSE @]
      BY <2>5 DEF Deregistered
    <3> DEFINE closed == IF cleared THEN None ELSE store.closed
    <3>2. store' = [store EXCEPT !.record = Tombstone, !.closed = closed]
      BY <3>1
    <3>3. closed \in Nat \cup {None}
      BY <1>1 DEF TableOK
    <3> HIDE DEF closed
    <3>4. TableOK(store') /\ store'.watermark = store.watermark /\ ~IsActive(store'.record)
      BY <1>1, <3>2, <3>3, TombstoneOff DEF TableOK
    <3>5. told' = [says |-> "off", kept |-> TRUE]
      BY <2>5 DEF Deregistered
    <3>6. told' \in [says : {"on", "off", "never"}, kept : BOOLEAN] /\ OffRecorded'
      BY <3>4, <3>5 DEF OffRecorded
    <3> QED
      BY <1>2, <2>2, <3>4, <3>6, RefreshStep
  <2> QED
    BY <1>3, <2>3, <2>4, <2>5
<1>4. CASE CleanupPending
  <2>1. screen' = [screen EXCEPT !.shows = "local_cleanup_pending", !.busy = FALSE, !.guard = TRUE]
        /\ check' = invalidated
    BY <1>4 DEF CleanupPending
  <2>2. ScreenOK(screen') /\ Refreshed
    BY <1>1, <2>1, FinishRefreshes DEF ScreenOK
  <2>3. PICK marked \in BOOLEAN : /\ store' = [store EXCEPT !.pending = store.pending \/ marked]
                                  /\ told' = [says |-> "off", kept |-> marked]
    BY <1>4 DEF CleanupPending
  <2> DEFINE pending == store.pending \/ marked
  <2>4. pending \in BOOLEAN /\ (marked => pending)
    BY Zenon
  <2>5. store' = [store EXCEPT !.pending = pending]
    BY <2>3
  <2> HIDE DEF pending
  <2>6. TableOK(store') /\ store'.watermark = store.watermark /\ store'.pending = pending
    BY <1>1, <2>4, <2>5 DEF TableOK
  <2>7. told' \in [says : {"on", "off", "never"}, kept : BOOLEAN] /\ OffRecorded'
    BY <2>3, <2>4, <2>6 DEF OffRecorded, OffKept
  <2> QED
    BY <1>2, <2>2, <2>6, <2>7, RefreshStep
<1>5. CASE RevokeInSettings
  <2>1. PICK ok \in BOOLEAN : store' = recordVaultClosure(ok)
    BY <1>5 DEF RevokeInSettings, reconcileNotificationsAfterClose
  <2>2. TableOK(store') /\ store'.watermark = store.watermark
        /\ store'.record = store.record /\ store'.pending = store.pending
    <3>1. CASE store' = store
      BY <1>1, <3>1
    <3>2. CASE IsActive(store.record) /\ store' = [store EXCEPT !.closed = store.record.revision]
      <4>1. store.record.revision \in Nat
        BY <1>1, <3>2 DEF TableOK, IsActive, Record
      <4> QED
        BY <1>1, <3>2, <4>1 DEF TableOK
    <3> QED
      BY <2>1, <3>1, <3>2 DEF recordVaultClosure
  <2>3. UNCHANGED <<told, screen>> /\ checkNow(FALSE)
    BY <1>5 DEF RevokeInSettings, reconcileNotificationsAfterClose
  <2>4. Refreshed /\ ScreenOK(screen')
    BY <1>1, <2>3, CheckNowRefreshes
  <2>5. told' \in [says : {"on", "off", "never"}, kept : BOOLEAN] /\ OffRecorded'
    BY <1>1, <2>2, <2>3 DEF OffRecorded, ClientTypeOK
  <2> QED
    BY <1>2, <2>2, <2>4, <2>5, RefreshStep
<1> QED
  BY <1>3, <1>4, <1>5

------------------------------------------------------------------------------
(* Theorems.                                                               *)

\* Only a check that is not outdated and has read an active record turns the
\* notifications on, and only without the guard of the session (onState,
\* reconcile).
LEMMA OnlyACheckTurnsOn ==
  ASSUME ClientInv, [Next]_clientVars, TurnsOn
  PROVE  \E c \in Checks : /\ check[c] # None /\ check[c].live /\ check[c].at = "token"
                           /\ IsActive(check[c].record) /\ ~screen.guard
<1> DEFINE on == {"enabled", "update_required"}
<1>1. ClientTypeOK /\ ScreenOK(screen)
  BY DEF ClientInv, ClientTypeOK, ScreenOK
<1>2. screen.shows \notin on /\ screen'.shows \in on
  BY DEF TurnsOn
<1>3. ASSUME NEW c \in Checks, check[c] # None, NEW s, Emit(c, s)
      PROVE  s \in on /\ check[c].live /\ ~screen.guard
  BY <1>1, <1>2, <1>3, EmitShows
<1>4. ASSUME NEW c \in Checks, CheckToken(c)
      PROVE  /\ check[c] # None /\ check[c].live /\ check[c].at = "token"
             /\ IsActive(check[c].record) /\ ~screen.guard
  <2>1. check[c] # None /\ check[c].at = "token"
    BY <1>4 DEF CheckToken
  <2>2. PICK current : Emit(c, reconcile(check[c].record, current))
    BY <1>4 DEF CheckToken
  <2>3. reconcile(check[c].record, current) \in on /\ check[c].live /\ ~screen.guard
    BY <1>3, <2>1, <2>2
  <2>4. IsActive(check[c].record)
    BY <2>3 DEF reconcile, IsActive
  <2> QED
    BY <2>1, <2>3, <2>4
<1>5. ~UNCHANGED screen
  BY <1>2
<1>6. ~\E c \in Checks : CheckClosed(c) \/ CheckRepair(c) \/ CheckRead(c)
  <2> SUFFICES ASSUME NEW c \in Checks, CheckClosed(c) \/ CheckRepair(c) \/ CheckRead(c)
               PROVE  FALSE
    OBVIOUS
  <2>1. check[c] # None
    BY DEF CheckClosed, CheckRepair, CheckRead
  <2>2. \/ Emit(c, "vault_closed_cleanup_pending") \/ Emit(c, "local_cleanup_pending")
        \/ UNCHANGED screen
    BY DEF CheckClosed, CheckRepair, CheckRead, Proceed
  <2>3. "vault_closed_cleanup_pending" \notin on /\ "local_cleanup_pending" \notin on
    OBVIOUS
  <2> HIDE DEF on
  <2> QED
    BY <1>3, <1>5, <2>1, <2>2, <2>3
<1>7. ASSUME NEW shows, screen'.shows = shows, shows \notin on PROVE FALSE
  BY <1>2, <1>7
<1>8. ~\E now \in Revisions : StartRegister(now)
  <2> SUFFICES ASSUME NEW now \in Revisions, StartRegister(now) PROVE FALSE
    OBVIOUS
  <2>1. screen' = [screen EXCEPT !.shows = "registering", !.busy = TRUE, !.guard = FALSE]
    BY DEF StartRegister
  <2>2. screen'.shows = "registering"
    BY <1>1, <2>1 DEF ScreenOK
  <2> QED
    BY <1>7, <2>2
<1>9. ~\E cleanup \in BOOLEAN : StartDeregister(cleanup)
  <2> SUFFICES ASSUME NEW cleanup \in BOOLEAN, StartDeregister(cleanup) PROVE FALSE
    OBVIOUS
  <2>1. screen' = [screen EXCEPT !.shows = "disabling", !.busy = TRUE]
    BY DEF StartDeregister
  <2>2. screen'.shows = "disabling"
    BY <1>1, <2>1 DEF ScreenOK
  <2> QED
    BY <1>7, <2>2
<1>10. ~\E kind \in {"register", "deregister"} : TapWhileActive(kind)
  <2> SUFFICES ASSUME NEW kind \in {"register", "deregister"}, TapWhileActive(kind) PROVE FALSE
    OBVIOUS
  <2> DEFINE shows == IF kind # op.kind THEN "failed"
                      ELSE IF kind = "register" THEN "registering" ELSE "disabling"
             guard == screen.guard /\ kind # "register"
  <2>1. screen' = [screen EXCEPT !.shows = shows, !.guard = guard]
    BY DEF TapWhileActive
  <2>2. shows \notin on
    OBVIOUS
  <2> HIDE DEF shows, guard
  <2>3. screen'.shows = shows
    BY <1>1, <2>1 DEF ScreenOK
  <2> QED
    BY <1>7, <2>2, <2>3
<1>11. ~(RegisterFailsLocally \/ AttemptFails \/ CleanupPending)
  <2> SUFFICES ASSUME NEW shows \in {"failed", "local_cleanup_pending"}, screen'.shows = shows
               PROVE  FALSE
    <3>1. ASSUME RegisterFailsLocally PROVE screen'.shows = "failed"
      <4>1. screen' = [screen EXCEPT !.shows = "failed", !.guard = FALSE]
        BY <3>1 DEF RegisterFailsLocally
      <4> QED
        BY <1>1, <4>1 DEF ScreenOK
    <3>2. ASSUME AttemptFails PROVE screen'.shows = "failed"
      <4>1. screen' = [screen EXCEPT !.shows = "failed", !.busy = FALSE]
        BY <3>2 DEF AttemptFails, Finish
      <4> QED
        BY <1>1, <4>1 DEF ScreenOK
    <3>3. ASSUME CleanupPending PROVE screen'.shows = "local_cleanup_pending"
      <4>1. screen' = [screen EXCEPT !.shows = "local_cleanup_pending", !.busy = FALSE,
                                     !.guard = TRUE]
        BY <3>3 DEF CleanupPending
      <4> QED
        BY <1>1, <4>1 DEF ScreenOK
    <3> QED
      BY <3>1, <3>2, <3>3
  <2> QED
    BY <1>7
<1>12. ~(WalletDeclines \/ Registered \/ NothingRemoved \/ Deregistered)
  <2> SUFFICES ASSUME screen' = [screen EXCEPT !.busy = FALSE] PROVE FALSE
    BY DEF WalletDeclines, Registered, NothingRemoved, Deregistered, FinishWithCheck
  <2>1. screen'.shows = screen.shows
    BY <1>1 DEF ScreenOK
  <2> QED
    BY <1>2, <2>1
<1>13. ~(WalletSigns \/ ServerRegisters \/ ServerDeregisters \/ GiveUp \/ LateArrival \/ Focus
         \/ TokenRotates \/ RevokeInSettings \/ CloseElsewhere \/ CreateVault \/ PollerDrops
         \/ UNCHANGED clientVars)
  BY <1>5 DEF WalletSigns, ServerRegisters, ServerDeregisters, GiveUp, LateArrival, Focus,
     TokenRotates, RevokeInSettings, CloseElsewhere, CreateVault, PollerDrops, clientVars
<1>14. ~Restart
  BY <1>2 DEF Restart, FreshScreen
<1>15. \E c \in Checks : CheckToken(c)
  BY <1>6, <1>8, <1>9, <1>10, <1>11, <1>12, <1>13, <1>14 DEF Next
<1> QED
  BY <1>4, <1>15

\* Whatever interleaves: the watermark is ahead of what was sent, a confirmed
\* deregistration stays on record, and a check that may still emit knows of it
\* and of a recorded close.
THEOREM ClientInvariant == ClientSpec => []ClientInv
<1>1. Init => ClientInv
  <2> SUFFICES ASSUME Init PROVE ClientInv
    OBVIOUS
  <2>1. store = [record |-> None, watermark |-> 0, closed |-> None, pending |-> FALSE]
        /\ op = None /\ used = 0 /\ token \in Tokens /\ check = [c \in Checks |-> None]
    BY DEF Init
  <2>2. screen = [shows |-> "not_enabled", busy |-> FALSE, guard |-> FALSE]
        /\ told = [says |-> "never", kept |-> TRUE]
    BY DEF Init, FreshScreen
  <2>3. ClientTypeOK
    BY <2>1, <2>2 DEF ClientTypeOK
  <2>4. RevisionsKept /\ OffRecorded
    BY <2>1, <2>2 DEF RevisionsKept, OffRecorded, OffKept
  <2> QED
    BY <2>1, <2>3, <2>4 DEF ClientInv, CheckSound
<1>2. ASSUME ClientInv, [Next]_clientVars PROVE ClientInv'
  <2>1. CASE UNCHANGED clientVars
    BY <1>2, <2>1 DEF clientVars, ClientInv, ClientTypeOK, RevisionsKept, OffRecorded
  <2>2. CASE Next
    BY <1>2, <2>2, CheckClosedStep, CheckRepairStep, CheckReadStep, CheckTokenStep,
       StartRegisterStep, OpStep, HandlerStep, WriteStep DEF Next
  <2> QED
    BY <1>2, <2>1, <2>2
<1> QED
  BY <1>1, <1>2, PTL DEF ClientSpec

\* Every registration that the wallet signs carries a revision above all that
\* were sent before (computeNextRevision).
THEOREM RevisionsAlwaysRise == ClientSpec => RevisionsRise
<1>1. ClientInv /\ [Next]_clientVars
      => [WalletSigns /\ op.kind = "register" => op.revision > used]_clientVars
  <2> SUFFICES ASSUME ClientInv, WalletSigns, op.kind = "register" PROVE op.revision > used
    OBVIOUS
  <2>1. op # None /\ op.at = "wallet"
    BY DEF WalletSigns, OpAt
  <2> QED
    BY <2>1 DEF ClientInv, RevisionsKept
<1> QED
  BY <1>1, ClientInvariant, PTL DEF ClientSpec, RevisionsRise

\* A confirmed deregistration of which the table or the session kept a trace is
\* not undone on the screen (onState, attemptSignedDeregistration).
THEOREM OffStaysOff == ClientSpec => DisabledStaysOff
<1>1. ClientInv /\ [Next]_clientVars
      => [told.says = "off" /\ (told.kept \/ screen.guard) => ~TurnsOn]_clientVars
  <2> SUFFICES ASSUME ClientInv, [Next]_clientVars, told.says = "off", told.kept \/ screen.guard,
                      TurnsOn
               PROVE  FALSE
    OBVIOUS
  <2>1. PICK c \in Checks : /\ check[c] # None /\ check[c].live /\ check[c].at = "token"
                            /\ IsActive(check[c].record) /\ ~screen.guard
    BY OnlyACheckTurnsOn
  <2> QED
    BY <2>1 DEF ClientInv, CheckSound, OffKept
<1> QED
  BY <1>1, ClientInvariant, PTL DEF ClientSpec, DisabledStaysOff

\* From the recorded revoke on nothing turns the notifications of the closed
\* vault on again (recordVaultClosure, checkNow).
THEOREM ClosedStaysOff == ClientSpec => RevokedStaysOff
<1>1. ClientInv /\ [Next]_clientVars
      => [store.closed # None /\ IsActive(store.record) /\ store.record.revision <= store.closed
            => ~TurnsOn]_clientVars
  <2> SUFFICES ASSUME ClientInv, [Next]_clientVars, ClosedUp(store), TurnsOn
               PROVE  FALSE
    BY DEF ClosedUp
  <2>1. PICK c \in Checks : /\ check[c] # None /\ check[c].live /\ check[c].at = "token"
                            /\ IsActive(check[c].record) /\ ~screen.guard
    BY OnlyACheckTurnsOn
  <2> QED
    BY <2>1 DEF ClientInv, CheckSound
<1> QED
  BY <1>1, ClientInvariant, PTL DEF ClientSpec, RevokedStaysOff

------------------------------------------------------------------------------
(* The phone's other screen with asynchronous writers: the portfolio.      *)

\* What the store consists of, whoever wrote it last, and that it adds up.
Totalled ==
    /\ DOMAIN shown = {"of", "held", "priced", "positions", "total"}
    /\ TotalMatchesLists

\* Nothing is counted of no positions.
LEMMA NothingCounted == Counted({}) = {} /\ Cardinality({}) = 0
BY FS_EmptySet DEF Counted

\* Each of the two setters replaces one list and counts the other anew.
LEMMA SettersTotal ==
  ASSUME Totalled, NEW w, NEW held, NEW priced, NEW positions,
         \/ shown' = setBalances(w, held, priced)
         \/ shown' = setDefiPositions(positions)
         \/ shown' = Empty
         \/ shown' = shown
  PROVE  Totalled'
<1>1. CASE shown' = setBalances(w, held, priced)
  BY <1>1 DEF Totalled, TotalMatchesLists, setBalances
<1>2. CASE shown' = setDefiPositions(positions)
  BY <1>2 DEF Totalled, TotalMatchesLists, setDefiPositions
<1>3. CASE shown' = Empty
  BY <1>3, NothingCounted DEF Totalled, TotalMatchesLists, Empty
<1>4. CASE shown' = shown
  BY <1>4 DEF Totalled, TotalMatchesLists, Counted
<1> QED
  BY <1>1, <1>2, <1>3, <1>4

\* The total shown is the sum of both lists, whichever of the concurrent scans,
\* of this wallet or of an earlier one, wrote last (setBalances, setDefiPositions).
THEOREM TotalAddsUp == PortfolioSpec => []TotalMatchesLists
<1>1. PortfolioInit => Totalled
  <2> SUFFICES ASSUME PortfolioInit PROVE Totalled
    OBVIOUS
  <2>1. Counted({}) = {} /\ Cardinality({}) = 0
    BY NothingCounted
  <2> QED
    BY <2>1 DEF Totalled, TotalMatchesLists, PortfolioInit, Empty
<1>2. Totalled /\ [PortfolioNext]_vars => Totalled'
  <2> SUFFICES ASSUME Totalled, [PortfolioNext]_vars PROVE Totalled'
    OBVIOUS
  <2>1. ASSUME NEW w \in Wallets, Connect(w) PROVE Totalled'
    BY <2>1, SettersTotal DEF Connect
  <2>2. ASSUME NEW h \in Hooks, NEW down \in Outages, FinishBalances(h, down)
        PROVE  Totalled'
    <3> DEFINE held == getTokenBalances(bal[h].of, down)
    <3>1. \/ shown' = shown
          \/ shown' = setBalances(bal[h].of, held, enrichWithPrices(held, down))
      BY <2>2 DEF FinishBalances
    <3> QED
      BY <3>1, SettersTotal
  <2>3. ASSUME NEW h \in Hooks, NEW down \in Outages, FinishDefi(h, down)
        PROVE  Totalled'
    BY <2>3, SettersTotal DEF FinishDefi
  <2>4. ASSUME NEW h \in Hooks, Refresh(h) PROVE Totalled'
    BY <2>4, SettersTotal DEF Refresh, refreshBalances, refreshDefi
  <2>5. CASE Disconnect \/ PricesExpire
    BY <2>5, SettersTotal DEF Disconnect, PricesExpire
  <2>6. CASE UNCHANGED vars
    BY <2>6, SettersTotal DEF vars
  <2> QED
    BY <2>1, <2>2, <2>3, <2>4, <2>5, <2>6 DEF PortfolioNext, ScanEnds
<1>3. Totalled => TotalMatchesLists
  BY DEF Totalled
<1> QED
  BY <1>1, <1>2, <1>3, PTL DEF PortfolioSpec
================================================================================
