------------------------- MODULE NotificationClient -------------------------
(***************************************************************************)
(* The phone's half of notification registration, for the vault of one     *)
(* owner: the signed attempts (NotificationRegistrationService.ts), the    *)
(* local observer and the operation lock (notificationLifecycle.ts), and   *)
(* the Settings handlers that drive both (SettingsScreen.tsx).             *)
(*                                                                         *)
(* An attempt stops at the wallet, at the request and at its writes; a     *)
(* check of the observer stops between its reads.  They interleave with    *)
(* each other, with the server's poller, with revokes and new vaults, with *)
(* token rotation and with the death of the app, which loses everything    *)
(* but the settings table.                                                 *)
(***************************************************************************)
EXTENDS Integers, FiniteSets

CONSTANTS
    Tokens,        \* device tokens
    Checks,        \* slots for concurrent checks of the observer (bound)
    MaxRevision,   \* bound on revisions
    MaxFaults,     \* bound on failed writes and lost answers
    MaxVaults,     \* bound on vaults created one after the other
    None

\* What the settings table keeps of a registration, an attempt under way, and a
\* check of the observer.
Record == [state : {"active", "off"}, token : Tokens \cup {None}, revision : Nat]
Attempt ==
    [kind : {"register", "deregister"},
     at : {"wallet", "sent", "accepted", "refused", "removed", "absent", "gone"},
     token : Tokens \cup {None}, revision : Nat, proven : BOOLEAN, known : BOOLEAN]
Check ==
    [at : {"closed", "repair", "read", "token"}, live : BOOLEAN,
     record : Record \cup {None}, handler : BOOLEAN]

ASSUME ClientAssumption ==
    /\ {MaxRevision, MaxFaults, MaxVaults} \subseteq Nat
    /\ None \notin Record /\ None \notin Attempt /\ None \notin Check /\ None \notin Nat

VARIABLES
    vault,         \* the chain: is there a vault at the owner's address
    row,           \* the server's registration, or None
    late,          \* a request the phone gave up on and the server may still get
    token,         \* the current device token
    store,         \* the settings table: record, watermark, closed, pending
    op,            \* the attempt holding the operation lock, or None
    check,         \* [Checks -> running check or None]
    screen,        \* Settings: what it shows, busy flag, session guard
    told,          \* history: what the server last confirmed and how it was kept
    used,          \* history: the highest revision sent
    faults, vaults

clientVars == <<vault, row, late, token, store, op, check, screen, told, used,
                faults, vaults>>

Revisions == 1..MaxRevision

\* The success record of an accepted registration, and its tombstone.
Active(t, r) == [state |-> "active", token |-> t, revision |-> r]
Tombstone == [state |-> "off", token |-> None, revision |-> 0]

IsActive(r) == r # None /\ r.state = "active"

------------------------------------------------------------------------------
(* notificationLifecycle.ts                                                *)

\* The token is read after the record.
reconcile(record, current) ==
    CASE record = None -> "not_enabled"
      [] record # None /\ ~IsActive(record) -> "disabled"
      [] IsActive(record) /\ current = None -> "token_unavailable"
      [] IsActive(record) /\ record.token = current -> "enabled"
      [] IsActive(record) /\ current \notin {None, record.token} -> "update_required"

\* generation++: no check in flight may emit any more.
invalidated == [c \in Checks |->
                  IF check[c] = None THEN None ELSE [check[c] EXCEPT !.live = FALSE]]

\* checkNow outdates the checks in flight.  A handler that waits for the check
\* runs its finally block when it ends.
Started(c, handler) ==
    [invalidated EXCEPT ![c] = [at |-> "closed", live |-> TRUE, record |-> None,
                                handler |-> handler]]
checkNow(handler) == \E c \in Checks : check[c] = None /\ check' = Started(c, handler)

\* Without the guard of the session.
onStateUnguarded(s) ==
    IF screen.busy THEN screen
    ELSE [screen EXCEPT !.shows = s,
                        !.guard = @ /\ s \notin {"disabled", "not_enabled"}]

\* Settings ignores the observer while an action runs, and never lets it show an
\* active record again while a deregistration is pending in this session.
onState(s) ==
    IF screen.busy \/ (screen.guard /\ s \in {"enabled", "update_required"}) THEN screen
    ELSE [screen EXCEPT !.shows = s,
                        !.guard = @ /\ s \notin {"disabled", "not_enabled"}]

\* A check emits unless it is outdated, and ends; the handler waiting for it
\* clears the busy flag and outdates the checks in flight.
Emit(c, s) ==
    LET shown == IF check[c].live THEN onState(s) ELSE screen
    IN  /\ screen' = IF check[c].handler THEN [shown EXCEPT !.busy = FALSE] ELSE shown
        /\ check' = [IF check[c].handler THEN invalidated ELSE check EXCEPT ![c] = None]

Proceed(c, at) == check' = [check EXCEPT ![c].at = at] /\ UNCHANGED screen

\* As if a registration were newer than the close it preceded.
ClosureIsStaleAtOnce(record) == record.revision >= store.closed

\* A tombstone older than the record belongs to an earlier vault.
ClosureIsStale(record) == record.revision > store.closed

\* A write of the settings table may fail.
Write(ok) == IF ok THEN UNCHANGED faults ELSE faults < MaxFaults /\ faults' = faults + 1

\* The closed-vault marker comes first: cleanup pending, or cleared.
CheckClosed(c) ==
    /\ check[c] # None /\ check[c].at = "closed"
    /\ \/ /\ store.closed # None
          /\ IsActive(store.record) /\ ~ClosureIsStale(store.record)
          /\ Emit(c, "vault_closed_cleanup_pending")
          /\ UNCHANGED <<store, faults>>
       \/ /\ store.closed # None
          /\ ~(IsActive(store.record) /\ ~ClosureIsStale(store.record))
          /\ \E ok \in BOOLEAN :
                /\ Write(ok)
                /\ store' = IF ok THEN [store EXCEPT !.closed = None] ELSE store
          /\ Proceed(c, "repair")
       \/ /\ store.closed = None
          /\ Proceed(c, "repair") /\ UNCHANGED <<store, faults>>
    /\ UNCHANGED <<vault, row, late, token, op, told, used, vaults>>

\* A pending tombstone is written now; while that fails the check ends here.
CheckRepair(c) ==
    /\ check[c] # None /\ check[c].at = "repair"
    /\ \/ /\ store.pending
          /\ Write(TRUE)
          /\ store' = [store EXCEPT !.record = Tombstone, !.pending = FALSE]
          /\ Proceed(c, "read")
       \/ /\ store.pending
          /\ Write(FALSE)
          /\ Emit(c, "local_cleanup_pending")
          /\ \E written \in BOOLEAN :
                store' = IF written THEN [store EXCEPT !.record = Tombstone] ELSE store
       \/ /\ ~store.pending
          /\ Proceed(c, "read") /\ UNCHANGED <<store, faults>>
    /\ UNCHANGED <<vault, row, late, token, op, told, used, vaults>>

CheckRead(c) ==
    /\ check[c] # None /\ check[c].at = "read"
    /\ check' = [check EXCEPT ![c].record = store.record, ![c].at = "token"]
    /\ UNCHANGED <<vault, row, late, token, store, op, screen, told, used, faults, vaults>>

CheckToken(c) ==
    /\ check[c] # None /\ check[c].at = "token"
    /\ \/ Emit(c, reconcile(check[c].record, token)) /\ UNCHANGED faults
       \/ Emit(c, reconcile(check[c].record, None)) /\ Write(FALSE)
    /\ UNCHANGED <<vault, row, late, token, store, op, told, used, vaults>>

------------------------------------------------------------------------------
(* NotificationRegistrationService.ts                                      *)

GreatestOf(a, b) == IF a >= b THEN a ELSE b

\* Without the high-watermark.
computeRevisionByClock(watermark, now) == now

\* The next revision passes the watermark whatever the clock says.
computeNextRevision(watermark, now) == GreatestOf(now, watermark + 1)

\* The handler ends without a check.
Finish(shows) ==
    /\ screen' = [screen EXCEPT !.shows = shows, !.busy = FALSE]
    /\ check' = invalidated

\* The handler ends with a check, which it waits for.
FinishWithCheck ==
    /\ screen' = [screen EXCEPT !.busy = FALSE]
    /\ checkNow(TRUE)

\* The panel offers Enable or Update.
EnableOffered == screen.shows \notin {"registering", "disabling", "enabled"}

\* A tap on Enable or Update: the watermark is kept before the wallet opens.
StartRegister(now) ==
    /\ ~screen.busy /\ op = None
    /\ EnableOffered
    /\ LET revision == computeNextRevision(store.watermark, now)
       IN  /\ revision \in Revisions
           /\ store' = [store EXCEPT !.watermark = revision]
           /\ op' = [kind |-> "register", at |-> "wallet", token |-> token,
                     revision |-> revision, proven |-> FALSE, known |-> FALSE]
    /\ screen' = [screen EXCEPT !.shows = "registering", !.busy = TRUE, !.guard = FALSE]
    /\ UNCHANGED <<vault, row, late, token, check, told, used, faults, vaults>>

\* No device token, no randomness, or the watermark cannot be kept.
RegisterFailsLocally ==
    /\ ~screen.busy /\ op = None
    /\ EnableOffered
    /\ Write(FALSE)
    /\ screen' = [screen EXCEPT !.shows = "failed", !.guard = FALSE]
    /\ check' = invalidated
    /\ UNCHANGED <<vault, row, late, token, store, op, told, used, vaults>>

\* The local record and the proof of the close are read before the wallet opens.
attemptSignedDeregistration(cleanup) ==
    [kind |-> "deregister", at |-> "wallet", token |-> None, revision |-> 0,
     proven |-> cleanup /\ store.closed # None, known |-> store.record # None]

\* A confirmed tap on Disable or Clear, or on the cleanup after a close; what
\* the panel shows may have changed under the dialog.
StartDeregister(cleanup) ==
    /\ ~screen.busy /\ op = None
    /\ op' = attemptSignedDeregistration(cleanup)
    /\ screen' = [screen EXCEPT !.shows = "disabling", !.busy = TRUE]
    /\ UNCHANGED <<vault, row, late, token, store, check, told, used, faults, vaults>>

\* runExclusive refuses a second operation: a tap while the first one still
\* runs and the busy flag was cleared by an older handler.
TapWhileActive(kind) ==
    /\ ~screen.busy /\ op # None
    /\ kind = "register" => EnableOffered
    /\ screen' = [screen EXCEPT
                    !.shows = IF kind # op.kind THEN "failed"
                              ELSE IF kind = "register" THEN "registering" ELSE "disabling",
                    !.guard = @ /\ kind # "register"]
    /\ check' = invalidated
    /\ UNCHANGED <<vault, row, late, token, store, op, told, used, faults, vaults>>

OpAt(at) == op # None /\ op.at = at
OpTo(at) == op' = [op EXCEPT !.at = at]

WalletSigns ==
    /\ OpAt("wallet")
    /\ OpTo("sent")
    /\ used' = IF op.kind = "register" THEN GreatestOf(used, op.revision) ELSE used
    /\ UNCHANGED <<vault, row, late, token, store, check, screen, told, faults, vaults>>

\* Cancelled: no request; the screen returns to what the table says.
WalletDeclines ==
    /\ OpAt("wallet")
    /\ op' = None
    /\ FinishWithCheck
    /\ UNCHANGED <<vault, row, late, token, store, told, used, faults, vaults>>

\* The server takes a registration of a live vault with a newer revision.
Acceptable(r) == vault /\ (row # None => r.revision > row.revision)
RowOf(r) == [token |-> r.token, revision |-> r.revision]

ServerRegisters ==
    /\ OpAt("sent") /\ op.kind = "register"
    /\ \/ Acceptable(op) /\ row' = RowOf(op) /\ OpTo("accepted")
       \/ ~Acceptable(op) /\ OpTo("refused") /\ UNCHANGED row
    /\ UNCHANGED <<vault, late, token, store, check, screen, told, used, faults, vaults>>

\* A row of the signer goes without a look at the chain; without one the vault
\* must exist.
ServerDeregisters ==
    /\ OpAt("sent") /\ op.kind = "deregister"
    /\ row' = None
    /\ OpTo(CASE row # None -> "removed"
              [] row = None /\ vault -> "absent"
              [] row = None /\ ~vault -> IF op.proven THEN "gone" ELSE "refused")
    /\ UNCHANGED <<vault, late, token, store, check, screen, told, used, faults, vaults>>

\* The request fails on the phone: it was lost, was already handled, or reaches
\* the server later.
GiveUp ==
    /\ op # None /\ op.at \notin {"wallet", "refused"}
    /\ Write(FALSE)
    /\ OpTo("refused")
    /\ \/ UNCHANGED late
       \/ OpAt("sent") /\ op.kind = "register" /\ late' = RowOf(op)
    /\ UNCHANGED <<vault, row, token, store, check, screen, told, used, vaults>>

LateArrival ==
    /\ late # None
    /\ row' = IF Acceptable(late) THEN late ELSE row
    /\ late' = None
    /\ UNCHANGED <<vault, token, store, op, check, screen, told, used, faults, vaults>>

\* No automatic retry, no other path.
AttemptFails ==
    /\ OpAt("refused")
    /\ op' = None
    /\ Finish("failed")
    /\ UNCHANGED <<vault, row, late, token, store, told, used, faults, vaults>>

\* The record is written and the closed marker cleared, each if it can be.
Registered ==
    /\ OpAt("accepted")
    /\ \E kept, cleared \in BOOLEAN :
          /\ Write(kept /\ cleared)
          /\ store' = [store EXCEPT
                         !.record = IF kept THEN Active(op.token, op.revision) ELSE @,
                         !.closed = IF cleared THEN None ELSE @]
          /\ told' = [says |-> "on", kept |-> kept]
    /\ op' = None
    /\ FinishWithCheck
    /\ UNCHANGED <<vault, row, late, token, used, vaults>>

\* Nothing was known and nothing removed: only the closed marker is cleared.
NothingRemoved ==
    /\ OpAt("absent") /\ ~op.known
    /\ store' = [store EXCEPT !.closed = None]
    /\ told' = [says |-> "never", kept |-> TRUE]
    /\ op' = None
    /\ FinishWithCheck
    /\ UNCHANGED <<vault, row, late, token, used, faults, vaults>>

Removed == op # None /\ (op.at \in {"removed", "gone"} \/ (op.at = "absent" /\ op.known))

\* The tombstone is written, and then the closed marker cleared.
Deregistered ==
    /\ Removed
    /\ \E cleared \in BOOLEAN :
          /\ Write(cleared)
          /\ store' = [store EXCEPT !.record = Tombstone,
                                    !.closed = IF cleared THEN None ELSE @]
    /\ told' = [says |-> "off", kept |-> TRUE]
    /\ op' = None
    /\ FinishWithCheck
    /\ UNCHANGED <<vault, row, late, token, used, vaults>>

\* The tombstone cannot be written: the durable marker, if it can be, and the
\* guard of this session.
CleanupPending ==
    /\ Removed
    /\ faults < MaxFaults
    /\ \E marked \in BOOLEAN :
          /\ faults' = faults + 1
          /\ store' = [store EXCEPT !.pending = @ \/ marked]
          /\ told' = [says |-> "off", kept |-> marked]
    /\ op' = None
    /\ screen' = [screen EXCEPT !.shows = "local_cleanup_pending", !.busy = FALSE,
                                !.guard = TRUE]
    /\ check' = invalidated
    /\ UNCHANGED <<vault, row, late, token, used, vaults>>

------------------------------------------------------------------------------
(* Settings, the vault and the world.                                      *)

Focus ==
    /\ ~screen.busy
    /\ checkNow(FALSE)
    /\ UNCHANGED <<vault, row, late, token, store, op, screen, told, used, faults, vaults>>

\* The push-token listener checks at once.
TokenRotates ==
    /\ token' \in Tokens \ {token}
    /\ checkNow(FALSE)
    /\ UNCHANGED <<vault, row, late, store, op, screen, told, used, faults, vaults>>

\* The close is recorded when there is a registration to clean up.
recordVaultClosure(ok) ==
    IF ok /\ IsActive(store.record) THEN [store EXCEPT !.closed = store.record.revision]
    ELSE store

\* A confirmed revoke in Settings records the close, and checks.
reconcileNotificationsAfterClose ==
    /\ \E ok \in BOOLEAN :
          /\ IsActive(store.record) \/ ok
          /\ Write(ok)
          /\ store' = recordVaultClosure(ok)
    /\ checkNow(FALSE)

RevokeInSettings ==
    /\ vault
    /\ vault' = FALSE
    /\ reconcileNotificationsAfterClose
    /\ UNCHANGED <<row, late, token, op, screen, told, used, vaults>>

\* Every other close: the wizard's revoke, the close of an executed vault, a
\* cranker's close, a revoke on another device.
CloseElsewhere ==
    /\ vault
    /\ vault' = FALSE
    /\ UNCHANGED <<row, late, token, store, op, check, screen, told, used, faults, vaults>>

CreateVault ==
    /\ ~vault /\ vaults < MaxVaults
    /\ vault' = TRUE /\ vaults' = vaults + 1
    /\ UNCHANGED <<row, late, token, store, op, check, screen, told, used, faults>>

\* The poller drops a row whose vault is gone or whose token is dead.
PollerDrops ==
    /\ row # None
    /\ ~vault \/ row.token # token
    /\ row' = None
    /\ UNCHANGED <<vault, late, token, store, op, check, screen, told, used, faults, vaults>>

FreshScreen == [shows |-> "not_enabled", busy |-> FALSE, guard |-> FALSE]

\* The app dies and starts again; the observer checks when Settings mounts.
Restart ==
    /\ op' = None
    /\ screen' = FreshScreen
    /\ \E c \in Checks : check' = [d \in Checks |->
          IF d = c THEN [at |-> "closed", live |-> TRUE, record |-> None, handler |-> FALSE]
          ELSE None]
    /\ UNCHANGED <<vault, row, late, token, store, told, used, faults, vaults>>

Init ==
    /\ vault = TRUE /\ vaults = 1
    /\ row = None /\ late = None
    /\ token \in Tokens
    /\ store = [record |-> None, watermark |-> 0, closed |-> None, pending |-> FALSE]
    /\ op = None
    /\ check = [c \in Checks |-> None]
    /\ screen = FreshScreen
    /\ told = [says |-> "never", kept |-> TRUE]
    /\ used = 0 /\ faults = 0

Next ==
    \/ \E c \in Checks :
          CheckClosed(c) \/ CheckRepair(c) \/ CheckRead(c) \/ CheckToken(c)
    \/ \E now \in Revisions : StartRegister(now)
    \/ \E cleanup \in BOOLEAN : StartDeregister(cleanup)
    \/ \E kind \in {"register", "deregister"} : TapWhileActive(kind)
    \/ RegisterFailsLocally
    \/ WalletSigns \/ WalletDeclines
    \/ ServerRegisters \/ ServerDeregisters \/ GiveUp \/ LateArrival
    \/ AttemptFails \/ Registered \/ NothingRemoved \/ Deregistered \/ CleanupPending
    \/ Focus \/ TokenRotates
    \/ RevokeInSettings \/ CloseElsewhere \/ CreateVault \/ PollerDrops
    \/ Restart

ClientSpec == Init /\ [][Next]_clientVars

------------------------------------------------------------------------------
(* Properties.                                                             *)

\* NotificationRegistrationService.computeNextRevision: every request of this
\* phone carries a revision above all it sent before, across cancelled, lost and
\* interrupted attempts, restarts and a clock that was set back, so that the
\* server never takes an older choice for the newer one.
RevisionsRise ==
    [][WalletSigns /\ op.kind = "register" => op.revision > used]_clientVars

TurnsOn == screen.shows \notin {"enabled", "update_required"}
           /\ screen'.shows \in {"enabled", "update_required"}

\* SettingsScreen.onState, attemptSignedDeregistration: once the server confirmed
\* a deregistration and the table, or failing that the session, kept a trace of
\* it, no check of the observer, outdated or new, no restart and no rotation turns
\* the notifications on again on the screen.
DisabledStaysOff ==
    [][told.says = "off" /\ (told.kept \/ screen.guard) => ~TurnsOn]_clientVars

\* recordVaultClosure, checkNow: from the recorded revoke on, nothing turns the
\* notifications of the closed vault on again on the screen, before a newer
\* registration is recorded.
RevokedStaysOff ==
    [][store.closed # None /\ IsActive(store.record) /\ store.record.revision <= store.closed
         => ~TurnsOn]_clientVars

------------------------------------------------------------------------------
(* What holds in every reachable state, and makes the properties inductive. *)

ClientTypeOK ==
    /\ store \in [record : Record \cup {None}, watermark : Nat, closed : Nat \cup {None},
                  pending : BOOLEAN]
    /\ op \in Attempt \cup {None}
    /\ check \in [Checks -> Check \cup {None}]
    /\ screen \in [shows : {screen.shows}, busy : BOOLEAN, guard : BOOLEAN]
    /\ told \in [says : {"on", "off", "never"}, kept : BOOLEAN]
    /\ token \in Tokens
    /\ used \in Nat

\* The watermark is ahead of every revision sent, and the revision that waits
\* for the wallet is ahead of those.
RevisionsKept ==
    /\ used <= store.watermark
    /\ op # None /\ op.kind = "register" =>
         op.revision <= store.watermark /\ (op.at = "wallet" => op.revision > used)

OffKept(t) == t.says = "off" /\ t.kept
ClosedUp(s) == s.closed # None /\ IsActive(s.record) /\ s.record.revision <= s.closed

\* A check that may still emit has seen the deregistration and the close.
CheckSound(x, t, s) ==
    x # None /\ x.live =>
        /\ OffKept(t) => /\ x.at = "read" => ~IsActive(s.record)
                         /\ x.at = "token" => ~IsActive(x.record)
        /\ ClosedUp(s) => x.at = "closed"

\* A confirmed deregistration that left a trace is in the record or pending.
OffRecorded == OffKept(told) /\ IsActive(store.record) => store.pending

ClientInv ==
    /\ ClientTypeOK /\ RevisionsKept /\ OffRecorded
    /\ \A c \in Checks : CheckSound(check[c], told, store)

==============================================================================
