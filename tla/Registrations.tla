---------------------------- MODULE Registrations ----------------------------
(***************************************************************************)
(* The push registrations of the notify server: the two tables of          *)
(* registrationStore.js, the owner-signed authorisation of                 *)
(* registerAuthV2.js, the routes with their authentication modes, and the  *)
(* latch that closes the legacy window.                                    *)
(*                                                                         *)
(* A request handler suspends in one place, the ownership lookup over RPC. *)
(* It is one step up to there and one step from the answer to the end of   *)
(* its SQLite transaction; between the two, other requests, the pruning    *)
(* timer and the clock go on.  Requests that are refused change nothing    *)
(* and are no actions.  Device token, stages and what they come with are   *)
(* one value, the token.  The rows that the poller deletes are not here.   *)
(***************************************************************************)
EXTENDS Integers, FiniteSets

CONSTANTS
    Owners, Vaults,
    VaultOwner,        \* VaultOwner[v]: the owner whose vault PDA v is
    Tokens, Nonces, Revisions,
    Skews,             \* how far the clocks of phones are from the server's
    Slots,             \* requests that the server can have under way
    Window,            \* SIG_WINDOW_SEC
    PruneAge,          \* how old a used nonce is when it is dropped
    Until,             \* REGISTRATION_LEGACY_ACCEPT_UNTIL
    Modes,             \* the authentication modes a process may be booted in
    \* What owners sign and what holders of the secret send.
    RegisterInputs, DeregisterInputs, LegacyInputs,
    NoRow, Idle,
    MaxTime            \* bound: the clock stops here

ASSUME RegistrationAssumption ==
    /\ VaultOwner \in [Vaults -> Owners]
    /\ Revisions \subseteq Nat \ {0}
    /\ Skews \subseteq Int
    /\ {Window, PruneAge, Until, MaxTime} \subseteq Nat
    /\ Modes \subseteq {"legacy", "dual", "signed"}
    /\ RegisterInputs \subseteq
           [owner : Owners, vault : Vaults, token : Tokens, revision : Revisions]
    /\ DeregisterInputs \subseteq [owner : Owners, vault : Vaults]
    /\ LegacyInputs \subseteq [owner : Owners, vault : Vaults, token : Tokens]

ASSUME PruneAgeAssumption == PruneAge >= 2 * Window

VARIABLES
    now,         \* the server's clock, in seconds
    mode,        \* the mode of this process
    latched,     \* expiry of the legacy window observed by this process
    rows,        \* table registrations, by vault
    nonces,      \* table used_nonces
    slots,       \* the requests under way
    msgs,        \* every request an owner has signed, deliverable at any time
    \* History, for the properties.
    spent,       \* the nonces that were ever claimed
    stepped      \* the clock has been set back

store == <<rows, nonces, spent>>
process == <<mode, latched, slots>>
world == <<now, msgs, stepped>>
vars == <<store, process, world>>

-------------------------------------------------------------------------------
(* Types.                                                                     *)

Row == [owner : Owners, token : Tokens, signed : BOOLEAN, revision : Nat]

RegisterMessage ==
    [op : {"register"}, owner : Owners, vault : Vaults, token : Tokens,
     revision : Revisions, timestamp : Nat, nonce : Nonces]
DeregisterMessage ==
    [op : {"deregister"}, owner : Owners, vault : Vaults, timestamp : Nat,
     nonce : Nonces]
LegacyMessage ==
    [op : {"legacy"}, owner : Owners, vault : Vaults, token : Tokens]

\* A handler that waits for its ownership lookup: its request and the clock it
\* was authorised by (0 for a legacy request).
Handler ==
    [msg : RegisterMessage \cup DeregisterMessage \cup LegacyMessage, at : Nat]

UsedNonce == [owner : Owners, nonce : Nonces, used_at : Nat]

ASSUME SentinelAssumption == NoRow \notin Row /\ Idle \notin Handler

\* Tables, handlers and messages hold data of their own type.
RegistrationTypeOK ==
    /\ now \in Nat
    /\ mode \in Modes /\ latched \in BOOLEAN
    /\ rows \in [Vaults -> Row \cup {NoRow}]
    /\ nonces \subseteq UsedNonce
    /\ slots \in [Slots -> Handler \cup {Idle}]
    /\ msgs \subseteq RegisterMessage \cup DeregisterMessage
    /\ spent \subseteq Owners \X Nonces
    /\ stepped \in BOOLEAN

-------------------------------------------------------------------------------
(* Authorisation.                                                             *)

Fresh(m) == now - m.timestamp <= Window /\ m.timestamp - now <= Window

\* Mutant: the vault of anybody.
AnyVault(m) == TRUE

\* The vault is the PDA of the owner who asks.
CanonicalPda(m) == VaultOwner[m.vault] = m.owner

WindowOver(m) == m = "dual" /\ now >= Until

\* Mutant: the latch forgotten.
AcceptingByClock == mode = "legacy" \/ (mode = "dual" /\ now < Until)

LegacyAccepting == mode = "legacy" \/ (mode = "dual" /\ ~latched /\ now < Until)

Suspend(s, m, at) ==
    /\ slots[s] = Idle
    /\ slots' = [slots EXCEPT ![s] = [msg |-> m, at |-> at]]
    /\ UNCHANGED <<mode, latched, store, world>>

StartRegister(s, m) ==
    /\ mode # "legacy"
    /\ m \in msgs /\ m.op = "register"
    /\ Fresh(m) /\ CanonicalPda(m)
    /\ Suspend(s, m, now)

\* Without a row the signer must own the vault on chain.
StartDeregister(s, m) ==
    /\ mode # "legacy"
    /\ m \in msgs /\ m.op = "deregister"
    /\ Fresh(m) /\ CanonicalPda(m)
    /\ rows[m.vault] = NoRow
    /\ Suspend(s, m, now)

StartLegacyRegister(s, body) ==
    /\ LegacyAccepting
    /\ CanonicalPda(body)
    /\ Suspend(s, [op |-> "legacy", owner |-> body.owner, vault |-> body.vault,
                   token |-> body.token], 0)

\* The lookup finds no vault of this owner or fails, or the transaction throws
\* and rolls back: the request ends and nothing is written.
Refuse(s) ==
    /\ slots[s] # Idle
    /\ slots' = [slots EXCEPT ![s] = Idle]
    /\ UNCHANGED <<mode, latched, store, world>>

\* The lookup has found the vault: handler s goes on, and this is its last step.
Resume(s, op) ==
    /\ slots[s] # Idle /\ slots[s].msg.op = op
    /\ slots' = [slots EXCEPT ![s] = Idle]
    /\ UNCHANGED <<mode, latched, world>>

-------------------------------------------------------------------------------
(* Transactions.                                                              *)

Claimed == {<<n.owner, n.nonce>> : n \in nonces}

Usable(m) == <<m.owner, m.nonce>> \notin Claimed

\* INSERT OR IGNORE: claims the nonce, or finds it used.
Claim(m, at) ==
    IF Usable(m)
      THEN /\ nonces' = nonces \cup
                  {[owner |-> m.owner, nonce |-> m.nonce, used_at |-> at]}
           /\ spent' = spent \cup {<<m.owner, m.nonce>>}
      ELSE UNCHANGED <<nonces, spent>>

\* Mutant: an equal revision accepted.
NotOlder(m, row) == m.revision >= row.revision

Newer(m, row) == m.revision > row.revision

\* Mutant: two parameters swapped.
SignedRowByTime(m) ==
    [owner |-> m.owner, token |-> m.token, signed |-> TRUE, revision |-> m.timestamp]

SignedRow(m) ==
    [owner |-> m.owner, token |-> m.token, signed |-> TRUE, revision |-> m.revision]

\* The nonce is spent even when the row belongs to another or is newer.
SignedRegistration(m, at) ==
    /\ Claim(m, at)
    /\ LET row == rows[m.vault]
           accepted == /\ Usable(m)
                       /\ row # NoRow => row.owner = m.owner /\ Newer(m, row)
       IN rows' = IF accepted THEN [rows EXCEPT ![m.vault] = SignedRow(m)] ELSE rows

SignedDeregistration(m, at) ==
    /\ Claim(m, at)
    /\ LET row == rows[m.vault]
           accepted == Usable(m) /\ row # NoRow /\ row.owner = m.owner
       IN rows' = IF accepted THEN [rows EXCEPT ![m.vault] = NoRow] ELSE rows

ApplySignedRegistration(s) ==
    /\ Resume(s, "register")
    /\ SignedRegistration(slots[s].msg, slots[s].at)

ApplySignedDeregistration(s) ==
    /\ Resume(s, "deregister")
    /\ SignedDeregistration(slots[s].msg, slots[s].at)

\* A row of the signer authorises without a lookup (a row of another refuses).
DeregisterOwnRow(m) ==
    /\ mode # "legacy"
    /\ m \in msgs /\ m.op = "deregister"
    /\ Fresh(m) /\ CanonicalPda(m)
    /\ rows[m.vault] # NoRow /\ rows[m.vault].owner = m.owner
    /\ SignedDeregistration(m, now)
    /\ UNCHANGED <<process, world>>

\* Mutant: signed rows open to the legacy path.
NeverSigned(row) == FALSE

IsSignedRow(row) == row # NoRow /\ row.signed

LegacyRow(m) ==
    [owner |-> m.owner, token |-> m.token, signed |-> FALSE, revision |-> 0]

ApplyLegacyRegistration(s) ==
    /\ Resume(s, "legacy")
    /\ LET m == slots[s].msg IN
       rows' = IF IsSignedRow(rows[m.vault]) THEN rows
               ELSE [rows EXCEPT ![m.vault] = LegacyRow(m)]
    /\ UNCHANGED <<nonces, spent>>

\* These two run without an await, from the gate to the delete.
DeleteLegacyRegistration(v) ==
    /\ LegacyAccepting
    /\ rows[v] # NoRow /\ ~IsSignedRow(rows[v])
    /\ rows' = [rows EXCEPT ![v] = NoRow]
    /\ UNCHANGED <<nonces, spent, process, world>>

DeleteLegacyRegistrationsByOwner(o) ==
    /\ mode = "legacy"
    /\ rows' = [v \in Vaults |->
           IF rows[v] # NoRow /\ rows[v].owner = o /\ ~IsSignedRow(rows[v])
             THEN NoRow ELSE rows[v]]
    /\ UNCHANGED <<nonces, spent, process, world>>

\* Mutant: the horizon that leaves out the messages dated ahead.
PruneHorizonOfOneWindow == now - Window

PruneHorizon == now - PruneAge

PruneNonces ==
    /\ nonces' = {n \in nonces : n.used_at >= PruneHorizon}
    /\ UNCHANGED <<rows, spent, process, world>>

\* Whoever asks for the state of the window, /health too, sets the latch.
ObserveExpiry ==
    /\ WindowOver(mode)
    /\ latched' = TRUE
    /\ UNCHANGED <<mode, slots, store, world>>

\* The database survives, the requests under way do not, and a new latch is set
\* at once if the window is over.
Restart ==
    /\ mode' \in Modes
    /\ latched' = WindowOver(mode')
    /\ slots' = [s \in Slots |-> Idle]
    /\ UNCHANGED <<store, world>>

-------------------------------------------------------------------------------
(* The environment: clocks and owners.                                        *)

Tick ==
    /\ now < MaxTime
    /\ now' = now + 1
    /\ UNCHANGED <<msgs, stepped, store, process>>

\* The system clock is set back.
StepBack ==
    /\ now > 1 /\ ~stepped
    /\ now' = now - 1
    /\ stepped' = TRUE
    /\ UNCHANGED <<msgs, store, process>>

\* An owner signs a request, with a nonce that was never drawn before.
Sign(m) ==
    /\ m.timestamp > 0
    /\ \A other \in msgs : <<other.owner, other.nonce>> # <<m.owner, m.nonce>>
    /\ msgs' = msgs \cup {m}
    /\ UNCHANGED <<now, stepped, store, process>>

SignRegister(body, timestamp, nonce) ==
    Sign([op |-> "register", owner |-> body.owner, vault |-> body.vault,
          token |-> body.token, revision |-> body.revision,
          timestamp |-> timestamp, nonce |-> nonce])

SignDeregister(body, timestamp, nonce) ==
    Sign([op |-> "deregister", owner |-> body.owner, vault |-> body.vault,
          timestamp |-> timestamp, nonce |-> nonce])

-------------------------------------------------------------------------------
Init ==
    /\ now = 1
    /\ mode \in Modes /\ latched = WindowOver(mode)
    /\ rows = [v \in Vaults |-> NoRow] /\ nonces = {}
    /\ slots = [s \in Slots |-> Idle]
    /\ msgs = {} /\ spent = {} /\ stepped = FALSE

RequestNext ==
    \E s \in Slots :
        \/ \E m \in msgs : StartRegister(s, m)
        \/ \E m \in msgs : StartDeregister(s, m)
        \/ \E body \in LegacyInputs : StartLegacyRegister(s, body)
        \/ Refuse(s)
        \/ ApplySignedRegistration(s)
        \/ ApplySignedDeregistration(s)
        \/ ApplyLegacyRegistration(s)

ServerNext ==
    \/ RequestNext
    \/ \E m \in msgs : DeregisterOwnRow(m)
    \/ \E v \in Vaults : DeleteLegacyRegistration(v)
    \/ \E o \in Owners : DeleteLegacyRegistrationsByOwner(o)
    \/ PruneNonces
    \/ ObserveExpiry
    \/ Restart

WorldNext ==
    \/ Tick
    \/ StepBack
    \/ \E body \in RegisterInputs, n \in Nonces, skew \in Skews :
           SignRegister(body, now + skew, n)
    \/ \E body \in DeregisterInputs, n \in Nonces, skew \in Skews :
           SignDeregister(body, now + skew, n)

Next == ServerNext \/ WorldNext

Spec == Init /\ [][Next]_vars

-------------------------------------------------------------------------------
(* Safety.                                                                    *)

SignedRowOf(v) == rows[v] # NoRow /\ rows[v].signed

\* A row belongs to the owner whose PDA its vault is, so that the
\* owner_conflict guard never shuts the true owner out.
RowsOwnedByPda ==
    \A v \in Vaults : rows[v] # NoRow => rows[v].owner = VaultOwner[v]

\* What a signed row holds is what its owner signed, token and revision
\* together, however signed, legacy and replayed requests interleave.
SignedRowsAuthentic ==
    \A v \in Vaults : SignedRowOf(v) =>
        \E m \in msgs :
            /\ m.op = "register" /\ m.vault = v /\ m.owner = rows[v].owner
            /\ m.token = rows[v].token /\ m.revision = rows[v].revision

\* A claimed nonce is dropped only when the request that carried it can no
\* longer pass the freshness check, even one dated ahead by a fast clock (as
\* long as the server's clock was not set back).
PrunedNonceIsStale ==
    ~stepped => \A m \in msgs :
        <<m.owner, m.nonce>> \in spent \ Claimed => ~Fresh(m)

-------------------------------------------------------------------------------
(* What a step may never do.                                                  *)

\* A signed row changes only in a step that spends a nonce of its owner: no
\* legacy request, restart or change of mode overwrites or removes it.
SignedRowsSticky ==
    [][\A v \in Vaults :
         SignedRowOf(v) /\ rows'[v] # rows[v] =>
             \E k \in Claimed' \ Claimed : k[1] = rows[v].owner]_vars

\* As long as a signed row stays, its revision only grows, in whatever order
\* signed requests arrive, and no two requests of one revision replace each
\* other.
RevisionNeverBack ==
    [][\A v \in Vaults :
         SignedRowOf(v) /\ rows'[v] # NoRow /\ rows'[v] # rows[v] =>
             rows'[v].revision > rows[v].revision]_vars

\* Once this process has observed the end of the legacy window it admits no
\* legacy request any more, even if the clock is set back: rows change by a
\* signed request or by a legacy one that was admitted before.
LegacyStaysClosed ==
    [][latched =>
         /\ \A s \in Slots :
                slots[s] = Idle /\ slots'[s] # Idle => slots'[s].msg.op # "legacy"
         /\ rows' # rows =>
                \/ Claimed' # Claimed
                \/ \E s \in Slots : /\ slots[s] # Idle /\ slots'[s] = Idle
                                    /\ slots[s].msg.op = "legacy"]_vars

===============================================================================
