------------------------- MODULE RegistrationProofs -------------------------
(***************************************************************************)
(* Proofs about Registrations, for every set of owners, vaults, nonces and *)
(* requests, any number of handlers under way and any signature window.    *)
(***************************************************************************)
EXTENDS Registrations, TLAPS

Key(m) == <<m.owner, m.nonce>>

Messages == RegisterMessage \cup DeregisterMessage

\* A handler under way asks for its owner's own vault; a signed one carries a
\* request that was signed, dated at most a window ahead of its admission.
HandlersAdmitted ==
    \A s \in Slots : slots[s] # Idle =>
        /\ CanonicalPda(slots[s].msg)
        /\ slots[s].msg.op # "legacy" =>
               /\ slots[s].msg \in msgs
               /\ slots[s].msg.timestamp <= slots[s].at + Window

\* Nonces identify requests, and only nonces of requests are spent.
NoncesUnique == \A m1, m2 \in msgs : Key(m1) = Key(m2) => m1 = m2
SpentSigned == \A k \in spent : \E m \in msgs : Key(m) = k

\* A used nonce is at most a window older than the date of its request.
UsedInWindow ==
    \A n \in nonces :
        /\ <<n.owner, n.nonce>> \in spent
        /\ \A m \in msgs : Key(m) = <<n.owner, n.nonce>> =>
               m.timestamp <= n.used_at + Window

\* The request of a pruned nonce is dated more than a window before now.  It
\* is not enough that it is not fresh: a request dated too far ahead becomes so.
PrunedLongAgo ==
    ~stepped => \A m \in msgs : Key(m) \in spent \ Claimed => now - m.timestamp > Window

-------------------------------------------------------------------------------

\* The fields of a signed request.
LEMMA SignedParts ==
    ASSUME NEW m \in Messages
    PROVE  /\ m.owner \in Owners /\ m.vault \in Vaults /\ m.nonce \in Nonces
           /\ m.timestamp \in Nat
           /\ m.op = "register" => m \in RegisterMessage
           /\ m.op = "deregister" => m \in DeregisterMessage
           /\ m.op # "legacy"
BY DEF Messages, RegisterMessage, DeregisterMessage

\* The request of a handler is of the kind its op says.
LEMMA HandlerParts ==
    ASSUME NEW h \in Handler
    PROVE  /\ h.at \in Nat
           /\ h.msg.op = "legacy" => h.msg \in LegacyMessage
           /\ h.msg.op # "legacy" => h.msg \in Messages
           /\ h.msg.op = "register" => h.msg \in RegisterMessage
           /\ h.msg.op = "deregister" => h.msg \in DeregisterMessage
BY DEF Handler, Messages, RegisterMessage, DeregisterMessage, LegacyMessage

\* A signed registration writes a whole row.
LEMMA SignedRowTyped ==
    ASSUME NEW m \in RegisterMessage
    PROVE  SignedRow(m) \in Row /\ SignedRow(m) # NoRow
<1>1. m.owner \in Owners /\ m.token \in Tokens /\ m.revision \in Nat
  BY RegistrationAssumption DEF RegisterMessage
<1>2. SignedRow(m) \in Row
  BY <1>1 DEF SignedRow, Row
<1> QED
  BY <1>2, SentinelAssumption

\* A legacy registration writes a whole row, its defaults included.
LEMMA LegacyRowTyped ==
    ASSUME NEW m \in LegacyMessage
    PROVE  LegacyRow(m) \in Row /\ LegacyRow(m) # NoRow
<1>1. m.owner \in Owners /\ m.token \in Tokens
  BY DEF LegacyMessage
<1>2. LegacyRow(m) \in Row
  BY <1>1 DEF LegacyRow, Row
<1> QED
  BY <1>2, SentinelAssumption

\* A claim writes a whole nonce record.
LEMMA ClaimTyped ==
    ASSUME RegistrationTypeOK, NEW m \in Messages, NEW at \in Nat, Claim(m, at)
    PROVE  nonces' \subseteq UsedNonce /\ spent' \subseteq Owners \X Nonces
<1>1. m.owner \in Owners /\ m.nonce \in Nonces
  BY SignedParts
<1>2. [owner |-> m.owner, nonce |-> m.nonce, used_at |-> at] \in UsedNonce
  BY <1>1 DEF UsedNonce
<1>3. <<m.owner, m.nonce>> \in Owners \X Nonces
  BY <1>1
<1> QED
  BY <1>2, <1>3 DEF Claim, RegistrationTypeOK

\* A claim adds exactly the key of its request, unless it was there.
LEMMA ClaimAddsKey ==
    ASSUME NEW m, NEW at, Claim(m, at)
    PROVE  /\ Usable(m) => Claimed' = Claimed \cup {Key(m)} /\ spent' = spent \cup {Key(m)}
           /\ ~Usable(m) => Claimed' = Claimed /\ spent' = spent
<1>1. CASE Usable(m)
  <2> DEFINE new == [owner |-> m.owner, nonce |-> m.nonce, used_at |-> at]
  <2>1. nonces' = nonces \cup {new} /\ spent' = spent \cup {Key(m)}
    BY <1>1 DEF Claim, Key
  <2>2. <<new.owner, new.nonce>> = Key(m)
    BY DEF Key
  <2> HIDE DEF new
  <2>3. Claimed' = {<<n.owner, n.nonce>> : n \in nonces \cup {new}}
    BY <2>1 DEF Claimed
  <2>4. Claimed' = Claimed \cup {Key(m)}
    BY <2>2, <2>3, Zenon DEF Claimed
  <2> QED
    BY <1>1, <2>1, <2>4
<1>2. CASE ~Usable(m)
  BY <1>2 DEF Claim, Claimed
<1> QED
  BY <1>1, <1>2

-------------------------------------------------------------------------------

\* Signing keeps the types.
LEMMA TypeSign ==
    ASSUME RegistrationTypeOK, NEW m \in Messages, Sign(m)
    PROVE  RegistrationTypeOK'
BY DEF RegistrationTypeOK, Sign, store, process, Messages

\* Starting a request keeps the types.
LEMMA TypeSuspend ==
    ASSUME RegistrationTypeOK, NEW s \in Slots, NEW at \in Nat,
           NEW m \in Messages \cup LegacyMessage, Suspend(s, m, at)
    PROVE  RegistrationTypeOK'
<1>1. [msg |-> m, at |-> at] \in Handler
  BY DEF Handler, Messages
<1> QED
  BY <1>1 DEF RegistrationTypeOK, Suspend, store, world

\* The transaction of applySignedRegistration keeps the types.
LEMMA TypeRegistration ==
    ASSUME RegistrationTypeOK, NEW m \in RegisterMessage, NEW at \in Nat,
           SignedRegistration(m, at), UNCHANGED <<mode, latched, world>>,
           slots' \in [Slots -> Handler \cup {Idle}]
    PROVE  RegistrationTypeOK'
<1>1. nonces' \subseteq UsedNonce /\ spent' \subseteq Owners \X Nonces
  BY ClaimTyped DEF SignedRegistration, Messages
<1>2. m.vault \in Vaults /\ SignedRow(m) \in Row
  BY SignedRowTyped DEF RegisterMessage
<1>3. rows' \in [Vaults -> Row \cup {NoRow}]
  BY <1>2 DEF SignedRegistration, RegistrationTypeOK
<1> QED
  BY <1>1, <1>3 DEF RegistrationTypeOK, world

\* The transaction of applySignedDeregistration keeps the types.
LEMMA TypeDeregistration ==
    ASSUME RegistrationTypeOK, NEW m \in DeregisterMessage, NEW at \in Nat,
           SignedDeregistration(m, at), UNCHANGED <<mode, latched, world>>,
           slots' \in [Slots -> Handler \cup {Idle}]
    PROVE  RegistrationTypeOK'
<1>1. nonces' \subseteq UsedNonce /\ spent' \subseteq Owners \X Nonces
  BY ClaimTyped DEF SignedDeregistration, Messages
<1>2. rows' \in [Vaults -> Row \cup {NoRow}]
  BY DEF SignedDeregistration, RegistrationTypeOK
<1> QED
  BY <1>1, <1>2 DEF RegistrationTypeOK, world

\* Every step keeps the types.
LEMMA RegistrationTypeStep ==
    ASSUME RegistrationTypeOK, [Next]_vars
    PROVE  RegistrationTypeOK'
<1> USE DEF store, process, world
<1>1. ASSUME NEW s \in Slots, NEW m \in msgs, StartRegister(s, m) PROVE RegistrationTypeOK'
  BY <1>1, TypeSuspend DEF StartRegister, RegistrationTypeOK, Messages
<1>2. ASSUME NEW s \in Slots, NEW m \in msgs, StartDeregister(s, m) PROVE RegistrationTypeOK'
  BY <1>2, TypeSuspend DEF StartDeregister, RegistrationTypeOK, Messages
<1>3. ASSUME NEW s \in Slots, NEW body \in LegacyInputs, StartLegacyRegister(s, body)
      PROVE  RegistrationTypeOK'
  <2> DEFINE m == [op |-> "legacy", owner |-> body.owner, vault |-> body.vault,
                   token |-> body.token]
  <2>1. body.owner \in Owners /\ body.vault \in Vaults /\ body.token \in Tokens
    BY RegistrationAssumption
  <2>2. m \in LegacyMessage
    BY <2>1 DEF LegacyMessage
  <2>3. Suspend(s, m, 0)
    BY <1>3 DEF StartLegacyRegister
  <2> HIDE DEF m
  <2> QED
    BY <2>2, <2>3, TypeSuspend
<1>4. ASSUME NEW s \in Slots, Refuse(s) PROVE RegistrationTypeOK'
  BY <1>4 DEF Refuse, RegistrationTypeOK
<1>5. ASSUME NEW s \in Slots, NEW op, Resume(s, op)
      PROVE  /\ slots' \in [Slots -> Handler \cup {Idle}]
             /\ slots[s] \in Handler /\ slots[s].msg.op = op
             /\ UNCHANGED <<mode, latched, world>>
  BY <1>5 DEF Resume, RegistrationTypeOK
<1>6. ASSUME NEW s \in Slots, ApplySignedRegistration(s) PROVE RegistrationTypeOK'
  <2>1. slots[s].msg \in RegisterMessage /\ slots[s].at \in Nat
    BY <1>5, <1>6, HandlerParts DEF ApplySignedRegistration
  <2> QED
    BY <1>5, <1>6, <2>1, TypeRegistration DEF ApplySignedRegistration
<1>7. ASSUME NEW s \in Slots, ApplySignedDeregistration(s) PROVE RegistrationTypeOK'
  <2>1. slots[s].msg \in DeregisterMessage /\ slots[s].at \in Nat
    BY <1>5, <1>7, HandlerParts DEF ApplySignedDeregistration
  <2> QED
    BY <1>5, <1>7, <2>1, TypeDeregistration DEF ApplySignedDeregistration
<1>8. ASSUME NEW s \in Slots, ApplyLegacyRegistration(s) PROVE RegistrationTypeOK'
  <2>1. slots[s].msg \in LegacyMessage
    BY <1>5, <1>8, HandlerParts DEF ApplyLegacyRegistration
  <2>2. LegacyRow(slots[s].msg) \in Row
    BY <2>1, LegacyRowTyped
  <2>3. rows' \in [Vaults -> Row \cup {NoRow}]
    BY <1>8, <2>2 DEF ApplyLegacyRegistration, RegistrationTypeOK
  <2> QED
    BY <1>5, <1>8, <2>3 DEF ApplyLegacyRegistration, RegistrationTypeOK
<1>9. ASSUME NEW m \in msgs, DeregisterOwnRow(m) PROVE RegistrationTypeOK'
  <2>1. m \in DeregisterMessage /\ now \in Nat
    BY <1>9, SignedParts DEF DeregisterOwnRow, RegistrationTypeOK, Messages
  <2>2. slots' \in [Slots -> Handler \cup {Idle}]
    BY <1>9 DEF DeregisterOwnRow, RegistrationTypeOK
  <2> QED
    BY <1>9, <2>1, <2>2, TypeDeregistration DEF DeregisterOwnRow
<1>10. ASSUME NEW v \in Vaults, DeleteLegacyRegistration(v) PROVE RegistrationTypeOK'
  BY <1>10 DEF DeleteLegacyRegistration, RegistrationTypeOK
<1>11. ASSUME NEW o \in Owners, DeleteLegacyRegistrationsByOwner(o) PROVE RegistrationTypeOK'
  BY <1>11 DEF DeleteLegacyRegistrationsByOwner, RegistrationTypeOK
<1>12. ASSUME PruneNonces \/ ObserveExpiry \/ Restart PROVE RegistrationTypeOK'
  BY <1>12 DEF PruneNonces, ObserveExpiry, Restart, WindowOver, RegistrationTypeOK
<1>13. ASSUME Tick \/ StepBack PROVE RegistrationTypeOK'
  <2>1. now \in Nat
    BY DEF RegistrationTypeOK
  <2>2. now' \in Nat /\ UNCHANGED <<msgs, store, process>>
    BY <1>13, <2>1 DEF Tick, StepBack
  <2>3. stepped' \in BOOLEAN
    BY <1>13 DEF Tick, StepBack, RegistrationTypeOK
  <2> QED
    BY <2>2, <2>3 DEF RegistrationTypeOK
<1>14. ASSUME NEW body \in RegisterInputs, NEW n \in Nonces, NEW skew \in Skews,
              SignRegister(body, now + skew, n)
       PROVE  RegistrationTypeOK'
  <2> DEFINE m == [op |-> "register", owner |-> body.owner, vault |-> body.vault,
                   token |-> body.token, revision |-> body.revision,
                   timestamp |-> now + skew, nonce |-> n]
  <2>1. /\ body.owner \in Owners /\ body.vault \in Vaults /\ body.token \in Tokens
        /\ body.revision \in Revisions /\ now + skew \in Int
    BY RegistrationAssumption DEF RegistrationTypeOK
  <2>2. Sign(m) /\ now + skew \in Nat
    BY <1>14, <2>1 DEF SignRegister, Sign
  <2>3. m \in Messages
    BY <2>1, <2>2 DEF Messages, RegisterMessage
  <2> HIDE DEF m
  <2> QED
    BY <2>2, <2>3, TypeSign
<1>15. ASSUME NEW body \in DeregisterInputs, NEW n \in Nonces, NEW skew \in Skews,
              SignDeregister(body, now + skew, n)
       PROVE  RegistrationTypeOK'
  <2> DEFINE m == [op |-> "deregister", owner |-> body.owner, vault |-> body.vault,
                   timestamp |-> now + skew, nonce |-> n]
  <2>1. body.owner \in Owners /\ body.vault \in Vaults /\ now + skew \in Int
    BY RegistrationAssumption DEF RegistrationTypeOK
  <2>2. Sign(m) /\ now + skew \in Nat
    BY <1>15, <2>1 DEF SignDeregister, Sign
  <2>3. m \in Messages
    BY <2>1, <2>2 DEF Messages, DeregisterMessage
  <2> HIDE DEF m
  <2> QED
    BY <2>2, <2>3, TypeSign
<1>16. ASSUME UNCHANGED vars PROVE RegistrationTypeOK'
  BY <1>16 DEF vars, RegistrationTypeOK
<1> QED
  BY <1>1, <1>2, <1>3, <1>4, <1>6, <1>7, <1>8, <1>9, <1>10, <1>11, <1>12, <1>13,
     <1>14, <1>15, <1>16 DEF Next, ServerNext, WorldNext, RequestNext

-------------------------------------------------------------------------------

\* The inductive invariant.
AdmissionInv ==
    /\ RegistrationTypeOK
    /\ HandlersAdmitted
    /\ RowsOwnedByPda
    /\ NoncesUnique
    /\ SpentSigned
    /\ UsedInWindow
    /\ PrunedLongAgo

\* The part of the invariant that is about nonces.
NonceInv == NoncesUnique /\ SpentSigned /\ UsedInWindow /\ PrunedLongAgo

\* A step that leaves clock, nonces and requests alone keeps NonceInv.
LEMMA NonceQuiet ==
    ASSUME NonceInv, UNCHANGED <<now, msgs, stepped, nonces, spent>>
    PROVE  NonceInv'
BY DEF NonceInv, NoncesUnique, SpentSigned, UsedInWindow, PrunedLongAgo, Key,
   Claimed

\* A claim records its nonce with the clock of its admission.
LEMMA NonceClaim ==
    ASSUME RegistrationTypeOK, NonceInv, UNCHANGED <<now, msgs, stepped>>,
           NEW m \in msgs, NEW at \in Nat, m.timestamp <= at + Window, Claim(m, at)
    PROVE  NonceInv'
<1>1. CASE ~Usable(m)
  BY <1>1, NonceQuiet DEF Claim
<1>2. CASE Usable(m)
  <2> DEFINE new == [owner |-> m.owner, nonce |-> m.nonce, used_at |-> at]
  <2>1. nonces' = nonces \cup {new} /\ spent' = spent \cup {Key(m)}
    BY <1>2 DEF Claim, Key
  <2>2. <<new.owner, new.nonce>> = Key(m) /\ new.used_at = at
    BY DEF Key
  <2> HIDE DEF new
  <2>3. NoncesUnique' /\ SpentSigned'
    BY <2>1 DEF NonceInv, NoncesUnique, SpentSigned, Key
  <2>4. ASSUME NEW other \in msgs, Key(other) = Key(m)
        PROVE  other.timestamp <= at + Window
    BY <2>4 DEF NonceInv, NoncesUnique
  <2>5. UsedInWindow'
    <3> SUFFICES ASSUME NEW n \in nonces'
                 PROVE  /\ <<n.owner, n.nonce>> \in spent'
                        /\ \A other \in msgs : Key(other) = <<n.owner, n.nonce>> =>
                               other.timestamp <= n.used_at + Window
      BY DEF UsedInWindow, Key
    <3>1. CASE n \in nonces
      BY <2>1, <3>1 DEF NonceInv, UsedInWindow
    <3>2. CASE n = new
      BY <2>1, <2>2, <2>4, <3>2
    <3> QED
      BY <2>1, <3>1, <3>2
  <2>6. spent' \ Claimed' \subseteq spent \ Claimed
    BY <1>2, ClaimAddsKey
  <2>7. PrunedLongAgo'
    BY <2>6 DEF NonceInv, PrunedLongAgo, Key
  <2> QED
    BY <2>3, <2>5, <2>7 DEF NonceInv
<1> QED
  BY <1>1, <1>2

\* A pruned nonce belongs to a request that is stale by then.
LEMMA NoncePrune ==
    ASSUME RegistrationTypeOK, NonceInv, PruneNonces
    PROVE  NonceInv'
<1>1. /\ nonces' = {n \in nonces : n.used_at >= now - PruneAge}
      /\ UNCHANGED <<now, msgs, stepped, spent>>
  BY DEF PruneNonces, PruneHorizon, process, world
<1>2. NoncesUnique' /\ SpentSigned' /\ UsedInWindow'
  BY <1>1 DEF NonceInv, NoncesUnique, SpentSigned, UsedInWindow, Key
<1>3. ASSUME NEW m \in msgs, Key(m) \in spent, Key(m) \notin Claimed', Key(m) \in Claimed
      PROVE  now - m.timestamp > Window
  <2>1. PICK n \in nonces : Key(m) = <<n.owner, n.nonce>>
    BY <1>3 DEF Claimed
  <2>2. n \notin nonces'
    BY <1>3, <2>1 DEF Claimed
  <2>3. ~(n.used_at >= now - PruneAge)
    BY <1>1, <2>2
  <2>4. m.timestamp <= n.used_at + Window
    BY <2>1 DEF NonceInv, UsedInWindow
  <2>5. m.timestamp \in Nat /\ n.used_at \in Nat /\ now \in Nat
    BY SignedParts DEF RegistrationTypeOK, Messages, UsedNonce
  <2>6. Window \in Nat /\ PruneAge \in Nat /\ PruneAge >= 2 * Window
    BY RegistrationAssumption, PruneAgeAssumption
  <2> QED
    BY <2>3, <2>4, <2>5, <2>6
<1>4. PrunedLongAgo'
  <2> SUFFICES ASSUME ~stepped, NEW m \in msgs, Key(m) \in spent, Key(m) \notin Claimed'
               PROVE  now - m.timestamp > Window
    BY <1>1 DEF PrunedLongAgo, Key
  <2>1. CASE Key(m) \in Claimed
    BY <1>3, <2>1
  <2>2. CASE Key(m) \notin Claimed
    BY <2>2 DEF NonceInv, PrunedLongAgo, Key
  <2> QED
    BY <2>1, <2>2
<1> QED
  BY <1>2, <1>4 DEF NonceInv

\* What is long ago stays long ago while the clock goes forward.
LEMMA NonceClock ==
    ASSUME RegistrationTypeOK, NonceInv, Tick \/ StepBack
    PROVE  NonceInv'
<1>1. UNCHANGED <<msgs, nonces, spent>>
  BY DEF Tick, StepBack, store
<1>2. NoncesUnique' /\ SpentSigned' /\ UsedInWindow' /\ Claimed' = Claimed
  BY <1>1 DEF NonceInv, NoncesUnique, SpentSigned, UsedInWindow, Key, Claimed
<1>3. ASSUME ~stepped', NEW m \in msgs, Key(m) \in spent \ Claimed
      PROVE  now' - m.timestamp > Window
  <2>1. ~stepped /\ now' = now + 1
    BY <1>3 DEF Tick, StepBack
  <2>2. now - m.timestamp > Window
    BY <1>3, <2>1 DEF NonceInv, PrunedLongAgo, Key
  <2>3. m.timestamp \in Nat /\ now \in Nat /\ Window \in Nat
    BY SignedParts, RegistrationAssumption DEF RegistrationTypeOK, Messages
  <2> QED
    BY <2>1, <2>2, <2>3
<1>4. PrunedLongAgo'
  BY <1>1, <1>2, <1>3 DEF PrunedLongAgo, Key
<1> QED
  BY <1>2, <1>4 DEF NonceInv

\* A nonce that is drawn has never been drawn before.
LEMMA NonceSign ==
    ASSUME RegistrationTypeOK, NonceInv, NEW m \in Messages, Sign(m)
    PROVE  NonceInv'
<1>1. /\ msgs' = msgs \cup {m} /\ UNCHANGED <<now, stepped, nonces, spent>>
      /\ \A other \in msgs : Key(other) # Key(m)
  BY DEF Sign, store, Key
<1>2. Key(m) \notin spent
  BY <1>1 DEF NonceInv, SpentSigned
<1>3. NoncesUnique'
  BY <1>1 DEF NonceInv, NoncesUnique, Key
<1>4. SpentSigned'
  BY <1>1 DEF NonceInv, SpentSigned, Key
<1>5. UsedInWindow'
  BY <1>1, <1>2 DEF NonceInv, UsedInWindow, Key
<1>6. PrunedLongAgo'
  BY <1>1, <1>2 DEF NonceInv, PrunedLongAgo, Key, Claimed
<1> QED
  BY <1>3, <1>4, <1>5, <1>6 DEF NonceInv

\* Every step keeps NonceInv.
LEMMA NonceStep ==
    ASSUME RegistrationTypeOK, HandlersAdmitted, NonceInv, [Next]_vars
    PROVE  NonceInv'
<1> USE DEF store, process, world
<1>1. ASSUME NEW s \in Slots, ApplySignedRegistration(s) PROVE NonceInv'
  <2>1. /\ slots[s] # Idle /\ slots[s] \in Handler /\ slots[s].msg.op = "register"
        /\ UNCHANGED <<now, msgs, stepped>> /\ Claim(slots[s].msg, slots[s].at)
    BY <1>1 DEF ApplySignedRegistration, Resume, SignedRegistration, RegistrationTypeOK
  <2>2. slots[s].msg \in msgs /\ slots[s].msg.timestamp <= slots[s].at + Window
    BY <2>1 DEF HandlersAdmitted
  <2>3. slots[s].at \in Nat
    BY <2>1, HandlerParts
  <2> QED
    BY <2>1, <2>2, <2>3, NonceClaim
<1>2. ASSUME NEW s \in Slots, ApplySignedDeregistration(s) PROVE NonceInv'
  <2>1. /\ slots[s] # Idle /\ slots[s] \in Handler /\ slots[s].msg.op = "deregister"
        /\ UNCHANGED <<now, msgs, stepped>> /\ Claim(slots[s].msg, slots[s].at)
    BY <1>2 DEF ApplySignedDeregistration, Resume, SignedDeregistration, RegistrationTypeOK
  <2>2. slots[s].msg \in msgs /\ slots[s].msg.timestamp <= slots[s].at + Window
    BY <2>1 DEF HandlersAdmitted
  <2>3. slots[s].at \in Nat
    BY <2>1, HandlerParts
  <2> QED
    BY <2>1, <2>2, <2>3, NonceClaim
<1>3. ASSUME NEW m \in msgs, DeregisterOwnRow(m) PROVE NonceInv'
  <2>1. UNCHANGED <<now, msgs, stepped>> /\ Claim(m, now) /\ Fresh(m)
    BY <1>3 DEF DeregisterOwnRow, SignedDeregistration
  <2>2. m.timestamp \in Nat /\ now \in Nat /\ Window \in Nat
    BY SignedParts, RegistrationAssumption DEF RegistrationTypeOK, Messages
  <2>3. m.timestamp <= now + Window
    BY <2>1, <2>2 DEF Fresh
  <2> QED
    BY <2>1, <2>2, <2>3, NonceClaim
<1>4. ASSUME \/ \E s \in Slots :
                   \/ \E m \in msgs : StartRegister(s, m) \/ StartDeregister(s, m)
                   \/ \E body \in LegacyInputs : StartLegacyRegister(s, body)
                   \/ Refuse(s) \/ ApplyLegacyRegistration(s)
             \/ \E v \in Vaults : DeleteLegacyRegistration(v)
             \/ \E o \in Owners : DeleteLegacyRegistrationsByOwner(o)
             \/ ObserveExpiry \/ Restart \/ UNCHANGED vars
      PROVE  NonceInv'
  <2>1. UNCHANGED <<now, msgs, stepped, nonces, spent>>
    BY <1>4 DEF StartRegister, StartDeregister, StartLegacyRegister, Suspend, Refuse,
       ApplyLegacyRegistration, Resume, DeleteLegacyRegistration,
       DeleteLegacyRegistrationsByOwner, ObserveExpiry, Restart, vars
  <2> QED
    BY <2>1, NonceQuiet
<1>5. ASSUME PruneNonces PROVE NonceInv'
  BY <1>5, NoncePrune
<1>6. ASSUME Tick \/ StepBack PROVE NonceInv'
  BY <1>6, NonceClock
<1>7. ASSUME NEW m \in msgs', Sign(m) PROVE NonceInv'
  <2>1. m \in Messages
    BY <1>7, RegistrationTypeStep DEF RegistrationTypeOK, Messages
  <2> QED
    BY <1>7, <2>1, NonceSign
<1>8. ASSUME NEW m, Sign(m) PROVE m \in msgs'
  BY <1>8 DEF Sign
<1>9. ASSUME NEW body, NEW t, NEW n, SignRegister(body, t, n) \/ SignDeregister(body, t, n)
      PROVE  NonceInv'
  BY <1>7, <1>8, <1>9 DEF SignRegister, SignDeregister
<1> QED
  BY <1>1, <1>2, <1>3, <1>4, <1>5, <1>6, <1>9
  DEF Next, ServerNext, WorldNext, RequestNext

-------------------------------------------------------------------------------

\* Handlers end, or begin with a request that has passed its checks.
LEMMA HandlersSuspend ==
    ASSUME RegistrationTypeOK, HandlersAdmitted, NEW s \in Slots, NEW m, NEW at,
           Suspend(s, m, at), CanonicalPda(m),
           m.op # "legacy" => m \in msgs /\ m.timestamp <= at + Window
    PROVE  HandlersAdmitted'
<1>1. /\ slots' = [slots EXCEPT ![s] = [msg |-> m, at |-> at]] /\ UNCHANGED msgs
  BY DEF Suspend, world
<1>2. slots'[s].msg = m /\ slots'[s].at = at /\ \A r \in Slots : r # s => slots'[r] = slots[r]
  BY <1>1 DEF RegistrationTypeOK
<1> QED
  BY <1>1, <1>2 DEF HandlersAdmitted, CanonicalPda

\* A step in which handlers at most end keeps HandlersAdmitted.
LEMMA HandlersEnd ==
    ASSUME HandlersAdmitted, msgs \subseteq msgs',
           \A s \in Slots : slots'[s] = slots[s] \/ slots'[s] = Idle
    PROVE  HandlersAdmitted'
BY DEF HandlersAdmitted, CanonicalPda

\* Every step keeps HandlersAdmitted.
LEMMA HandlersStep ==
    ASSUME RegistrationTypeOK, HandlersAdmitted, [Next]_vars
    PROVE  HandlersAdmitted'
<1> USE DEF store, process, world
<1>1. ASSUME NEW m \in msgs, Fresh(m)
      PROVE  m.timestamp <= now + Window /\ m \in msgs
  <2>1. m.timestamp \in Nat /\ now \in Nat /\ Window \in Nat
    BY SignedParts, RegistrationAssumption DEF RegistrationTypeOK, Messages
  <2> QED
    BY <1>1, <2>1 DEF Fresh
<1>2. ASSUME NEW s \in Slots, NEW m \in msgs, StartRegister(s, m) \/ StartDeregister(s, m)
      PROVE  HandlersAdmitted'
  BY <1>1, <1>2, HandlersSuspend DEF StartRegister, StartDeregister
<1>3. ASSUME NEW s \in Slots, NEW body \in LegacyInputs, StartLegacyRegister(s, body)
      PROVE  HandlersAdmitted'
  <2> DEFINE m == [op |-> "legacy", owner |-> body.owner, vault |-> body.vault,
                   token |-> body.token]
  <2>1. Suspend(s, m, 0) /\ CanonicalPda(m) /\ m.op = "legacy"
    BY <1>3 DEF StartLegacyRegister, CanonicalPda
  <2> HIDE DEF m
  <2> QED
    BY <2>1, HandlersSuspend
<1>4. ASSUME NEW s \in Slots,
             \/ Refuse(s) \/ ApplySignedRegistration(s)
             \/ ApplySignedDeregistration(s) \/ ApplyLegacyRegistration(s)
      PROVE  HandlersAdmitted'
  <2>1. slots' = [slots EXCEPT ![s] = Idle] /\ UNCHANGED msgs
    BY <1>4 DEF Refuse, ApplySignedRegistration, ApplySignedDeregistration,
       ApplyLegacyRegistration, Resume
  <2>2. \A r \in Slots : slots'[r] = slots[r] \/ slots'[r] = Idle
    BY <2>1 DEF RegistrationTypeOK
  <2> QED
    BY <2>1, <2>2, HandlersEnd
<1>5. ASSUME Restart PROVE HandlersAdmitted'
  BY <1>5 DEF Restart, HandlersAdmitted
<1>6. ASSUME \/ \E m \in msgs : DeregisterOwnRow(m)
             \/ \E v \in Vaults : DeleteLegacyRegistration(v)
             \/ \E o \in Owners : DeleteLegacyRegistrationsByOwner(o)
             \/ PruneNonces \/ ObserveExpiry \/ Tick \/ StepBack \/ UNCHANGED vars
      PROVE  HandlersAdmitted'
  <2>1. UNCHANGED <<slots, msgs>>
    BY <1>6 DEF DeregisterOwnRow, DeleteLegacyRegistration, Tick, StepBack, vars,
       DeleteLegacyRegistrationsByOwner, PruneNonces, ObserveExpiry
  <2> QED
    BY <2>1, HandlersEnd
<1>7. ASSUME NEW m, Sign(m) PROVE HandlersAdmitted'
  BY <1>7, HandlersEnd DEF Sign
<1>8. ASSUME NEW body, NEW t, NEW n, SignRegister(body, t, n) \/ SignDeregister(body, t, n)
      PROVE  HandlersAdmitted'
  BY <1>7, <1>8 DEF SignRegister, SignDeregister
<1> QED
  BY <1>2, <1>3, <1>4, <1>5, <1>6, <1>8 DEF Next, ServerNext, WorldNext, RequestNext

-------------------------------------------------------------------------------

\* The three ways a row can change.
BySignedRegistration(v) ==
    \E m \in RegisterMessage :
        /\ m.vault = v /\ CanonicalPda(m)
        /\ m \in msgs /\ Key(m) \in Claimed' \ Claimed
        /\ rows[v] # NoRow => rows[v].owner = m.owner /\ Newer(m, rows[v])
        /\ rows'[v] = SignedRow(m)

BySignedDeregistration(v) ==
    \E m \in DeregisterMessage :
        /\ m.vault = v
        /\ Key(m) \in Claimed' \ Claimed
        /\ rows[v] # NoRow /\ rows[v].owner = m.owner
        /\ rows'[v] = NoRow

ByLegacyRequest(v) ==
    /\ ~IsSignedRow(rows[v])
    /\ \/ rows'[v] = NoRow
       \/ \E m \in LegacyMessage :
              m.vault = v /\ CanonicalPda(m) /\ rows'[v] = LegacyRow(m)

\* Every change of a row is of one of the three kinds.
LEMMA RowChanges ==
    ASSUME RegistrationTypeOK, HandlersAdmitted, [Next]_vars,
           NEW v \in Vaults, rows'[v] # rows[v]
    PROVE  BySignedRegistration(v) \/ BySignedDeregistration(v) \/ ByLegacyRequest(v)
<1> USE DEF store, process, world
<1>0. rows \in [Vaults -> Row \cup {NoRow}]
  BY DEF RegistrationTypeOK
<1>1. ASSUME NEW s \in Slots, NEW op, Resume(s, op)
      PROVE  slots[s] # Idle /\ slots[s] \in Handler /\ slots[s].msg.op = op
             /\ CanonicalPda(slots[s].msg)
  BY <1>1 DEF Resume, RegistrationTypeOK, HandlersAdmitted
<1>2. ASSUME NEW m \in DeregisterMessage, NEW at, SignedDeregistration(m, at)
      PROVE  BySignedDeregistration(v)
  <2>1. Claim(m, at) /\ Usable(m) /\ rows[m.vault] # NoRow /\ rows[m.vault].owner = m.owner
        /\ rows' = [rows EXCEPT ![m.vault] = NoRow]
    BY <1>2 DEF SignedDeregistration
  <2>2. m.vault = v /\ rows'[v] = NoRow
    BY <1>0, <2>1
  <2>3. Key(m) \in Claimed' \ Claimed
    BY <2>1, ClaimAddsKey DEF Usable, Key
  <2> QED
    BY <2>1, <2>2, <2>3 DEF BySignedDeregistration
<1>3. ASSUME NEW s \in Slots, ApplySignedRegistration(s) PROVE BySignedRegistration(v)
  <2> DEFINE m == slots[s].msg
  <2>1. m \in RegisterMessage /\ CanonicalPda(m) /\ m \in msgs
    BY <1>1, <1>3, HandlerParts DEF ApplySignedRegistration, HandlersAdmitted
  <2>2. SignedRegistration(m, slots[s].at)
    BY <1>3 DEF ApplySignedRegistration
  <2> HIDE DEF m
  <2>3. /\ Claim(m, slots[s].at) /\ Usable(m)
        /\ rows[m.vault] # NoRow => rows[m.vault].owner = m.owner /\ Newer(m, rows[m.vault])
        /\ rows' = [rows EXCEPT ![m.vault] = SignedRow(m)]
    BY <2>2 DEF SignedRegistration
  <2>4. m.vault = v /\ rows'[v] = SignedRow(m)
    BY <1>0, <2>3
  <2>5. Key(m) \in Claimed' \ Claimed
    BY <2>3, ClaimAddsKey DEF Usable, Key
  <2> QED
    BY <2>1, <2>3, <2>4, <2>5 DEF BySignedRegistration
<1>4. ASSUME NEW s \in Slots, ApplySignedDeregistration(s) PROVE BySignedDeregistration(v)
  <2>1. slots[s].msg \in DeregisterMessage
    BY <1>1, <1>4, HandlerParts DEF ApplySignedDeregistration
  <2> QED
    BY <1>2, <1>4, <2>1 DEF ApplySignedDeregistration
<1>5. ASSUME NEW m \in msgs, DeregisterOwnRow(m) PROVE BySignedDeregistration(v)
  <2>1. m \in DeregisterMessage
    BY <1>5, SignedParts DEF DeregisterOwnRow, RegistrationTypeOK, Messages
  <2> QED
    BY <1>2, <1>5, <2>1 DEF DeregisterOwnRow
<1>6. ASSUME NEW s \in Slots, ApplyLegacyRegistration(s) PROVE ByLegacyRequest(v)
  <2> DEFINE m == slots[s].msg
  <2>1. m \in LegacyMessage /\ CanonicalPda(m)
    BY <1>1, <1>6, HandlerParts DEF ApplyLegacyRegistration
  <2>2. ~IsSignedRow(rows[m.vault]) /\ rows' = [rows EXCEPT ![m.vault] = LegacyRow(m)]
    BY <1>6 DEF ApplyLegacyRegistration
  <2> HIDE DEF m
  <2>3. m.vault = v /\ rows'[v] = LegacyRow(m)
    BY <1>0, <2>2
  <2> QED
    BY <2>1, <2>2, <2>3 DEF ByLegacyRequest
<1>7. ASSUME NEW w \in Vaults, DeleteLegacyRegistration(w) PROVE ByLegacyRequest(v)
  BY <1>0, <1>7 DEF DeleteLegacyRegistration, ByLegacyRequest
<1>8. ASSUME NEW o \in Owners, DeleteLegacyRegistrationsByOwner(o) PROVE ByLegacyRequest(v)
  BY <1>0, <1>8 DEF DeleteLegacyRegistrationsByOwner, ByLegacyRequest
<1>9. ASSUME \/ \E s \in Slots :
                   \/ \E m \in msgs : StartRegister(s, m) \/ StartDeregister(s, m)
                   \/ \E body \in LegacyInputs : StartLegacyRegister(s, body)
                   \/ Refuse(s)
             \/ PruneNonces \/ ObserveExpiry \/ Restart \/ Tick \/ StepBack
             \/ \E body, t, n : SignRegister(body, t, n) \/ SignDeregister(body, t, n)
             \/ UNCHANGED vars
      PROVE  rows' = rows
  BY <1>9 DEF StartRegister, StartDeregister, StartLegacyRegister, Suspend, Refuse,
     PruneNonces, ObserveExpiry, Restart, Tick, StepBack, SignRegister, SignDeregister,
     Sign, vars
<1> QED
  BY <1>3, <1>4, <1>5, <1>6, <1>7, <1>8, <1>9
  DEF Next, ServerNext, WorldNext, RequestNext

\* Every step keeps RowsOwnedByPda.
LEMMA RowsStep ==
    ASSUME RegistrationTypeOK, HandlersAdmitted, RowsOwnedByPda, [Next]_vars
    PROVE  RowsOwnedByPda'
<1> SUFFICES ASSUME NEW v \in Vaults, rows'[v] # NoRow, rows'[v] # rows[v]
             PROVE  rows'[v].owner = VaultOwner[v]
  BY DEF RowsOwnedByPda
<1>1. CASE BySignedRegistration(v)
  BY <1>1 DEF BySignedRegistration, SignedRow, CanonicalPda
<1>2. CASE ByLegacyRequest(v)
  <2>1. PICK m \in LegacyMessage :
            m.vault = v /\ CanonicalPda(m) /\ rows'[v] = LegacyRow(m)
    BY <1>2 DEF ByLegacyRequest
  <2>2. LegacyRow(m).owner = m.owner
    BY DEF LegacyRow
  <2> QED
    BY <2>1, <2>2 DEF CanonicalPda
<1> QED
  BY <1>1, <1>2, RowChanges DEF BySignedDeregistration

-------------------------------------------------------------------------------

\* The invariant holds when the server first boots.
LEMMA AdmissionInit == Init => AdmissionInv
<1> SUFFICES ASSUME Init PROVE AdmissionInv
  OBVIOUS
<1>1. RegistrationTypeOK
  BY DEF Init, RegistrationTypeOK, WindowOver
<1>2. HandlersAdmitted /\ RowsOwnedByPda
  BY DEF Init, HandlersAdmitted, RowsOwnedByPda
<1>3. NoncesUnique /\ SpentSigned /\ UsedInWindow /\ PrunedLongAgo
  BY DEF Init, NoncesUnique, SpentSigned, UsedInWindow, PrunedLongAgo
<1> QED
  BY <1>1, <1>2, <1>3 DEF AdmissionInv

\* The invariant is inductive.
LEMMA AdmissionStep == AdmissionInv /\ [Next]_vars => AdmissionInv'
<1> SUFFICES ASSUME AdmissionInv, [Next]_vars PROVE AdmissionInv'
  OBVIOUS
<1>1. RegistrationTypeOK' /\ HandlersAdmitted' /\ RowsOwnedByPda'
  BY RegistrationTypeStep, HandlersStep, RowsStep DEF AdmissionInv
<1>2. NonceInv'
  BY NonceStep DEF AdmissionInv, NonceInv
<1> QED
  BY <1>1, <1>2 DEF AdmissionInv, NonceInv

\* The invariant on which the theorems below rest: what admission checked
\* of a request (PDA, signature, date) still holds when it is applied.
THEOREM AdmissionInvariant == Spec => []AdmissionInv
BY AdmissionInit, AdmissionStep, PTL DEF Spec

\* The tables, the handlers and the messages keep their types.
THEOREM RegistrationTypeCorrect == Spec => []RegistrationTypeOK
<1>1. AdmissionInv => RegistrationTypeOK
  BY DEF AdmissionInv
<1> QED
  BY <1>1, AdmissionInvariant, PTL

\* A row always belongs to the owner whose PDA its vault is, so that the
\* owner_conflict guard of the store never refuses the true owner.
THEOREM OwnersNeverShutOut == Spec => []RowsOwnedByPda
<1>1. AdmissionInv => RowsOwnedByPda
  BY DEF AdmissionInv
<1> QED
  BY <1>1, AdmissionInvariant, PTL

\* The prune timer drops no nonce whose request could still be admitted, for
\* any horizon of at least two signature windows.
THEOREM PruningIsSafe == Spec => []PrunedNonceIsStale
<1>1. AdmissionInv => PrunedNonceIsStale
  <2> SUFFICES ASSUME AdmissionInv, ~stepped, NEW m \in msgs, Key(m) \in spent \ Claimed
               PROVE  ~Fresh(m)
    BY DEF PrunedNonceIsStale, Key
  <2>1. now - m.timestamp > Window
    BY DEF AdmissionInv, PrunedLongAgo
  <2>2. m.timestamp \in Nat /\ now \in Nat /\ Window \in Nat
    BY SignedParts, RegistrationAssumption DEF AdmissionInv, RegistrationTypeOK, Messages
  <2> QED
    BY <2>1, <2>2 DEF Fresh
<1> QED
  BY <1>1, AdmissionInvariant, PTL

\* No legacy request, restart or change of mode touches a signed row: it
\* changes only in a transaction that spends a new nonce of its owner.
THEOREM StickyRows == Spec => SignedRowsSticky
<1>1. AdmissionInv /\ [Next]_vars =>
        [\A v \in Vaults :
           SignedRowOf(v) /\ rows'[v] # rows[v] =>
               \E k \in Claimed' \ Claimed : k[1] = rows[v].owner]_vars
  <2> SUFFICES ASSUME AdmissionInv, [Next]_vars, NEW v \in Vaults,
                      SignedRowOf(v), rows'[v] # rows[v]
               PROVE  \E k \in Claimed' \ Claimed : k[1] = rows[v].owner
    OBVIOUS
  <2>1. BySignedRegistration(v) \/ BySignedDeregistration(v)
    BY RowChanges DEF AdmissionInv, ByLegacyRequest, IsSignedRow, SignedRowOf
  <2>2. PICK m : Key(m) \in Claimed' \ Claimed /\ rows[v].owner = m.owner
    BY <2>1 DEF BySignedRegistration, BySignedDeregistration, SignedRowOf
  <2>3. Key(m)[1] = m.owner
    BY DEF Key
  <2> QED
    BY <2>2, <2>3
<1> QED
  BY <1>1, AdmissionInvariant, PTL DEF Spec, SignedRowsSticky

\* In whatever order signed requests arrive, the revision of a signed row that
\* stays only grows.
THEOREM RevisionsGrow == Spec => RevisionNeverBack
<1>1. AdmissionInv /\ [Next]_vars =>
        [\A v \in Vaults :
           SignedRowOf(v) /\ rows'[v] # NoRow /\ rows'[v] # rows[v] =>
               rows'[v].revision > rows[v].revision]_vars
  <2> SUFFICES ASSUME AdmissionInv, [Next]_vars, NEW v \in Vaults,
                      SignedRowOf(v), rows'[v] # NoRow, rows'[v] # rows[v]
               PROVE  rows'[v].revision > rows[v].revision
    OBVIOUS
  <2>1. BySignedRegistration(v)
    BY RowChanges DEF AdmissionInv, ByLegacyRequest, BySignedDeregistration,
       IsSignedRow, SignedRowOf
  <2> QED
    BY <2>1 DEF BySignedRegistration, SignedRowOf, SignedRow, Newer
<1> QED
  BY <1>1, AdmissionInvariant, PTL DEF Spec, RevisionNeverBack

-------------------------------------------------------------------------------

\* What was signed stays signed: a request is deliverable for ever.
LEMMA MessagesStay ==
    ASSUME [Next]_vars
    PROVE  msgs \subseteq msgs'
<1> USE DEF store, process, world
<1>1. CASE ServerNext
  BY <1>1 DEF ServerNext, RequestNext, StartRegister, StartDeregister, StartLegacyRegister,
     Suspend, Refuse, ApplySignedRegistration, ApplySignedDeregistration,
     ApplyLegacyRegistration, Resume, DeregisterOwnRow, DeleteLegacyRegistration,
     DeleteLegacyRegistrationsByOwner, PruneNonces, ObserveExpiry, Restart
<1>2. CASE WorldNext
  BY <1>2 DEF WorldNext, Tick, StepBack, SignRegister, SignDeregister, Sign
<1> QED
  BY <1>1, <1>2 DEF Next, vars

\* A signed row is one that its owner signed, token and revision together: no
\* interleaving mixes the fields of two requests, and none lets a legacy or a
\* replayed request pass for a signed one.
THEOREM RowsAuthentic == Spec => []SignedRowsAuthentic
<1>1. Init => SignedRowsAuthentic
  BY DEF Init, SignedRowsAuthentic, SignedRowOf
<1>2. AdmissionInv /\ SignedRowsAuthentic /\ [Next]_vars => SignedRowsAuthentic'
  <2> DEFINE Authentic(v, row) ==
        \E m \in msgs' : /\ m.op = "register" /\ m.vault = v /\ m.owner = row.owner
                         /\ m.token = row.token /\ m.revision = row.revision
  <2> SUFFICES ASSUME AdmissionInv, SignedRowsAuthentic, [Next]_vars,
                      NEW v \in Vaults, rows'[v] # NoRow, rows'[v].signed
               PROVE  Authentic(v, rows'[v])
    BY DEF SignedRowsAuthentic, SignedRowOf
  <2>1. msgs \subseteq msgs'
    BY MessagesStay
  <2>2. CASE rows'[v] = rows[v]
    BY <2>1, <2>2 DEF SignedRowsAuthentic, SignedRowOf
  <2>3. CASE BySignedRegistration(v)
    <3>1. PICK m \in RegisterMessage : m.vault = v /\ m \in msgs /\ rows'[v] = SignedRow(m)
      BY <2>3 DEF BySignedRegistration
    <3>2. m.op = "register"
      BY DEF RegisterMessage
    <3>3. /\ rows'[v].owner = m.owner /\ rows'[v].token = m.token
          /\ rows'[v].revision = m.revision
      BY <3>1 DEF SignedRow
    <3> QED
      BY <2>1, <3>1, <3>2, <3>3
  <2>4. CASE ByLegacyRequest(v)
    <3>1. PICK m \in LegacyMessage : rows'[v] = LegacyRow(m)
      BY <2>4 DEF ByLegacyRequest
    <3>2. LegacyRow(m).signed = FALSE
      BY DEF LegacyRow
    <3> QED
      BY <3>1, <3>2, Zenon
  <2> QED
    BY <2>2, <2>3, <2>4, RowChanges DEF AdmissionInv, BySignedDeregistration
<1> QED
  BY <1>1, <1>2, AdmissionInvariant, PTL DEF Spec

\* Only a process in transition has a latch to set.
LatchedInTransition == latched => mode = "dual"

\* The latch of the legacy window holds against the clock: once it is set no
\* legacy request is admitted, and a row that still changes does so by a
\* signed request or by a legacy one that was under way before.
THEOREM LegacyClosed == Spec => LegacyStaysClosed
<1> USE DEF store, process, world
<1> DEFINE Changed == [latched =>
         /\ \A s \in Slots :
                slots[s] = Idle /\ slots'[s] # Idle => slots'[s].msg.op # "legacy"
         /\ rows' # rows =>
                \/ Claimed' # Claimed
                \/ \E s \in Slots : /\ slots[s] # Idle /\ slots'[s] = Idle
                                    /\ slots[s].msg.op = "legacy"]_vars
<1>1. Init => LatchedInTransition
  BY DEF Init, LatchedInTransition, WindowOver
<1>2. LatchedInTransition /\ [Next]_vars => LatchedInTransition'
  <2> SUFFICES ASSUME LatchedInTransition, [Next]_vars PROVE LatchedInTransition'
    OBVIOUS
  <2>1. \/ UNCHANGED <<mode, latched>> \/ ObserveExpiry \/ Restart
    BY DEF Next, ServerNext, WorldNext, RequestNext, StartRegister, StartDeregister,
       StartLegacyRegister, Suspend, Refuse, ApplySignedRegistration,
       ApplySignedDeregistration, ApplyLegacyRegistration, Resume, DeregisterOwnRow,
       DeleteLegacyRegistration, DeleteLegacyRegistrationsByOwner, PruneNonces, Tick,
       StepBack, SignRegister, SignDeregister, Sign, vars
  <2> QED
    BY <2>1 DEF LatchedInTransition, ObserveExpiry, Restart, WindowOver
<1>3. AdmissionInv /\ LatchedInTransition /\ [Next]_vars => Changed
  <2> SUFFICES ASSUME AdmissionInv, LatchedInTransition, [Next]_vars, latched
               PROVE  Changed
    OBVIOUS
  <2>0. ~LegacyAccepting /\ mode # "legacy"
    BY DEF LegacyAccepting, LatchedInTransition
  <2>1. ASSUME NEW s \in Slots, slots[s] = Idle, slots'[s] # Idle
        PROVE  slots'[s].msg.op # "legacy"
    <3>1. slots \in [Slots -> Handler \cup {Idle}]
      BY DEF AdmissionInv, RegistrationTypeOK
    <3>2. ASSUME NEW t \in Slots, NEW m \in msgs, NEW at, Suspend(t, m, at), m.op # "legacy"
          PROVE  slots'[s].msg.op # "legacy"
      BY <2>1, <3>1, <3>2 DEF Suspend
    <3>3. CASE \E t \in Slots, m \in msgs : StartRegister(t, m) \/ StartDeregister(t, m)
      BY <3>2, <3>3 DEF StartRegister, StartDeregister
    <3>4. ASSUME NEW t \in Slots, slots' = [slots EXCEPT ![t] = Idle] PROVE FALSE
      BY <2>1, <3>1, <3>4
    <3>5. CASE \E t \in Slots : \/ Refuse(t) \/ ApplySignedRegistration(t)
                                \/ ApplySignedDeregistration(t) \/ ApplyLegacyRegistration(t)
      BY <3>4, <3>5 DEF Refuse, ApplySignedRegistration, ApplySignedDeregistration,
         ApplyLegacyRegistration, Resume
    <3>6. CASE \E t \in Slots, body \in LegacyInputs : StartLegacyRegister(t, body)
      BY <2>0, <3>6 DEF StartLegacyRegister
    <3>7. CASE UNCHANGED slots \/ Restart
      BY <2>1, <3>7 DEF Restart
    <3>8. ASSUME \/ \E m \in msgs : DeregisterOwnRow(m)
                 \/ \E v \in Vaults : DeleteLegacyRegistration(v)
                 \/ \E o \in Owners : DeleteLegacyRegistrationsByOwner(o)
                 \/ PruneNonces \/ ObserveExpiry \/ WorldNext \/ UNCHANGED vars
          PROVE  UNCHANGED slots
      BY <3>8 DEF DeregisterOwnRow, DeleteLegacyRegistration, DeleteLegacyRegistrationsByOwner,
         PruneNonces, ObserveExpiry, WorldNext, Tick, StepBack, SignRegister, SignDeregister,
         Sign, vars
    <3> QED
      BY <3>3, <3>5, <3>6, <3>7, <3>8 DEF Next, ServerNext, RequestNext
  <2>2. ASSUME rows' # rows
        PROVE  \/ Claimed' # Claimed
               \/ \E s \in Slots : /\ slots[s] # Idle /\ slots'[s] = Idle
                                   /\ slots[s].msg.op = "legacy"
    <3>1. CASE \E s \in Slots : ApplyLegacyRegistration(s)
      BY <3>1 DEF ApplyLegacyRegistration, Resume, AdmissionInv, RegistrationTypeOK
    <3>2. ASSUME NEW m, NEW at,
                 SignedRegistration(m, at) \/ SignedDeregistration(m, at)
          PROVE  Claimed' # Claimed
      <4>1. Claim(m, at) /\ Usable(m)
        BY <2>2, <3>2 DEF SignedRegistration, SignedDeregistration
      <4> QED
        BY <4>1, ClaimAddsKey DEF Usable, Key
    <3>3. CASE \/ \E s \in Slots : ApplySignedRegistration(s) \/ ApplySignedDeregistration(s)
               \/ \E m \in msgs : DeregisterOwnRow(m)
      BY <3>2, <3>3 DEF ApplySignedRegistration, ApplySignedDeregistration, DeregisterOwnRow
    <3>4. ASSUME \/ \E s \in Slots :
                       \/ \E m \in msgs : StartRegister(s, m) \/ StartDeregister(s, m)
                       \/ \E body \in LegacyInputs : StartLegacyRegister(s, body)
                       \/ Refuse(s)
                 \/ PruneNonces \/ ObserveExpiry \/ Restart \/ WorldNext \/ UNCHANGED vars
          PROVE  FALSE
      BY <2>2, <3>4 DEF StartRegister, StartDeregister, StartLegacyRegister, Suspend, Refuse,
         PruneNonces, ObserveExpiry, Restart, WorldNext, Tick, StepBack, SignRegister,
         SignDeregister, Sign, vars
    <3>5. CASE \/ \E v \in Vaults : DeleteLegacyRegistration(v)
               \/ \E o \in Owners : DeleteLegacyRegistrationsByOwner(o)
      BY <2>0, <3>5 DEF DeleteLegacyRegistration, DeleteLegacyRegistrationsByOwner
    <3> QED
      BY <3>1, <3>3, <3>4, <3>5 DEF Next, ServerNext, RequestNext
  <2> QED
    BY <2>1, <2>2
<1> QED
  BY <1>1, <1>2, <1>3, AdmissionInvariant, PTL DEF Spec, LegacyStaysClosed
===============================================================================
