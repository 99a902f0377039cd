------------------------------ MODULE OwnerProofs ------------------------------
(***************************************************************************)
(* Proofs about the owner's two consoles: the wallet signs nothing for     *)
(* another cluster, and a revocation closes the vault only once everything *)
(* listed has left it, but what its reverted batches were to take.         *)
(***************************************************************************)
EXTENDS OwnerApp, FiniteSetTheorems, TLAPS

------------------------------------------------------------------------------
(* Batches of withdrawals.                                                 *)

\* SetToSeq lists every element of a finite set.
LEMMA ListedOnce ==
  ASSUME NEW S, IsFiniteSet(S)
  PROVE  /\ Cardinality(S) \in Nat
         /\ SetToSeq(S) \in [1..Cardinality(S) -> S]
         /\ \A x \in S : \E i \in 1..Cardinality(S) : SetToSeq(S)[i] = x
<1> DEFINE n == Cardinality(S)
           order == SetToSeq(S)
<1>1. n \in Nat /\ ExistsBijection(1..n, S)
  BY FS_CardinalityType
<1>2. PICK f \in [1..n -> S] : IsInjective(f)
  BY <1>1 DEF ExistsBijection, Bijection, Injection
<1>3. order \in [1..n -> S] /\ IsInjective(order)
  BY <1>2 DEF SetToSeq
<1>4. order \in Injection(1..n, S)
  BY <1>3 DEF Injection
<1>5. IsFiniteSet(1..n) /\ Cardinality(1..n) = n
  BY <1>1, FS_Interval
<1>6. order \in Surjection(1..n, S)
  <2> HIDE DEF order
  <2> QED
    BY <1>4, <1>5, FS_Injection
<1> QED
  BY <1>1, <1>3, <1>6 DEF Surjection

\* The batch of an instruction is one of those that buildBatchedTxs counts.
LEMMA BatchInRange ==
  ASSUME NEW n \in Nat, NEW b \in Nat \ {0}, NEW i \in 1..n
  PROVE  /\ (n + b - 1) \div b \in Nat
         /\ (i - 1) \div b + 1 \in 1..((n + b - 1) \div b)
<1> DEFINE q == (i - 1) \div b
           m == (n + b - 1) \div b
<1>1. q \in Nat /\ m \in Nat /\ b * q <= i - 1 /\ n + b - 1 < b * (m + 1)
  OBVIOUS
<1> HIDE DEF q, m
<1>2. b * q + b < b * (m + 1) 
  BY <1>1
<1>3. ASSUME q >= m PROVE FALSE
  <2>1. b * m <= b * q
    BY <1>1, <1>3
  <2> QED
    BY <1>1, <1>2, <2>1
<1> QED
  BY <1>1, <1>3 DEF q, m

\* The transactions of buildBatchedTxs withdraw everything listed, and the
\* last one, and no other, carries the revocation.
LEMMA BatchesRevokeLast ==
  ASSUME NEW assets, IsFiniteSet(assets)
  PROVE  FlowSound([Idle EXCEPT !.op = "revoke", !.txs = buildBatchedTxs(assets, TRUE),
                                !.listed = assets])
<1> DEFINE order == SetToSeq(assets)
           n == Cardinality(assets)
           batches == (n + BatchSize - 1) \div BatchSize
           count == IF batches = 0 THEN 1 ELSE batches
           batch(k) == {order[i] : i \in {i \in 1..n : (i - 1) \div BatchSize = k - 1}}
           tx(k) == [do |-> "withdraw", arg |-> [assets |-> batch(k), revoke |-> k = count]]
           txs == [k \in 1..count |-> tx(k)]
<1>1. /\ n \in Nat /\ order \in [1..n -> assets]
      /\ \A a \in assets : \E i \in 1..n : order[i] = a
  BY ListedOnce
<1>2. Len(order) = n
  BY <1>1
<1>3. buildBatchedTxs(assets, TRUE) = txs
  BY <1>2 DEF buildBatchedTxs, Tx
<1>4. batches \in Nat /\ count \in Nat \ {0}
  BY <1>1, OwnerTxAssumption
<1>5. ASSUME NEW a \in assets PROVE \E k \in 1..count : a \in batch(k)
  <2>1. PICK i \in 1..n : order[i] = a
    BY <1>1
  <2> DEFINE k == (i - 1) \div BatchSize + 1
  <2>2. k \in 1..batches
    BY <1>1, BatchInRange, OwnerTxAssumption
  <2>3. k \in 1..count
    <3> HIDE DEF batches, k
    <3> QED
      BY <1>4, <2>2
  <2>4. k - 1 = (i - 1) \div BatchSize
    BY <1>1, OwnerTxAssumption
  <2>5. a \in batch(k)
    <3> HIDE DEF k
    <3> QED
      BY <2>1, <2>4
  <2> QED
    BY <2>3, <2>5
<1> HIDE DEF batch, count
<1>6. Len(txs) = count /\ DOMAIN txs = 1..count
  BY <1>4
<1>7. txs \in Seq(Range(txs))
  BY <1>4 DEF Range
<1>8. \A k \in 1..count : /\ txs[k].do = "withdraw" /\ txs[k].arg.assets = batch(k)
                          /\ txs[k].arg.revoke => k = count
  OBVIOUS
<1> HIDE DEF txs
<1>9. ASSUME NEW z, z.txs = txs, z.listed = assets PROVE RevokesLast(z)
  BY <1>5, <1>6, <1>7, <1>8, <1>9 DEF RevokesLast
<1> DEFINE b == buildBatchedTxs(assets, TRUE)
           x == Idle
           y == [x EXCEPT !.op = "revoke", !.txs = b, !.listed = assets]
<1>10. b = txs
  BY <1>3
<1>11. x \in [op : {x.op}, txs : {x.txs}, listed : {x.listed}, failed : {x.failed}, cfg : {x.cfg}]
  BY DEF Idle
<1> HIDE DEF x, b
<1>12. /\ y.op = "revoke" /\ y.txs = b /\ y.listed = assets
       /\ y \in [op : {y.op}, txs : {y.txs}, listed : {y.listed}, failed : {y.failed}, cfg : {y.cfg}]
  BY <1>11
<1> HIDE DEF y
<1>13. FlowSound(y)
  BY <1>9, <1>10, <1>12 DEF FlowSound
<1> QED
  BY <1>13 DEF y, x, b

\* What is left of a revocation once its first batch has gone through, or has
\* reverted.
LEMMA RestRevokesLast ==
  ASSUME NEW x, RevokesLast(x), x.txs # << >>,
         NEW y, y.txs = Tail(x.txs),
         \A a \in y.listed \ y.failed :
            a \in x.listed \ x.failed /\ a \notin Taken(Head(x.txs))
  PROVE  RevokesLast(y)
<1> DEFINE txs == x.txs
           S == Range(x.txs)
           n == Len(txs)
           rest == Tail(txs)
<1>1. txs \in Seq(S) /\ txs # << >>
  BY DEF RevokesLast
<1>2. \A k \in 1..n : txs[k].do = "withdraw" /\ (txs[k].arg.revoke => k = n)
  BY DEF RevokesLast
<1>3. \A a \in x.listed \ x.failed : \E k \in 1..n : a \in txs[k].arg.assets
  BY DEF RevokesLast
<1>4. /\ y.txs = rest
      /\ \A a \in y.listed \ y.failed : a \in x.listed \ x.failed /\ a \notin Taken(Head(txs))
  OBVIOUS
<1> HIDE DEF txs, S
<1>5. /\ n \in Nat \ {0} /\ rest \in Seq(S) /\ Len(rest) = n - 1
      /\ \A k \in 1..(n - 1) : rest[k] = txs[k + 1]
      /\ Head(txs) = txs[1]
  BY <1>1
<1> HIDE DEF rest, n
<1>6. rest \in Seq(Range(rest))
  <2>1. DOMAIN rest = 1..(n - 1) /\ rest = [k \in 1..(n - 1) |-> rest[k]]
    BY <1>5
  <2> QED
    BY <1>5, <2>1 DEF Range
<1>7. ASSUME NEW k \in 1..(n - 1)
      PROVE  rest[k].do = "withdraw" /\ (rest[k].arg.revoke => k = n - 1)
  <2>1. k + 1 \in 1..n /\ rest[k] = txs[k + 1]
    BY <1>5
  <2>2. rest[k].do = "withdraw" /\ (rest[k].arg.revoke => k + 1 = n)
    BY <1>2, <2>1
  <2> QED
    BY <1>5, <2>2
<1>8. Taken(Head(txs)) = txs[1].arg.assets
  <2>1. txs[1].do = "withdraw"
    BY <1>2, <1>5
  <2> QED
    BY <1>5, <2>1 DEF Taken
<1>9. ASSUME NEW a \in x.listed \ x.failed, a \notin txs[1].arg.assets
      PROVE  \E k \in 1..(n - 1) : a \in rest[k].arg.assets
  <2>1. PICK k \in 1..n : a \in txs[k].arg.assets
    BY <1>3
  <2>2. k # 1
    BY <1>9, <2>1
  <2>3. k - 1 \in 1..(n - 1) /\ (k - 1) + 1 = k
    BY <1>5, <2>2
  <2>4. rest[k - 1] = txs[k]
    BY <1>5, <2>3
  <2> QED
    BY <2>1, <2>3, <2>4
<1> QED
  BY <1>4, <1>5, <1>6, <1>7, <1>8, <1>9 DEF RevokesLast

\* What is left of a sound flow once its first transaction has gone through
\* (signSendConfirm), or has reverted (Reverts).
LEMMA TailSound ==
  ASSUME NEW x, FlowSound(x), x.txs # << >>, NEW y,
         \/ y = [x EXCEPT !.txs = Tail(@), !.listed = @ \ Taken(Head(x.txs))]
         \/ y = [x EXCEPT !.txs = Tail(@), !.failed = @ \cup Taken(Head(x.txs))]
  PROVE  FlowSound(y)
<1> DEFINE rest == Tail(x.txs)
           taken == Taken(Head(x.txs))
           left == x.listed \ taken
           failed == x.failed \cup taken
<1>1. x \in [op : {x.op}, txs : {x.txs}, listed : {x.listed}, failed : {x.failed}, cfg : {x.cfg}]
  BY DEF FlowSound
<1>2. /\ y.op = x.op /\ y.txs = rest
      /\ y \in [op : {y.op}, txs : {y.txs}, listed : {y.listed}, failed : {y.failed}, cfg : {y.cfg}]
      /\ \/ y.listed = left /\ y.failed = x.failed
         \/ y.listed = x.listed /\ y.failed = failed
  <2>1. CASE y = [x EXCEPT !.txs = rest, !.listed = left]
    <3> HIDE DEF rest, left
    <3> QED
      BY <1>1, <2>1
  <2>2. CASE y = [x EXCEPT !.txs = rest, !.failed = failed]
    <3> HIDE DEF rest, failed
    <3> QED
      BY <1>1, <2>2
  <2> QED
    BY <2>1, <2>2
<1>3. ASSUME x.op = "revoke" PROVE RevokesLast(y)
  <2>1. RevokesLast(x)
    BY <1>3 DEF FlowSound
  <2>2. \A a \in y.listed \ y.failed : a \in x.listed \ x.failed /\ a \notin Taken(Head(x.txs))
    BY <1>2
  <2>3. y.txs = Tail(x.txs)
    BY <1>2
  <2> QED
    BY <2>1, <2>2, <2>3, RestRevokesLast
<1> QED
  BY <1>2, <1>3 DEF FlowSound

------------------------------------------------------------------------------
(* The network gate.                                                       *)

\* A console counts as verified only when the cluster that answered is ours
\* (verifyNetwork, bootstrap, BootGate).
LEMMA StartsGated ==
  ASSUME GateHolds, NEW c \in Consoles, NEW ours \in BOOLEAN, NEW answers \in BOOLEAN,
         Starts(c, ours, answers)
  PROVE  GateHolds'
BY DEF GateHolds, Starts, verifyNetwork

\* What is sent from a verified console reaches our cluster (assertNetworkVerified).
LEMMA LandsAtHome ==
  ASSUME GateHolds, NEW c \in Consoles, Lands(c)
  PROVE  abroad' = abroad /\ Executes(Head(flow[c].txs))
BY DEF GateHolds, Lands, assertNetworkVerified

\* Every step keeps the gate (bootstrap, BootGate, signSendConfirm).
LEMMA GateStep ==
  ASSUME GateHolds, [Next]_vars
  PROVE  GateHolds'
<1>1. CASE UNCHANGED <<net, abroad>>
  BY <1>1 DEF GateHolds
<1>2. CASE \E c \in Consoles, ours, answers \in BOOLEAN : Starts(c, ours, answers)
  BY <1>2, StartsGated
<1>3. CASE PhoneDies
  BY <1>3 DEF GateHolds, PhoneDies, Down
<1>4. CASE \E c \in Consoles : signSendConfirm(c) \/ ConfirmationLost(c)
  <2>1. PICK c \in Consoles : signSendConfirm(c) \/ ConfirmationLost(c)
    BY <1>4
  <2>2. Lands(c) /\ UNCHANGED net
    BY <2>1 DEF signSendConfirm, ConfirmationLost
  <2> QED
    BY <2>2, LandsAtHome DEF GateHolds
<1>5. CASE PhoneNext
  <2>1. CASE \E ours, answers \in BOOLEAN : bootstrap(ours, answers)
    BY <1>2, <2>1 DEF bootstrap, Consoles
  <2>2. ASSUME ~PhoneDies, ~\E ours, answers \in BOOLEAN : bootstrap(ours, answers)
        PROVE  UNCHANGED <<net, abroad>>
    BY <1>5, <2>2 DEF PhoneNext, handleRegister, Activates, TakesOver, handleUpdate, RegisterRecovers, FinishRegister,
       RegisterSynced, revokeVault, RevokeDecides, FinishRevoke, handleDeposit, handleWithdraw,
       handleWithdrawAll, onClearPlan, onSave, FinishEdit, EditSynced, FinishWithdrawAll, handleHeartbeat, executeRotation, FinishRotation,
       StartRead, loadVaultState, SyncOnConnect, handleStartOver, PhoneSends
  <2> QED
    BY <1>1, <1>3, <2>1, <2>2
<1>6. CASE WebNext
  <2>1. CASE \E ours, answers \in BOOLEAN : BootGate(ours, answers)
    BY <1>2, <2>1 DEF BootGate, Consoles
  <2>2. ASSUME ~\E ours, answers \in BOOLEAN : BootGate(ours, answers)
        PROVE  UNCHANGED <<net, abroad>>
    BY <1>6, <2>2 DEF WebNext, refresh, WebActs, WebFunds, WebEditsHeirs, WebSavesBequest,
       DangerPanel, run, FinishWeb
  <2> QED
    BY <1>1, <2>1, <2>2
<1>7. CASE Others \/ \E c \in Consoles : NotSent(c) \/ Reverts(c)
  BY <1>1, <1>7 DEF Others, NotSent, Reverts
<1>8. CASE UNCHANGED vars
  BY <1>1, <1>8 DEF vars
<1> QED
  BY <1>4, <1>5, <1>6, <1>7, <1>8 DEF Next

------------------------------------------------------------------------------
(* What the vault holds.                                                   *)

\* Transactions leave finitely many assets in the vault (Executes).
LEMMA ExecutesFinite ==
  ASSUME IsFiniteSet(held), NEW tx, Executes(tx)
  PROVE  IsFiniteSet(held')
<1>1. CASE held' = held \/ held' \subseteq held
  BY <1>1, FS_Subset
<1>2. CASE Deposit(tx.arg)
  BY <1>2, FS_AddElement DEF Deposit
<1> QED
  BY <1>1, <1>2 DEF Executes, Initialize, UpdateVault, SetPlan, UpdatePlan, ClearPlan, Withdraw,
     Rotate, CloseDists, CloseExecuted

\* Every step does (Deposit, Arrives, Executed).
LEMMA HeldStep ==
  ASSUME IsFiniteSet(held), [Next]_vars
  PROVE  IsFiniteSet(held')
<1>1. CASE UNCHANGED held
  BY <1>1
<1>2. CASE \E c \in Consoles : signSendConfirm(c) \/ ConfirmationLost(c)
  <2>1. PICK c \in Consoles : Lands(c)
    BY <1>2 DEF signSendConfirm, ConfirmationLost
  <2>2. UNCHANGED held \/ Executes(Head(flow[c].txs))
    BY <2>1 DEF Lands, ledger
  <2> QED
    BY <1>1, <2>2, ExecutesFinite
<1>3. CASE Others
  <2>1. UNCHANGED held \/ held' = {} \/ \E a : held' = held \cup {a}
    BY <1>3 DEF Others, Ages, Executed, CrankerCloses, CloseDists, CloseExecuted, Arrives, Deposit
  <2>2. CASE held' = {}
    BY <2>2, FS_EmptySet
  <2>3. ASSUME NEW a, held' = held \cup {a} PROVE IsFiniteSet(held')
    BY <2>3, FS_AddElement
  <2> QED
    BY <1>1, <2>1, <2>2, <2>3
<1>4. CASE PhoneNext
  BY <1>1, <1>4 DEF PhoneNext, bootstrap, Starts, PhoneDies, handleRegister, Activates,
     TakesOver, handleUpdate, RegisterRecovers, FinishRegister, RegisterSynced, revokeVault,
     RevokeDecides, FinishRevoke, handleDeposit, handleWithdraw, handleWithdrawAll, onClearPlan,
     onSave, FinishEdit, EditSynced, FinishWithdrawAll, handleHeartbeat,
     recordHeartbeatOnChain, executeRotation, FinishRotation, StartRead, loadVaultState,
     SyncOnConnect, handleStartOver, PhoneSends, ledger
<1>5. CASE WebNext
  BY <1>1, <1>5 DEF WebNext, BootGate, Starts, refresh, WebActs, WebFunds, WebEditsHeirs,
     WebSavesBequest, DangerPanel, run, FinishWeb, ledger
<1>6. CASE \E c \in Consoles : NotSent(c) \/ Reverts(c)
  BY <1>1, <1>6 DEF NotSent, Reverts, ledger
<1>7. CASE UNCHANGED vars
  BY <1>1, <1>7 DEF vars, ledger
<1> QED
  BY <1>2, <1>3, <1>4, <1>5, <1>6, <1>7 DEF Next

------------------------------------------------------------------------------
(* Flows.                                                                  *)

\* A console's next operation is sound when its record is.
LEMMA FlowReplaced ==
  ASSUME FlowsSound, NEW c \in Consoles, NEW x, FlowSound(x),
         flow' = [flow EXCEPT ![c] = x]
  PROVE  FlowsSound'
<1>1. flow' = [i \in Consoles |-> IF i = c THEN x ELSE flow[i]]
  BY DEF FlowsSound
<1>2. \A i \in Consoles : FlowSound(flow'[i])
  BY <1>1 DEF FlowsSound
<1>3. flow' = [i \in Consoles |-> flow'[i]]
  BY <1>1
<1> QED
  BY <1>2, <1>3 DEF FlowsSound

\* An operation other than a revocation promises nothing about its batches.
LEMMA SendsSound ==
  ASSUME FlowsSound, NEW c \in Consoles, NEW op, op # "revoke", NEW txs, NEW listed,
         Sends(c, op, txs, listed)
  PROVE  FlowsSound'
<1> DEFINE x == [Idle EXCEPT !.op = op, !.txs = txs, !.listed = listed]
<1>1. FlowSound(x)
  BY DEF FlowSound, Idle
<1>2. flow' = [flow EXCEPT ![c] = x]
  BY DEF Sends
<1> QED
  BY <1>1, <1>2, FlowReplaced

\* Nor does one that has asked for the vault (handleRegister, revokeVault).
LEMMA AsksSound ==
  ASSUME FlowsSound, NEW op, op # "revoke", Asks(op)
  PROVE  FlowsSound'
<1>1. PICK cfg : flow' = [flow EXCEPT !["phone"] = [Idle EXCEPT !.op = op, !.cfg = cfg]]
  BY DEF Asks
<1> DEFINE x == [Idle EXCEPT !.op = op, !.cfg = cfg]
<1>2. FlowSound(x)
  BY DEF FlowSound, Idle
<1> QED
  BY <1>1, <1>2, FlowReplaced DEF Consoles

\* An idle console is sound (NotSent, ConfirmationLost, the last steps).
LEMMA StopsSound ==
  ASSUME FlowsSound, NEW c \in Consoles, Stops(c)
  PROVE  FlowsSound'
<1>1. FlowSound(Idle)
  BY DEF FlowSound, Idle
<1> QED
  BY <1>1, FlowReplaced DEF Stops

\* A confirmed transaction leaves the rest of the batches (signSendConfirm,
\* Reverts).
LEMMA ConfirmSound ==
  ASSUME FlowsSound, NEW c \in Consoles, signSendConfirm(c) \/ Reverts(c)
  PROVE  FlowsSound'
<1> DEFINE x == flow[c]
           y == [x EXCEPT !.txs = Tail(@), !.listed = @ \ Taken(Head(x.txs))]
           z == [x EXCEPT !.txs = Tail(@), !.failed = @ \cup Taken(Head(x.txs))]
<1>1. flow' = [flow EXCEPT ![c] = y] \/ flow' = [flow EXCEPT ![c] = z]
  BY DEF signSendConfirm, Reverts, FlowsSound
<1>2. FlowSound(x) /\ x.txs # << >>
  BY DEF FlowsSound, signSendConfirm, Reverts, Lands, Pending
<1> HIDE DEF x
<1>3. FlowSound(y) /\ FlowSound(z)
  BY <1>2, TailSound
<1> HIDE DEF y, z
<1> QED
  BY <1>1, <1>3, FlowReplaced

\* Revoking starts with batches that close the vault last (RevokeDecides).
LEMMA RevokeSound ==
  ASSUME FlowsSound, IsFiniteSet(held), RevokeDecides
  PROVE  FlowsSound'
<1>1. CASE Sends("phone", "revoke", buildBatchedTxs(held, TRUE), held)
  <2> DEFINE x == [Idle EXCEPT !.op = "revoke", !.txs = buildBatchedTxs(held, TRUE),
                               !.listed = held]
  <2>1. FlowSound(x)
    BY BatchesRevokeLast
  <2>2. flow' = [flow EXCEPT !["phone"] = x]
    BY <1>1 DEF Sends
  <2> HIDE DEF x
  <2> QED
    BY <2>1, <2>2, FlowReplaced DEF Consoles
<1>2. CASE \E txs, listed : Sends("phone", "close", txs, listed)
  BY <1>2, SendsSound DEF Consoles
<1>3. CASE Stops("phone")
  BY <1>3, StopsSound DEF Consoles
<1> QED
  BY <1>1, <1>2, <1>3 DEF RevokeDecides, buildWithdrawAllInstructions

\* Every step keeps the flows sound (signSendConfirm, Reverts, RevokeDecides).
LEMMA FlowStep ==
  ASSUME FlowsSound, IsFiniteSet(held), [Next]_vars
  PROVE  FlowsSound'
<1>1. CASE UNCHANGED flow
  BY <1>1 DEF FlowsSound
<1>2. CASE \E c \in Consoles : Stops(c)
  BY <1>2, StopsSound
<1>3. CASE \E c \in Consoles : \E op, txs, listed :
              op # "revoke" /\ Sends(c, op, txs, listed)
  BY <1>3, SendsSound
<1>4. CASE PhoneDies \/ TakesOver \/ RegisterSynced \/ FinishRevoke \/ EditSynced
           \/ FinishWithdrawAll \/ FinishRotation
  <2>1. Stops("phone")
    BY <1>4 DEF PhoneDies, TakesOver, RegisterSynced, FinishRevoke, EditSynced,
       FinishWithdrawAll, FinishRotation, Stops
  <2> QED
    BY <1>2, <2>1 DEF Consoles
<1>5. CASE handleRegister \/ RegisterRecovers \/ FinishRegister \/ revokeVault \/ FinishEdit
  <2>1. \E op : op # "revoke" /\ Asks(op)
    BY <1>5 DEF handleRegister, RegisterRecovers, FinishRegister, revokeVault, FinishEdit
  <2> QED
    BY <2>1, AsksSound
<1>6. CASE \E op, txs : op # "revoke" /\ PhoneSends(op, txs)
  BY <1>3, <1>6 DEF PhoneSends, Starting, Consoles
<1>7. CASE executeRotation \/ \E heirs \in HeirLists : Activates(heirs)
  BY <1>3, <1>7 DEF executeRotation, Activates, Starting, Consoles
<1>8. CASE PhoneNext
  <2>1. CASE \/ \E heirs \in HeirLists : handleUpdate(heirs)
             \/ \E a \in Assets : handleDeposit(a) \/ handleWithdraw(a)
             \/ handleWithdrawAll \/ onClearPlan
             \/ \E i \in 1..Len(store.cfg.heirs) : onSave(store.cfg.heirs[i])
    BY <1>6, <2>1 DEF handleUpdate, handleDeposit, handleWithdraw, handleWithdrawAll, onClearPlan,
       onSave
  <2>2. CASE \/ \E ours, answers \in BOOLEAN : bootstrap(ours, answers)
             \/ handleHeartbeat
             \/ \E by \in Readers : StartRead(by)
             \/ loadVaultState \/ SyncOnConnect \/ handleStartOver
    BY <1>1, <2>2 DEF bootstrap, Starts, handleHeartbeat, StartRead, loadVaultState, SyncOnConnect, handleStartOver
  <2> QED
    BY <1>4, <1>5, <1>7, <1>8, <2>1, <2>2, RevokeSound DEF PhoneNext
<1>9. CASE WebNext
  <2>1. CASE \E tx : run(tx)
    BY <1>3, <2>1 DEF run, Starting, Consoles
  <2>2. CASE WebActs
    BY <2>1, <2>2 DEF WebActs, WebFunds, WebEditsHeirs, WebSavesBequest, DangerPanel
  <2>3. CASE FinishWeb
    BY <1>2, <2>3 DEF FinishWeb, Consoles
  <2>4. CASE refresh \/ \E ours, answers \in BOOLEAN : BootGate(ours, answers)
    BY <1>1, <2>4 DEF refresh, BootGate, Starts
  <2> QED
    BY <1>9, <2>2, <2>3, <2>4 DEF WebNext
<1>10. CASE Others
  BY <1>1, <1>10 DEF Others
<1>11. CASE \E c \in Consoles :
               signSendConfirm(c) \/ Reverts(c) \/ ConfirmationLost(c) \/ NotSent(c)
  BY <1>2, <1>11, ConfirmSound DEF ConfirmationLost, NotSent
<1>12. CASE UNCHANGED vars
  BY <1>1, <1>12 DEF vars
<1> QED
  BY <1>8, <1>9, <1>10, <1>11, <1>12 DEF Next

\* The batch of a revocation that closes the vault is the last one and takes
\* all that is still listed and has not reverted (buildBatchedTxs).
LEMMA ClosingTakesRest ==
  ASSUME NEW x, RevokesLast(x), x.txs # << >>, Executes(Head(x.txs)),
         vault # None, vault' = None
  PROVE  x.listed \ Taken(Head(x.txs)) \subseteq x.failed
<1> DEFINE txs == x.txs
           S == Range(x.txs)
           n == Len(txs)
           tx == Head(txs)
<1>1. txs \in Seq(S) /\ txs # << >>
  BY DEF RevokesLast
<1>2. \A k \in 1..n : txs[k].do = "withdraw" /\ (txs[k].arg.revoke => k = n)
  BY DEF RevokesLast
<1>3. \A a \in x.listed \ x.failed : \E k \in 1..n : a \in txs[k].arg.assets
  BY DEF RevokesLast
<1>4. Executes(tx)
  OBVIOUS
<1> HIDE DEF txs, S
<1>5. n \in Nat \ {0} /\ tx = txs[1]
  BY <1>1
<1>6. tx.do = "withdraw" /\ (tx.arg.revoke => n = 1)
  <2>1. 1 \in 1..n
    BY <1>5
  <2>2. txs[1].do = "withdraw" /\ (txs[1].arg.revoke => 1 = n)
    BY <1>2, <2>1
  <2> HIDE DEF n, tx
  <2> QED
    BY <1>5, <2>2
<1> HIDE DEF n, tx
<1>7. Withdraw(tx.arg)
  BY <1>4, <1>6 DEF Executes
<1>8. tx.arg.revoke
  BY <1>7 DEF Withdraw
<1>9. Taken(tx) = tx.arg.assets
  BY <1>6 DEF Taken
<1>10. \A a \in x.listed \ x.failed : a \in tx.arg.assets
  BY <1>3, <1>5, <1>6, <1>8
<1> QED
  BY <1>9, <1>10 DEF tx, txs

\* Every step that ends the vault while the phone's revocation moves on does
\* so with nothing listed left behind but what has reverted (revokeVault,
\* signSendConfirm).
LEMMA RevokeStep ==
  ASSUME FlowsSound, GateHolds, [Next]_vars,
         flow["phone"].op = "revoke", Pending("phone"), vault # None, vault' = None,
         flow'["phone"] # flow["phone"]
  PROVE  flow["phone"].listed \ Taken(Head(flow["phone"].txs)) \subseteq flow["phone"].failed
<1>1. CASE Lands("phone")
  <2>1. RevokesLast(flow["phone"]) /\ flow["phone"].txs # << >>
    BY DEF FlowsSound, FlowSound, Pending, Consoles
  <2>2. Executes(Head(flow["phone"].txs))
    BY <1>1, LandsAtHome DEF Consoles
  <2> DEFINE x == flow["phone"]
  <2> HIDE DEF x
  <2>3. x.listed \ Taken(Head(x.txs)) \subseteq x.failed
    BY <2>1, <2>2, ClosingTakesRest DEF x
  <2> QED
    BY <2>3 DEF x
<1>2. ~UNCHANGED vault /\ ~UNCHANGED flow
  OBVIOUS
<1>3. ~PhoneNext
  <2>1. ~Free("phone") /\ \A op : Answered(op) => op = "revoke"
    BY DEF Free, Idle, Answered
  <2> QED
    BY <1>2, <2>1 DEF PhoneNext, bootstrap, Starts, PhoneDies, handleRegister, Activates,
       TakesOver, handleUpdate, RegisterRecovers, FinishRegister, RegisterSynced, revokeVault,
       RevokeDecides, FinishRevoke, handleDeposit, handleWithdraw, handleWithdrawAll, onClearPlan,
       onSave, FinishEdit, EditSynced, FinishWithdrawAll, handleHeartbeat,
       executeRotation, FinishRotation, StartRead, loadVaultState, SyncOnConnect,
       handleStartOver, PhoneSends, ledger
<1>4. ~WebNext
  BY <1>2 DEF WebNext, BootGate, Starts, refresh, WebActs, WebFunds, WebEditsHeirs,
     WebSavesBequest, DangerPanel, run, FinishWeb, ledger
<1>5. ~Others /\ ~UNCHANGED vars
  BY <1>2 DEF Others, vars, ledger
<1>6. ~\E c \in Consoles : NotSent(c) \/ Reverts(c)
  BY <1>2 DEF NotSent, Reverts, ledger
<1>7. ~(signSendConfirm("web") \/ ConfirmationLost("web"))
  BY DEF signSendConfirm, ConfirmationLost, Stops, FlowsSound, Consoles
<1>8. signSendConfirm("phone") \/ ConfirmationLost("phone")
  BY <1>3, <1>4, <1>5, <1>6, <1>7 DEF Next, Consoles
<1> QED
  BY <1>1, <1>8 DEF signSendConfirm, ConfirmationLost

------------------------------------------------------------------------------
(* Theorems.                                                               *)

\* The consoles start sound, on a fresh device and with a vault in use.
LEMMA OwnerInitial ==
  ASSUME Init
  PROVE  OwnerInv
<1>1. GateHolds
  <2>1. CASE FreshDevice
    BY <2>1 DEF Init, FreshDevice, GateHolds, Down
  <2>2. CASE VaultInUse
    <3>1. net = [c \in Consoles |-> [up |-> c = "phone", ours |-> c = "phone",
                                     verified |-> c = "phone"]]
      BY <2>2 DEF VaultInUse
    <3>2. abroad = FALSE
      BY DEF Init
    <3> QED
      BY <3>1, <3>2 DEF GateHolds, Consoles
  <2> QED
    BY <2>1, <2>2 DEF Init
<1>2. FlowsSound
  BY DEF Init, FlowsSound, FlowSound, Idle
<1>3. IsFiniteSet(held)
  <2>1. held = {} \/ held = Assets
    BY DEF Init, FreshDevice, VaultInUse
  <2> QED
    BY <2>1, FS_EmptySet, OwnerTxAssumption
<1> QED
  BY <1>1, <1>2, <1>3 DEF OwnerInv

\* Whatever the owner, the wallet and the cluster do: the gate holds, and the
\* batches left of a revocation take everything listed but what has reverted,
\* the last of them closing the vault.
THEOREM OwnerInvariant == OwnerSpec => []OwnerInv
<1>1. Init => OwnerInv
  BY OwnerInitial
<1>2. OwnerInv /\ [Next]_vars => OwnerInv'
  BY GateStep, FlowStep, HeldStep DEF OwnerInv
<1> QED
  BY <1>1, <1>2, PTL DEF OwnerSpec

\* No transaction that the owner's wallet signs reaches another cluster
\* (verifyNetwork, assertNetworkVerified, BootGate); what the agent's key signs
\* passes no gate and is not meant.
THEOREM WritesStayHome == OwnerSpec => []OwnerWritesVerified
<1>1. OwnerInv => OwnerWritesVerified
  BY DEF OwnerInv, GateHolds, OwnerWritesVerified
<1> QED
  BY <1>1, OwnerInvariant, PTL

\* A revocation that closes the vault leaves behind, of what it listed, only what
\* its own reverted batches were to take (revokeVault, buildBatchedTxs).
THEOREM RevocationEmpties == OwnerSpec => RevokeEmptiesVault
<1>1. OwnerInv /\ [Next]_vars
      => [flow["phone"].op = "revoke" /\ Pending("phone") /\ vault # None /\ vault' = None
            /\ flow'["phone"] # flow["phone"]
          => held' \cap (flow["phone"].listed \ Taken(Head(flow["phone"].txs)))
               \subseteq flow["phone"].failed]_vars
  <2> SUFFICES ASSUME OwnerInv, [Next]_vars, flow["phone"].op = "revoke", Pending("phone"),
                      vault # None, vault' = None, flow'["phone"] # flow["phone"]
               PROVE  held' \cap (flow["phone"].listed \ Taken(Head(flow["phone"].txs)))
                        \subseteq flow["phone"].failed
    OBVIOUS
  <2>1. flow["phone"].listed \ Taken(Head(flow["phone"].txs)) \subseteq flow["phone"].failed
    BY RevokeStep DEF OwnerInv
  <2> QED
    BY <2>1
<1> QED
  BY <1>1, OwnerInvariant, PTL DEF OwnerSpec, RevokeEmptiesVault
================================================================================
