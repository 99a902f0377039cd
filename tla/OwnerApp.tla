------------------------------- MODULE OwnerApp -------------------------------
(***************************************************************************)
(* The owner's two consoles: the phone (SetupWizard, EstateReview,         *)
(* Dashboard, Beneficiary, Bequests and Settings screens, revokeVault.ts,  *)
(* the agent key, the vault store) and the web console (MyVaultView and    *)
(* its hooks).  Both read the chain, wait for the wallet, and send.        *)
(*                                                                         *)
(* A console runs one operation at a time: a read of the vault, a list of  *)
(* transactions that are signed, sent and confirmed one after the other,   *)
(* and a last step.  The owner can turn any of them down, the cluster can  *)
(* refuse it, and it can land although its confirmation fails; each ends   *)
(* the operation.  A transaction that lands and reverts does not: nobody   *)
(* looks at the error of a confirmed one.                                  *)
(***************************************************************************)
EXTENDS OwnerTx

CONSTANTS
    MaxKeys,      \* agent keys that the phone generates
    MaxOps,       \* operations that the owner starts, transfers of others
    MaxFaults     \* failed reads, lost confirmations, restarts, unverified boots

ASSUME OwnerAppAssumption == {MaxKeys, MaxOps, MaxFaults} \subseteq Nat

VARIABLES
    net,          \* per console: is it up, on our cluster, verified
    flow,         \* per console: the operation under way
    key, made,    \* the agent key in the secure store; keys generated so far
    store,        \* the vault store: the configuration shown, the revoked flag
    reading,      \* a screen's read of the vault that has not been applied yet
    view,         \* what the web console shows
    abroad,       \* a transaction signed by the wallet reached another cluster
    ops, faults

phone == <<key, made, store, reading>>
bounds == <<ops, faults>>
vars == <<ledger, net, flow, phone, view, abroad, bounds>>

Consoles == {"phone", "web"}
NoKey == 0
Down == [up |-> FALSE, ours |-> FALSE, verified |-> FALSE]
Idle == [op |-> "idle", txs |-> << >>, listed |-> {}, failed |-> {}, cfg |-> None]
NoRead == [by |-> "nobody", cfg |-> None]

Fault == faults < MaxFaults /\ faults' = faults + 1
Free(c) == net[c].up /\ flow[c] = Idle

\* What fetchVaultConfig returns of the account.
Config(v) ==
    IF v = None THEN None
    ELSE [st |-> v.st, heirs |-> v.heirs, planned |-> v.plan # None, dists |-> v.dists]
Configs == {Config(v) : v \in {None, vault}}

OnChain(c) == Config(IF net[c].ours THEN vault ELSE None)

\* null for an absent account, for the one of another cluster and for a failed read.
fetchVaultConfig(c, cfg) ==
    \/ cfg = OnChain(c) /\ UNCHANGED faults
    \/ net[c].ours /\ vault # None /\ cfg = None /\ Fault

------------------------------------------------------------------------------
(* The vault store.                                                        *)

setVaultConfig(cfg) ==
    IF store.revoked /\ cfg # None THEN store
    ELSE [cfg |-> cfg, revoked |-> FALSE]
reset == [cfg |-> None, revoked |-> TRUE]
resetForWalletSwitch == [cfg |-> None, revoked |-> FALSE]

Synced(cfg) == [cfg |-> cfg, revoked |-> FALSE]

\* After an edit: a read that brings nothing changes nothing.
IfFresh(cfg) == IF cfg = None THEN store ELSE setVaultConfig(cfg)

\* A vault that has gone clears what is shown; nothing is cleared during set-up.
Applied(cfg) == IF cfg = None /\ store.cfg = None THEN store ELSE setVaultConfig(cfg)

------------------------------------------------------------------------------
(* Start-up: the cluster is told by its genesis hash.                      *)

\* Mutant: a cluster that does not answer passes for the right one.
verifyNetworkOpen(ours, answers) ==
    IF answers /\ ~ours THEN "MISMATCH" ELSE "VERIFIED"

verifyNetwork(ours, answers) ==
    IF ~answers THEN "UNKNOWN" ELSE IF ours THEN "VERIFIED" ELSE "MISMATCH"

assertNetworkVerified(c) == net[c].verified

\* A mismatch is never let in; the owner may go on with an unknown cluster.
Starts(c, ours, answers) ==
    LET state == verifyNetwork(ours, answers) IN
    /\ ~net[c].up /\ state # "MISMATCH"
    /\ net' = [net EXCEPT ![c] = [up |-> TRUE, ours |-> ours, verified |-> state = "VERIFIED"]]
    /\ IF ours /\ answers THEN UNCHANGED faults ELSE Fault
    /\ UNCHANGED <<ledger, flow, phone, view, abroad, ops>>

bootstrap(ours, answers) == Starts("phone", ours, answers)
BootGate(ours, answers) == Starts("web", ours, answers)

\* The phone keeps its agent key and nothing else that matters here.
PhoneDies ==
    /\ net["phone"].up /\ Fault
    /\ net' = [net EXCEPT !["phone"] = Down]
    /\ flow' = [flow EXCEPT !["phone"] = Idle]
    /\ store' = resetForWalletSwitch
    /\ reading' = NoRead
    /\ UNCHANGED <<ledger, key, made, view, abroad, ops>>

------------------------------------------------------------------------------
(* Sign, send, confirm.                                                    *)

Counted == ops < MaxOps /\ ops' = ops + 1

Sends(c, op, txs, listed) ==
    flow' = [flow EXCEPT ![c] = [Idle EXCEPT !.op = op, !.txs = txs, !.listed = listed]]
Starting(c, op, txs) == Sends(c, op, txs, {}) /\ Counted

\* An operation of the phone has asked for the vault.  The answer is as old as
\* it takes to arrive.
Asks(op) ==
    \E cfg \in Configs :
        /\ fetchVaultConfig("phone", cfg)
        /\ flow' = [flow EXCEPT !["phone"] = [Idle EXCEPT !.op = op, !.cfg = cfg]]
Answered(op) == flow["phone"].op = op
found == flow["phone"].cfg

Pending(c) == flow[c].txs # << >>
Stops(c) == flow' = [flow EXCEPT ![c] = Idle]

\* The wallet signs on a verified network only.  Elsewhere nothing of ours
\* can be reached.
Lands(c) ==
    /\ Pending(c) /\ assertNetworkVerified(c)
    /\ IF net[c].ours
       THEN Executes(Head(flow[c].txs)) /\ UNCHANGED abroad
       ELSE abroad' = TRUE /\ UNCHANGED ledger

Taken(tx) == IF tx.do = "withdraw" THEN tx.arg.assets ELSE {}

signSendConfirm(c) ==
    /\ Lands(c)
    /\ flow' = [flow EXCEPT ![c].txs = Tail(@), ![c].listed = @ \ Taken(Head(flow[c].txs))]
    /\ UNCHANGED <<net, phone, view, bounds>>

\* Overtaken between preflight and execution, it reverts, and is confirmed.
Reverts(c) ==
    /\ Pending(c) /\ assertNetworkVerified(c) /\ net[c].ours /\ Fault
    /\ flow' = [flow EXCEPT ![c].txs = Tail(@), ![c].failed = @ \cup Taken(Head(flow[c].txs))]
    /\ UNCHANGED <<ledger, net, phone, view, abroad, ops>>

\* Landed, and the confirmation timed out.
ConfirmationLost(c) ==
    /\ Lands(c) /\ Fault
    /\ Stops(c)
    /\ UNCHANGED <<net, phone, view, ops>>

\* Turned down by the owner, the network gate, the RPC or the program, or given
\* up before there was anything to send.
NotSent(c) ==
    /\ Pending(c) \/ flow[c].op \in {"registering", "revoking"}
    /\ Stops(c)
    /\ UNCHANGED <<ledger, net, phone, view, abroad, bounds>>

Confirmed(c, op) == flow[c].op = op /\ ~Pending(c)

------------------------------------------------------------------------------
(* Phone: activation.                                                      *)

\* The key in the store, or a fresh one.
AgentKey == IF key # NoKey THEN key ELSE made + 1
KeyAtHand == key # NoKey \/ made < MaxKeys
generateAgentKey ==
    /\ key' = AgentKey
    /\ made' = IF key # NoKey THEN made ELSE made + 1

InitTx(cfg, heirs) ==
    CASE cfg = None           -> buildInitializeVaultTx(AgentKey, heirs)
      [] cfg.st = "executed"  -> buildCloseExecutedAndReinitVaultTx(AgentKey, heirs)
      [] cfg.st = "revoked"   -> buildCloseAndReinitVaultTx(AgentKey, heirs)

\* It reads the account itself.  A lagging node may not show the vault yet; a
\* read that throws ends the registration.
handleRegister ==
    /\ Free("phone") /\ KeyAtHand
    /\ generateAgentKey
    /\ Asks("registering") /\ Counted
    /\ UNCHANGED <<ledger, net, store, reading, view, abroad>>

\* An active vault is taken over as it was found.
TakesOver ==
    /\ Answered("registering") /\ found # None /\ found.st = "active"
    /\ store' = Synced(found)
    /\ Stops("phone")
    /\ UNCHANGED <<ledger, net, key, made, reading, view, abroad, bounds>>

Activates(heirs) ==
    /\ Answered("registering") /\ (found # None => found.st # "active")
    /\ Sends("phone", "register", <<InitTx(found, heirs)>>, {})
    /\ UNCHANGED <<ledger, net, phone, view, abroad, bounds>>

\* "already in use": the vault was there after all, and only an active one is
\* taken over.
RegisterRecovers ==
    /\ flow["phone"].op = "register" /\ Pending("phone") /\ assertNetworkVerified("phone")
    /\ vault # None
    /\ Asks("recovering")
    /\ UNCHANGED <<ledger, net, phone, view, abroad, ops>>

FinishRegister ==
    /\ Confirmed("phone", "register")
    /\ Asks("registered")
    /\ UNCHANGED <<ledger, net, phone, view, abroad, ops>>

\* Without a configuration the store keeps its revoked flag.
RegisterSynced ==
    /\ Answered("registered") \/ Answered("recovering")
    /\ store' = IF found = None \/ (Answered("recovering") /\ found.st # "active") THEN store
                ELSE Synced(found)
    /\ Stops("phone")
    /\ UNCHANGED <<ledger, net, key, made, reading, view, abroad, bounds>>

------------------------------------------------------------------------------
(* Phone: revocation, and closing an executed vault.                       *)

revokeVault ==
    /\ Free("phone")
    /\ Asks("revoking") /\ Counted
    /\ UNCHANGED <<ledger, net, phone, view, abroad>>

\* The refund is signed by the agent's key, which no gate stops; its failure is
\* ignored.
TriesRefund ==
    \/ /\ IF net["phone"].ours THEN refundAgentSol(key) ELSE UNCHANGED funded
       /\ UNCHANGED faults
    \/ net["phone"].ours /\ key \in funded /\ Fault /\ UNCHANGED funded

\* destroyKey, and the stores.
Cleanup == key' = NoKey /\ store' = reset /\ UNCHANGED made

\* The balances are listed now.  With nothing active to revoke, only the device
\* is cleaned up.
RevokeDecides ==
    /\ Answered("revoking")
    /\ TriesRefund
    /\ \/ /\ found # None /\ found.st = "active"
          /\ Sends("phone", "revoke", buildBatchedTxs(buildWithdrawAllInstructions, TRUE),
                   buildWithdrawAllInstructions)
          /\ UNCHANGED <<key, made, store>>
       \/ /\ found # None /\ found.st = "executed"
          /\ Sends("phone", "close",
                   buildCloseTokenDistTransactions \o <<buildCloseExecutedVaultTx>>, {})
          /\ UNCHANGED <<key, made, store>>
       \/ /\ found # None => found.st = "revoked"
          /\ Cleanup
          /\ Stops("phone")
    /\ UNCHANGED <<vault, held, net, reading, view, abroad, ops>>

FinishRevoke ==
    /\ Confirmed("phone", "revoke") \/ Confirmed("phone", "close")
    /\ Cleanup
    /\ Stops("phone")
    /\ UNCHANGED <<ledger, net, reading, view, abroad, bounds>>

------------------------------------------------------------------------------
(* Phone: edits, deposits and withdrawals.                                 *)

Showing(st) == store.cfg # None /\ store.cfg.st = st

PhoneSends(op, txs) ==
    /\ Free("phone")
    /\ Starting("phone", op, txs)
    /\ UNCHANGED <<ledger, net, phone, view, abroad, faults>>

handleDeposit(a) == Showing("active") /\ PhoneSends("move", <<buildDepositTokenTx(a)>>)
handleWithdraw(a) == Showing("active") /\ a \in held /\ PhoneSends("move", <<buildWithdrawTokenTx(a)>>)
handleWithdrawAll ==
    /\ Showing("active") /\ held # {} /\ net["phone"].ours
    /\ PhoneSends("empty", buildBatchedTxs(buildWithdrawAllInstructions, FALSE))

\* The whole list is written over the one on chain.
handleUpdate(heirs) == Showing("active") /\ PhoneSends("edit", <<buildUpdateVaultTx(heirs)>>)

\* Bequests name their heir by the position in the list on the screen.
onSave(heir) ==
    /\ Showing("active")
    /\ LET p == toOnChainAssignment(store.cfg.heirs, heir)
       IN PhoneSends("edit", <<IF store.cfg.planned THEN buildUpdateAssetPlanTx(p)
                               ELSE buildSetAssetPlanTx(p)>>)
onClearPlan == Showing("active") /\ store.cfg.planned /\ PhoneSends("edit", <<buildClearAssetPlanTx>>)

\* The configuration is read again, by the dashboard as on every visit.
FinishEdit ==
    /\ \/ Confirmed("phone", "edit") /\ Asks("edited")
       \/ Confirmed("phone", "move") /\ Asks("moved")
    /\ UNCHANGED <<ledger, net, phone, view, abroad, ops>>

EditSynced ==
    /\ \/ Answered("edited") /\ store' = IfFresh(found)
       \/ Answered("moved") /\ store' = Applied(found)
    /\ Stops("phone")
    /\ UNCHANGED <<ledger, net, key, made, reading, view, abroad, bounds>>

FinishWithdrawAll ==
    /\ Confirmed("phone", "empty")
    /\ Stops("phone")
    /\ UNCHANGED <<ledger, net, phone, view, abroad, bounds>>

------------------------------------------------------------------------------
(* Phone: heartbeats and the agent key.                                    *)

\* Signed by the agent's key, which no gate stops: elsewhere it changes nothing
\* of ours.
handleHeartbeat ==
    /\ net["phone"].up /\ net["phone"].ours /\ key # NoKey
    /\ recordHeartbeatOnChain(key)
    /\ UNCHANGED <<net, flow, phone, view, abroad, bounds>>

needsAgentRotation == Showing("active") /\ key # vault.agent

\* The old key goes before the new one is on chain.
executeRotation ==
    /\ Free("phone") /\ net["phone"].ours
    /\ vault # None /\ vault.st = "active" /\ needsAgentRotation /\ made < MaxKeys
    /\ key' = made + 1 /\ made' = made + 1
    /\ Starting("phone", "rotate", <<buildRotateAgentTx(made + 1)>>)
    /\ UNCHANGED <<ledger, net, store, reading, view, abroad, faults>>

FinishRotation ==
    /\ Confirmed("phone", "rotate")
    /\ Stops("phone")
    /\ UNCHANGED <<ledger, net, phone, view, abroad, bounds>>

------------------------------------------------------------------------------
(* Phone: the reads of the screens.                                        *)

\* A screen reads on focus: the dashboard, and while nothing counts as revoked
\* the wizard, which treats the answer alike.  The navigator looks for a vault
\* when there is none to show.
Readers == {"screen", "navigator"}
MayRead(by) == by = "screen" \/ store.cfg = None

StartRead(by) ==
    /\ net["phone"].up /\ reading = NoRead /\ MayRead(by)
    /\ \E cfg \in Configs :
         /\ fetchVaultConfig("phone", cfg)
         /\ reading' = [by |-> by, cfg |-> cfg]
    /\ UNCHANGED <<ledger, net, flow, key, made, store, view, abroad, ops>>

loadVaultState ==
    /\ reading.by = "screen"
    /\ store' = Applied(reading.cfg)
    /\ reading' = NoRead
    /\ UNCHANGED <<ledger, net, flow, key, made, view, abroad, bounds>>

SyncOnConnect ==
    /\ reading.by = "navigator"
    /\ store' = IfFresh(reading.cfg)
    /\ reading' = NoRead
    /\ UNCHANGED <<ledger, net, flow, key, made, view, abroad, bounds>>

\* Start over; disconnecting the wallet comes to the same.  Reads and operations
\* under way go on.
handleStartOver ==
    /\ net["phone"].up /\ store # resetForWalletSwitch
    /\ store' = resetForWalletSwitch
    /\ UNCHANGED <<ledger, net, flow, key, made, reading, view, abroad, bounds>>

------------------------------------------------------------------------------
(* The web console.                                                        *)

\* An absent account is told apart from a failed read, which keeps the view.
refresh ==
    /\ net["web"].up
    /\ view' = OnChain("web") /\ view' # view
    /\ UNCHANGED <<ledger, net, flow, phone, abroad, bounds>>

run(tx) ==
    /\ Free("web") /\ view # None
    /\ Starting("web", "web", <<tx>>)
    /\ UNCHANGED <<ledger, net, phone, view, abroad, faults>>

WebFunds == \E a \in Assets : run(buildDepositTokenTx(a)) \/ (a \in held /\ run(buildWithdrawTokenTx(a)))

WebEditsHeirs == ~view.planned /\ \E heirs \in HeirLists : run(buildUpdateVaultTx(heirs))

WebSavesBequest ==
    \E i \in 1..Len(view.heirs) :
        LET p == toOnChainAssignment(view.heirs, view.heirs[i])
        IN run(IF view.planned THEN buildUpdateAssetPlanTx(p) ELSE buildSetAssetPlanTx(p))

DangerPanel ==
    \/ view.planned /\ view.st = "active" /\ run(buildClearAssetPlanTx)
    \/ view.st = "active" /\ run(buildRevokeVaultTx)
    \/ view.st = "executed" /\ ~view.dists /\ run(buildCloseExecutedVaultTx)

WebActs == view # None /\ (WebFunds \/ (view.st = "active" /\ (WebEditsHeirs \/ WebSavesBequest)) \/ DangerPanel)

FinishWeb ==
    /\ Confirmed("web", "web")
    /\ Stops("web")
    /\ view' = Config(vault)
    /\ UNCHANGED <<ledger, net, phone, abroad, bounds>>

------------------------------------------------------------------------------

Others ==
    /\ \/ (Ages \/ Executed \/ CrankerCloses) /\ UNCHANGED ops
       \/ \E a \in Assets : Arrives(a) /\ ops < MaxOps /\ ops' = ops + 1
    /\ UNCHANGED <<net, flow, phone, view, abroad, faults>>

\* A fresh device, or one whose owner's vault an old program version revoked.
FreshDevice ==
    /\ \/ vault = None
       \/ \E heirs \in HeirLists :
            vault = [NewVault(NoKey, heirs) EXCEPT !.st = "revoked", !.age = Deadline]
    /\ held = {} /\ funded = {}
    /\ net = [c \in Consoles |-> Down]
    /\ key = NoKey /\ made = 0
    /\ store = resetForWalletSwitch

\* A vault in use, with a bequest and everything deposited.
VaultInUse ==
    /\ \E heirs \in HeirLists :
         vault = [NewVault(1, heirs) EXCEPT !.plan = toOnChainAssignment(heirs, heirs[1])]
    /\ held = Assets /\ funded = {1}
    /\ net = [c \in Consoles |-> [up |-> c = "phone", ours |-> c = "phone", verified |-> c = "phone"]]
    /\ key = 1 /\ made = 1
    /\ store = Synced(Config(vault))

Init ==
    /\ FreshDevice \/ VaultInUse
    /\ flow = [c \in Consoles |-> Idle]
    /\ reading = NoRead /\ view = None /\ abroad = FALSE
    /\ ops = 0 /\ faults = 0

PhoneNext ==
    \/ \E ours, answers \in BOOLEAN : bootstrap(ours, answers)
    \/ PhoneDies
    \/ handleRegister \/ \E heirs \in HeirLists : Activates(heirs) \/ handleUpdate(heirs)
    \/ TakesOver \/ RegisterRecovers \/ FinishRegister \/ RegisterSynced
    \/ revokeVault \/ RevokeDecides \/ FinishRevoke
    \/ \E a \in Assets : handleDeposit(a) \/ handleWithdraw(a)
    \/ handleWithdrawAll \/ onClearPlan
    \/ Showing("active") /\ \E i \in 1..Len(store.cfg.heirs) : onSave(store.cfg.heirs[i])
    \/ FinishEdit \/ EditSynced \/ FinishWithdrawAll \/ handleHeartbeat \/ executeRotation \/ FinishRotation
    \/ \E by \in Readers : StartRead(by)
    \/ loadVaultState \/ SyncOnConnect \/ handleStartOver

WebNext ==
    \/ \E ours, answers \in BOOLEAN : BootGate(ours, answers)
    \/ refresh \/ WebActs \/ FinishWeb

Next ==
    \/ PhoneNext \/ WebNext \/ Others
    \/ \E c \in Consoles : signSendConfirm(c) \/ Reverts(c) \/ ConfirmationLost(c) \/ NotSent(c)

OwnerSpec == Init /\ [][Next]_vars

\* The owner keeps looking at the phone, and a read of the vault is answered.
FairOwnerSpec ==
    /\ OwnerSpec
    /\ WF_vars(\E by \in Readers : StartRead(by))
    /\ WF_vars(loadVaultState \/ SyncOnConnect)

------------------------------------------------------------------------------
(* Properties.                                                             *)

(***************************************************************************)
(* The phone's screens come back to the vault on the chain.  An answer can *)
(* be older than a revocation, a start over or what the web console has    *)
(* done in the meantime, and then show a vault that is gone; the screens   *)
(* do not stay with it, nor with one that crankers have executed and       *)
(* closed.  A vault that counts as revoked on the phone shows nothing      *)
(* (loadVaultState, setVaultConfig, handleRegister).                       *)
(***************************************************************************)
StoreCatchesUp ==
    []<>(net["phone"].up /\ net["phone"].ours
         => store.revoked \/ store.cfg = Config(vault))

(***************************************************************************)
(* Revoking from the phone leaves nothing behind of what it listed, also   *)
(* when the batches are interrupted, repeated or raced by the web console, *)
(* except what a batch of its own was to take that landed and reverted:    *)
(* the batch that closes the vault goes out all the same (revokeVault,     *)
(* buildBatchedTxs).                                                       *)
(***************************************************************************)
RevokeEmptiesVault ==
    [][flow["phone"].op = "revoke" /\ Pending("phone") /\ vault # None /\ vault' = None
         /\ flow'["phone"] # flow["phone"]
       => held' \cap (flow["phone"].listed \ Taken(Head(flow["phone"].txs)))
            \subseteq flow["phone"].failed]_vars

(***************************************************************************)
(* No transaction that the owner's wallet signs reaches another cluster    *)
(* than the one the build is for, whatever the owner waves through at      *)
(* start-up.  What the agent's key signs passes no gate (verifyNetwork,    *)
(* assertNetworkVerified, BootGate).                                       *)
(***************************************************************************)
OwnerWritesVerified == ~abroad

------------------------------------------------------------------------------
(* What holds in every reachable state, and makes the properties inductive. *)

\* Only a console on our cluster counts as verified, and only such a one sends.
GateHolds ==
    /\ net \in [Consoles -> [up : BOOLEAN, ours : BOOLEAN, verified : BOOLEAN]]
    /\ \A c \in Consoles : net[c].verified => net[c].ours
    /\ abroad = FALSE

\* The batches left of a revocation: withdrawals of everything still listed but
\* what has reverted, of which the last one, and no other, closes the vault.
RevokesLast(x) ==
    /\ x.txs \in Seq(Range(x.txs))
    /\ \A k \in 1..Len(x.txs) :
         x.txs[k].do = "withdraw" /\ (x.txs[k].arg.revoke => k = Len(x.txs))
    /\ x.listed \subseteq x.failed \cup UNION {x.txs[k].arg.assets : k \in 1..Len(x.txs)}

FlowSound(x) ==
    /\ x \in [op : {x.op}, txs : {x.txs}, listed : {x.listed}, failed : {x.failed},
              cfg : {x.cfg}]
    /\ x.op = "revoke" => RevokesLast(x)
FlowsSound ==
    /\ flow = [c \in Consoles |-> flow[c]]
    /\ \A c \in Consoles : FlowSound(flow[c])

OwnerInv == GateHolds /\ FlowsSound /\ IsFiniteSet(held)

==============================================================================
