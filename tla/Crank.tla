-------------------------------- MODULE Crank --------------------------------
(***************************************************************************)
(* The programs that crank an execution: the keeper bot (crank.js,         *)
(* index.js, readiness.js), the executor of the notify server              *)
(* (executor.js), the app of the owner's device (ExecutionService.ts) and  *)
(* the claim of an heir in the app or in the browser (ClaimService.ts).    *)
(* They know nothing of each other.  Each reads accounts, waits, and       *)
(* submits instructions that the chain judges on its own, so that a        *)
(* submission can be overtaken by the one of another cranker and revert.   *)
(*                                                                         *)
(* The chain is Distribution, with what the crankers look at besides: the  *)
(* mints of which the vault holds a balance, the mints whose transfers     *)
(* revert, and the two deadlines.  A pass that dies (RPC error, readiness  *)
(* revoked, process killed) loses everything it knew.                      *)
(***************************************************************************)
EXTENDS Distribution, Sequences, SequencesExt

CONSTANTS
    Crankers,
    Lead,                    \* the cranker that keeps trying
    Teams,                   \* what the crankers may be
    Shares,                  \* indices of the beneficiaries
    Plans,                   \* asset plans: the mint of each assignment, in order
    SOL,
    Batch,                   \* payouts per transaction
    MaxAutoMints,            \* cap on mints that no bequest names
    MaxPasses,               \* passes of one claim
    BadRpc,                  \* what may become of the keeper's endpoint or wallet
    MaxFaults                \* bound on RPC failures, revocations and crashes

ASSUME CrankAssumption ==
    /\ Lead \in Crankers
    /\ Teams \subseteq [Crankers -> {"keeper", "crankOnly", "server", "app", "heir", "web"}]
    /\ Shares = 1..MaxShares
    /\ Plans \subseteq Seq(DistMints \cup {SOL})
    /\ \A p \in Plans : Len(p) <= MaxBequests
    /\ SOL \notin DistMints
    /\ BadRpc \subseteq {"silent", "other_cluster", "no_program", "poor"}
    /\ Batch \in Nat \ {0} /\ {MaxAutoMints, MaxPasses, MaxFaults} \subseteq Nat

VARIABLES
    plan,          \* the AssetPlan, frozen by the time a pass reads it
    kind,          \* what each cranker is: a member of Teams
    crank,         \* what each cranker is doing and remembers
    closed,        \* the core accounts are gone
    due, window,   \* grace elapsed; the close delay elapsed
    held, blocked, \* mints with a balance; mints whose transfers revert
    orphaned,      \* mints whose balance a keeper left behind a close
    rpc,           \* what the keeper's RPC endpoint and wallet are like
    faults,
    misread        \* has another cluster ever answered the listing of a pass

chain == <<distVars, closed, held, orphaned>>
outside == <<plan, kind, due, window, blocked, rpc, faults, misread>>
vars == <<chain, outside, crank>>

\* The keeper bot closes executed vaults for their rent, or with CLOSE_EXECUTED=0
\* only cranks.
Keepers == {"keeper", "crankOnly"}

PlanMints == {plan[j] : j \in 1..Len(plan)} \ {SOL}

Resting ==
    [pc |-> "idle", mints |-> {}, todo |-> {}, next |-> 0, stuck |-> {},
     cleanup |-> FALSE, started |-> FALSE, fresh |-> {}, steps |-> << >>,
     progressed |-> FALSE, shown |-> "active"]

Is(c, pc) == crank[c].pc = pc
Goto(c, pc) == crank' = [crank EXCEPT ![c].pc = pc]
ToMints(c, pc) ==
    crank' = [crank EXCEPT ![c].pc = pc, ![c].todo = crank[c].mints \ crank[c].stuck,
                           ![c].next = 0, ![c].fresh = {}]
Rested(c) ==
    [Resting EXCEPT !.started = kind[c] = "app" /\ crank[c].started, !.shown = crank[c].shown]
Rest(c) == crank' = [crank EXCEPT ![c] = Rested(c)]

\* A mint that failed is skipped for the rest of the pass.
Done(c, m) == crank' = [crank EXCEPT ![c].todo = @ \ {m}]
markStuck(c, m) ==
    crank' = [crank EXCEPT ![c].todo = @ \ {m}, ![c].stuck = @ \cup {m}]

Fault == faults < MaxFaults /\ faults' = faults + 1
quiet == UNCHANGED outside
faulty == UNCHANGED <<plan, kind, due, window, blocked, rpc, misread>>

------------------------------------------------------------------------------
(* What the chain accepts besides the rules of Distribution.               *)

CanOpen(m) == stage # "none" /\ ~closed /\ dists[m] = NoDist /\ (m \in held \/ m \in PlanMints)

CanPayBequest(j) ==
    /\ stage # "none" /\ ~closed /\ j \in planDue
    /\ \A i \in planDue : plan[i] = plan[j] => i >= j
    /\ plan[j] # SOL => dists[plan[j]] # NoDist /\ plan[j] \notin blocked

CanPayTokens(m) == ~closed /\ dists[m] # NoDist /\ m \notin blocked

CanCloseDist(m) == ~closed /\ stage = "executed" /\ dists[m] = {} /\ m \notin blocked

------------------------------------------------------------------------------
(* One pass, as the three programs write it.                               *)

\* begin_execution unless the ExecutionLog is there.
BeginExecution(c) ==
    /\ Is(c, "begin") /\ ~closed /\ due
    /\ IF stage = "none" THEN Begin(Shares, 1..Len(plan)) ELSE UNCHANGED distVars
    /\ Goto(c, "collect")
    /\ UNCHANGED <<closed, held, orphaned>> /\ quiet

\* Mutant: a mint is looked for among the held ones only.
HeldMints(c) == {held}

\* Held mints and bequeathed mints; the ones beyond the cap are deferred, the
\* app has no cap.
collectMints(c) ==
    LET spare == held \ PlanMints
        room == IF MaxAutoMints > Cardinality(PlanMints)
                THEN MaxAutoMints - Cardinality(PlanMints) ELSE 0
    IN  IF kind[c] = "app" \/ Cardinality(spare) <= room THEN {held \cup PlanMints}
        ELSE {PlanMints \cup auto : auto \in {s \in SUBSET spare : Cardinality(s) = room}}

\* The plan's paid mask is read here, before the bequests are paid.
Collect(c) ==
    /\ Is(c, "collect") /\ ~closed
    /\ \E mints \in collectMints(c) :
         crank' = [crank EXCEPT ![c].pc = "open", ![c].mints = mints, ![c].todo = mints,
                                ![c].fresh = planDue]
    /\ UNCHANGED chain /\ quiet

\* begin_token_dist for each mint without a TokenDist.
OpenTokenDist(c, m) ==
    /\ Is(c, "open") /\ m \in crank[c].todo
    /\ \/ /\ dists[m] # NoDist
          /\ Done(c, m)
          /\ UNCHANGED distVars
       \/ /\ CanOpen(m)
          /\ OpenDist(m, Shares)
          /\ Done(c, m)
       \/ /\ dists[m] = NoDist /\ ~CanOpen(m)
          /\ markStuck(c, m)
          /\ UNCHANGED distVars
    /\ UNCHANGED <<closed, held, orphaned>> /\ quiet

\* Mutant: a pass that goes on only when every distribution could be opened.
OpenedCleanly(c) == Is(c, "open") /\ crank[c].todo = {} /\ crank[c].stuck = {}

\* All mints done: on to the bequests.
Opened(c) == Is(c, "open") /\ crank[c].todo = {}

\* The app reads the mask again before its first bequest, the others use the
\* one that they read before they opened the distributions.
MaskSeen(c) == IF kind[c] = "app" /\ crank[c].next = 0 THEN planDue ELSE crank[c].fresh

\* The next bequest that the mask shows unpaid, of a mint that works.
NextBequest(c) ==
    {j \in MaskSeen(c) : j > crank[c].next /\ plan[j] \notin crank[c].stuck}

FirstBequest(c) == CHOOSE j \in NextBequest(c) : \A i \in NextBequest(c) : j <= i

\* A bequest that someone else has paid in the meantime reverts as well.
ExecuteSpecific(c) ==
    /\ Opened(c) /\ NextBequest(c) # {}
    /\ LET j == FirstBequest(c) IN
         \/ /\ CanPayBequest(j)
            /\ PayBequest(j)
            /\ crank' = [crank EXCEPT ![c].next = j, ![c].fresh = MaskSeen(c)]
         \/ /\ ~CanPayBequest(j)
            /\ crank' = [crank EXCEPT ![c].next = j, ![c].fresh = MaskSeen(c),
                            ![c].stuck = IF plan[j] = SOL THEN @ ELSE @ \cup {plan[j]}]
            /\ UNCHANGED distVars
    /\ UNCHANGED <<closed, held, orphaned>> /\ quiet

\* The mask is read again, then the unpaid indices go out in batches.
ExecuteSolShares(c) ==
    /\ Opened(c) /\ NextBequest(c) = {}
    /\ ~closed /\ solDue # {}
    /\ \E batch \in SUBSET solDue :
         /\ Cardinality(batch) = IF Cardinality(solDue) < Batch THEN Cardinality(solDue) ELSE Batch
         /\ PaySol(batch)
    /\ UNCHANGED <<closed, held, orphaned, crank>> /\ quiet

\* Mutant: finalisation that does not wait for a stuck mint.
FinalizeAnyway(c) == stage = "begun" /\ solDue = {} /\ planDue = {}

\* Both masks are read again.  Keeper and server hold back while a mint is
\* stuck, the app does not.
shouldFinalize(c) ==
    /\ stage = "begun" /\ solDue = {} /\ planDue = {}
    /\ kind[c] # "app" => crank[c].stuck = {}

FinalizeExecution(c) ==
    /\ Opened(c) /\ NextBequest(c) = {} /\ solDue = {} /\ ~closed
    /\ IF shouldFinalize(c) THEN Finalize ELSE UNCHANGED distVars
    /\ ToMints(c, "residual")
    /\ UNCHANGED <<closed, held, orphaned>> /\ quiet

\* Paying the whole residual may or may not leave dust.
ExecuteTokenShares(c, m) ==
    /\ Is(c, "residual") /\ m \in crank[c].todo
    /\ \/ /\ dists[m] = NoDist \/ dists[m] = {}
          /\ Done(c, m)
          /\ UNCHANGED <<distVars, held>>
       \/ /\ dists[m] # {} /\ CanPayTokens(m)
          /\ PayTokens(m, Shares)
          /\ held' \in {held, held \ {m}}
          /\ Done(c, m)
       \/ /\ dists[m] \notin {NoDist, {}} /\ ~CanPayTokens(m)
          /\ markStuck(c, m)
          /\ UNCHANGED <<distVars, held>>
    /\ UNCHANGED <<closed, orphaned>> /\ quiet

\* The vault is read again: without finalisation there is nothing to close.
CloseDists(c) ==
    /\ Is(c, "residual") /\ crank[c].todo = {} /\ ~closed
    /\ IF stage = "executed" \/ kind[c] = "app" THEN ToMints(c, "sweep") ELSE Goto(c, "finish")
    /\ UNCHANGED chain /\ quiet

\* Sweeps the dust and closes the account.
CloseTokenDist(c, m) ==
    /\ Is(c, "sweep") /\ m \in crank[c].todo
    /\ \/ /\ dists[m] # {}
          /\ Done(c, m)
          /\ UNCHANGED <<distVars, held>>
       \/ /\ CanCloseDist(m)
          /\ CloseDist(m)
          /\ held' = held \ {m}
          /\ Done(c, m)
       \/ /\ dists[m] = {} /\ ~CanCloseDist(m)
          /\ markStuck(c, m)
          /\ UNCHANGED <<distVars, held>>
    /\ UNCHANGED <<closed, orphaned>> /\ quiet

FinishPass(c) ==
    /\ Is(c, "finish") \/ (Is(c, "sweep") /\ crank[c].todo = {})
    /\ IF crank[c].cleanup /\ dists = [m \in DistMints |-> NoDist]
       THEN crank' = [crank EXCEPT ![c] = [Resting EXCEPT !.pc = "scan"]]
       ELSE Rest(c)
    /\ UNCHANGED chain /\ quiet

\* The first half of a pass opens the distributions and pays the bequests, the
\* second pays the shares and closes.
Opening(c) ==
    \/ BeginExecution(c) \/ Collect(c)
    \/ \E m \in DistMints : OpenTokenDist(c, m)
    \/ ExecuteSpecific(c)

Paying(c) ==
    \/ ExecuteSolShares(c) \/ FinalizeExecution(c)
    \/ \E m \in DistMints : ExecuteTokenShares(c, m) \/ CloseTokenDist(c, m)
    \/ CloseDists(c) \/ FinishPass(c)

------------------------------------------------------------------------------
(* Failures.  A submission or lookup of one mint that fails for no reason  *)
(* of the chain marks the mint stuck; any other failure ends the pass.     *)

MintFails(c, m) ==
    /\ \/ Is(c, "open") /\ dists[m] = NoDist
       \/ Is(c, "residual") /\ dists[m] \notin {NoDist, {}}
       \/ Is(c, "sweep") /\ dists[m] = {}
    /\ m \in crank[c].todo
    /\ markStuck(c, m)
    /\ Fault /\ faulty /\ UNCHANGED chain

Abort(c) ==
    /\ ~Is(c, "idle")
    /\ Rest(c)
    /\ Fault /\ faulty /\ UNCHANGED chain

\* A pass that finds the accounts gone throws at its next read; one whose
\* begin_execution was overtaken by a close of the vault as well.
Overtaken(c) ==
    /\ ~Is(c, "idle") /\ closed
    /\ Rest(c)
    /\ UNCHANGED chain /\ quiet

------------------------------------------------------------------------------
(* The keeper bot.                                                         *)

\* Genesis, program account and balance, in this order.  A fatal verdict ends
\* the process, which its supervisor starts again; a degraded one is retried
\* after a pause.  Neither starts a tick.
classifyGenesis == IF rpc = "silent" THEN "unknown" ELSE IF rpc = "other_cluster" THEN "mismatch" ELSE "verified"
checkProgramAccount == IF rpc = "no_program" THEN "missing" ELSE "ok"
evaluateBalance == rpc # "poor"

keeperReadiness ==
    IF classifyGenesis = "mismatch" \/ checkProgramAccount = "missing" THEN "fatal"
    ELSE IF classifyGenesis = "unknown" \/ ~evaluateBalance THEN "degraded" ELSE "ok"

\* Due vaults are cranked, executed ones cleaned up unless the keeper only cranks.
KeeperTick(c) ==
    /\ Is(c, "idle") /\ ~closed
    /\ \/ /\ stage = "executed" /\ kind[c] = "keeper"
          /\ crank' = [crank EXCEPT ![c].cleanup = ~NoDistOpen,
                           ![c].pc = IF NoDistOpen THEN "scan" ELSE "begin"]
       \/ /\ stage # "executed" /\ due
          /\ Goto(c, "begin")
    /\ UNCHANGED chain /\ quiet

\* A fatal, degraded or failing gate is the end of this round.
runKeeperOnce(c) == keeperReadiness = "ok" /\ KeeperTick(c)

\* Mutant: a close that trusts open_token_dists.
HoldsNothingOpen == NoDistOpen

vaultHoldsNoTokens == held = {}

\* The anti-orphan gate; what arrives after this scan is late.
AntiOrphanScan(c) ==
    /\ Is(c, "scan") /\ ~closed
    /\ IF vaultHoldsNoTokens
       THEN crank' = [crank EXCEPT ![c].pc = "close", ![c].fresh = {}]
       ELSE Rest(c)
    /\ UNCHANGED chain /\ quiet

\* The program refuses while a distribution is open or the window runs.
CloseVault(c) ==
    /\ Is(c, "close") /\ ~closed
    /\ IF NoDistOpen /\ window
       THEN closed' = TRUE /\ orphaned' = held \ crank[c].fresh
       ELSE UNCHANGED <<closed, orphaned>>
    /\ Rest(c)
    /\ UNCHANGED <<distVars, held>> /\ quiet

\* A verdict is used for a while after it was obtained; once it has aged the
\* gate is asked again before the next submission.  Nor does a pass survive a
\* read of an account that has to be there.
Revalidated(c) ==
    /\ ~Is(c, "idle") /\ keeperReadiness # "ok"
    /\ Rest(c)
    /\ UNCHANGED chain /\ quiet

\* Only submissions ask for the genesis.  Another cluster knows neither the
\* vault's tokens nor its distributions, and the pass takes its word for it:
\* no mints (or, back in time, the bequeathed ones), nothing to distribute,
\* nothing left.  What it submits there fails.
CollectsNothing(c) ==
    /\ Is(c, "collect")
    /\ \E mints \in {{}, PlanMints} :
         crank' = [crank EXCEPT ![c].pc = "open", ![c].mints = mints, ![c].todo = mints,
                                ![c].fresh = planDue]
    /\ misread' = TRUE

MissesMint(c, m) ==
    /\ m \in crank[c].todo
    /\ \/ Is(c, "open") /\ markStuck(c, m)
       \/ (Is(c, "residual") \/ Is(c, "sweep")) /\ Done(c, m)
    /\ UNCHANGED misread

MissesBequest(c) ==
    /\ Opened(c) /\ NextBequest(c) # {}
    /\ LET j == FirstBequest(c) IN
         crank' = [crank EXCEPT ![c].next = j, ![c].fresh = MaskSeen(c),
                      ![c].stuck = IF plan[j] = SOL THEN @ ELSE @ \cup {plan[j]}]
    /\ UNCHANGED misread

\* This scan sees nothing of what the vault holds.
ScansNothing(c) ==
    /\ Is(c, "scan")
    /\ crank' = [crank EXCEPT ![c].pc = "close", ![c].fresh = held]
    /\ UNCHANGED misread

AnsweredElsewhere(c) ==
    /\ CollectsNothing(c) \/ MissesBequest(c) \/ ScansNothing(c)
       \/ \E m \in DistMints : MissesMint(c, m)
    /\ UNCHANGED <<chain, plan, kind, due, window, blocked, rpc>>

\* Submissions within that time still reach the chain of the vault, unless the
\* endpoint is silent or another cluster's.
KeeperStep(c) ==
    /\ kind[c] \in Keepers
    /\ \/ runKeeperOnce(c) \/ Revalidated(c)
       \/ /\ rpc \in {"ok", "poor"}
          /\ Opening(c) \/ Paying(c) \/ AntiOrphanScan(c) \/ CloseVault(c)
       \/ rpc = "other_cluster" /\ AnsweredElsewhere(c) /\ UNCHANGED faults

RpcTurns ==
    /\ \E c \in Crankers : kind[c] \in Keepers
    /\ rpc = "ok" /\ rpc' \in BadRpc
    /\ Fault /\ UNCHANGED <<chain, plan, kind, due, window, blocked, misread, crank>>
RpcRecovers ==
    /\ rpc # "ok" /\ rpc' = "ok"
    /\ UNCHANGED <<chain, plan, kind, due, window, blocked, faults, misread, crank>>

------------------------------------------------------------------------------
(* The executor of the notify server.                                      *)

\* An executed vault is left alone.
RunExecutor(c) ==
    /\ kind[c] = "server" /\ Is(c, "idle") /\ ~closed
    /\ stage # "executed" /\ due
    /\ Goto(c, "begin")
    /\ UNCHANGED chain /\ quiet

ServerCollects(c) == kind[c] = "server" /\ Collect(c)
ServerOpens(c) ==
    /\ kind[c] = "server"
    /\ BeginExecution(c) \/ ExecuteSpecific(c) \/ \E m \in DistMints : OpenTokenDist(c, m)
ServerPays(c) ==
    /\ kind[c] = "server"
    /\ ExecuteSolShares(c) \/ FinalizeExecution(c) \/ \E m \in DistMints : ExecuteTokenShares(c, m)
ServerCloses(c) ==
    /\ kind[c] = "server"
    /\ CloseDists(c) \/ FinishPass(c) \/ \E m \in DistMints : CloseTokenDist(c, m)

\* The guard of a submission no longer holds, or a fault that is not one of the
\* chain: the run is over.
ServerAborts(c) == kind[c] = "server" /\ Abort(c)
ServerSkips(c, m) == kind[c] = "server" /\ MintFails(c, m)

\* Its reads are no more checked than the keeper's.
ServerMisreads(c) == kind[c] = "server" /\ AnsweredElsewhere(c) /\ Fault

------------------------------------------------------------------------------
(* The app.  Reaching stage 4 stops the evaluation loop and starts one     *)
(* pass; nothing starts another one before the app starts afresh.          *)

AppExecutes(c) ==
    /\ Is(c, "idle") /\ ~closed /\ due
    /\ ~crank[c].started
    /\ crank' = [crank EXCEPT ![c].pc = "begin", ![c].started = TRUE]
    /\ UNCHANGED chain /\ quiet

crankBeginExecution(c) == BeginExecution(c)
crankBeginTokenDist(c, m) == OpenTokenDist(c, m)
crankExecuteSpecificSol(c) == ExecuteSpecific(c) /\ plan[FirstBequest(c)] = SOL
crankExecuteSpecificAsset(c) == ExecuteSpecific(c) /\ plan[FirstBequest(c)] # SOL
crankExecuteSolShares(c) == ExecuteSolShares(c)
crankFinalize(c) == FinalizeExecution(c)
crankExecuteTokenShares(c, m) == ExecuteTokenShares(c, m)
crankCloseTokenDist(c, m) == CloseTokenDist(c, m)

AppStep(c) ==
    /\ kind[c] = "app"
    /\ \/ AppExecutes(c) \/ crankBeginExecution(c) \/ Collect(c)
       \/ crankExecuteSpecificSol(c) \/ crankExecuteSpecificAsset(c)
       \/ crankExecuteSolShares(c) \/ crankFinalize(c) \/ CloseDists(c) \/ FinishPass(c)
       \/ \E m \in DistMints :
            crankBeginTokenDist(c, m) \/ crankExecuteTokenShares(c, m) \/ crankCloseTokenDist(c, m)

\* A transaction that is confirmed counts as done, also when it was overtaken on
\* its way and reverted: the pass goes on as if it had worked.
AppReverts(c) ==
    /\ kind[c] = "app"
    /\ \/ Is(c, "begin") /\ Goto(c, "collect")
       \/ ~Is(c, "close") /\ \E m \in crank[c].todo : Done(c, m)
       \/ /\ Opened(c) /\ NextBequest(c) # {}
          /\ crank' = [crank EXCEPT ![c].next = FirstBequest(c), ![c].fresh = MaskSeen(c)]
       \/ Opened(c) /\ NextBequest(c) = {} /\ ToMints(c, "residual")
    /\ Fault /\ faulty /\ UNCHANGED chain

AppRestarts(c) ==
    /\ kind[c] = "app" /\ crank[c].started
    /\ crank' = [crank EXCEPT ![c] = Resting]
    /\ Fault /\ faulty /\ UNCHANGED chain

------------------------------------------------------------------------------
(* The claim of an heir.  A pass is a list of transactions built from one  *)
(* reading of the chain; each is signed and sent on its own.               *)

\* What the list of inheritances says, from the server or read by import.
status == IF stage = "executed" THEN "executed" ELSE IF due THEN "claimable" ELSE "active"

fetchInheritances(c) ==
    /\ ~closed /\ crank[c].shown # status /\ Is(c, "idle")
    /\ crank' = [crank EXCEPT ![c].shown = status]
    /\ UNCHANGED chain /\ quiet

\* The card, and its button, stay as they are until the list is read again.
Claimable(c) == crank[c].shown = "claimable"

ClaimMints == SetToSeq(held \cup PlanMints)
Calls(op, args) == [i \in 1..Len(args) |-> <<op, args[i]>>]
Ascending(indices) == SetToSortSeq(indices, LAMBDA i, j : i < j)
chunk(indices) ==
    LET s == Ascending(indices)
    IN  [b \in 1..((Len(s) + Batch - 1) \div Batch) |->
            {s[i] : i \in {k \in 1..Len(s) : (k - 1) \div Batch = b - 1}}]

beginSteps ==
    (IF stage = "none" THEN << <<"begin", 0>> >> ELSE << >>)
    \o Calls("open", SelectSeq(ClaimMints, LAMBDA m : dists[m] = NoDist))
paySteps ==
    LET unpaid == IF stage = "none" THEN 1..Len(plan) ELSE planDue
        shares == IF stage = "none" THEN Shares ELSE solDue
    IN  Calls("bequest", Ascending(unpaid)) \o Calls("sol", chunk(shares))
        \o (IF stage = "executed" THEN << >> ELSE << <<"finalize", 0>> >>)
residualSteps ==
    Calls("tokens", SelectSeq(ClaimMints, LAMBDA m : dists[m] \notin {NoDist, {}}))

\* A fresh estate of nothing but SOL is one atomic transaction.
buildClaimTransactions ==
    IF stage = "none" /\ held = {} /\ plan = << >> THEN << <<"estate", 0>> >>
    ELSE beginSteps \o paySteps \o residualSteps

\* What the program makes of a transaction when it arrives.
Accepts(step) ==
    LET op == step[1] arg == step[2] IN
    /\ ~closed
    /\ op \in {"begin", "estate"} => due /\ stage = "none"
    /\ op = "open" => CanOpen(arg)
    /\ op = "bequest" => CanPayBequest(arg)
    /\ op = "sol" => stage = "begun"
    /\ op = "finalize" => stage = "begun" /\ solDue = {} /\ planDue = {}
    /\ op = "tokens" => CanPayTokens(arg)

Lands(step) ==
    LET op == step[1] arg == step[2] IN
    /\ UNCHANGED <<closed, orphaned>>
    /\ \/ op = "begin" /\ Begin(Shares, 1..Len(plan)) /\ UNCHANGED held
       \/ op = "estate" /\ stage' = "executed" /\ UNCHANGED <<solDue, planDue, dists, held>>
       \/ op = "open" /\ OpenDist(arg, Shares) /\ UNCHANGED held
       \/ op = "bequest" /\ PayBequest(arg) /\ UNCHANGED held
       \/ op = "sol" /\ PaySol(arg) /\ UNCHANGED held
       \/ op = "finalize" /\ Finalize /\ UNCHANGED held
       \/ op = "tokens" /\ PayTokens(arg, Shares) /\ held' \in {held, held \ {arg}}

\* Offered on a card that shows the estate as claimable, whatever has happened
\* since; the deadline is read again.  Without a step to take the claim fails.
runClaim(c) ==
    /\ Is(c, "idle") /\ Claimable(c)
    /\ ~closed /\ due /\ buildClaimTransactions # << >>
    /\ crank' = [crank EXCEPT ![c].pc = "claim", ![c].steps = buildClaimTransactions, ![c].next = 1]
    /\ UNCHANGED chain /\ quiet

Sent(c, counted) ==
    crank' = [crank EXCEPT ![c].steps = Tail(@), ![c].progressed = @ \/ counted,
                           ![c].started = @ \/ counted]

\* A transaction that reverts is skipped.
sendConfirm(c) ==
    /\ Is(c, "claim") /\ crank[c].steps # << >>
    /\ LET step == Head(crank[c].steps) IN
         IF Accepts(step) THEN Lands(step) /\ Sent(c, TRUE)
         ELSE UNCHANGED chain /\ Sent(c, FALSE)
    /\ quiet

\* It lands, but the confirmation does not come back.  Or nothing comes of it: it
\* is never sent, or overtaken after the preflight, and then the confirmation of
\* the reverted transaction counts as progress.
ConfirmationLost(c) ==
    /\ Is(c, "claim") /\ crank[c].steps # << >>
    /\ Accepts(Head(crank[c].steps)) /\ Lands(Head(crank[c].steps))
    /\ Sent(c, FALSE)
    /\ Fault /\ faulty

StepLost(c) ==
    /\ Is(c, "claim") /\ crank[c].steps # << >>
    /\ \E counted \in BOOLEAN : Sent(c, counted)
    /\ Fault /\ faulty /\ UNCHANGED chain

\* A pass that got something through is followed by another one, built anew.
NextPass(c) ==
    /\ Is(c, "claim") /\ crank[c].steps = << >> /\ ~closed
    /\ crank[c].progressed /\ crank[c].next < MaxPasses /\ buildClaimTransactions # << >>
    /\ crank' = [crank EXCEPT ![c].steps = buildClaimTransactions, ![c].next = @ + 1,
                              ![c].progressed = FALSE]
    /\ UNCHANGED chain /\ quiet

\* Nothing got through in the whole claim: the first error is shown.  The page
\* in the browser then reads the list again, the app does not.
ClaimFails(c) ==
    /\ Is(c, "claim") /\ crank[c].steps = << >> /\ ~crank[c].started
    /\ crank' = [crank EXCEPT ![c] = [Rested(c) EXCEPT !.shown = IF kind[c] = "web" THEN status ELSE @]]
    /\ UNCHANGED chain /\ quiet

\* Otherwise the settled distributions are closed and the list is read again.
buildCloseTokenDistTransactions(c) ==
    /\ Is(c, "claim") /\ crank[c].steps = << >> /\ crank[c].started /\ ~closed
    /\ ~crank[c].progressed \/ crank[c].next >= MaxPasses \/ buildClaimTransactions = << >>
    /\ crank' = [crank EXCEPT ![c] = [Rested(c) EXCEPT !.pc = "sweep",
                    !.todo = {m \in held \cup PlanMints : dists[m] = {}}]]
    /\ UNCHANGED chain /\ quiet

ClaimReturns(c) ==
    /\ Is(c, "sweep") /\ crank[c].todo = {}
    /\ crank' = [crank EXCEPT ![c] = [Resting EXCEPT !.shown = status]]
    /\ UNCHANGED chain /\ quiet

load(c) == kind[c] = "heir" /\ fetchInheritances(c)
onClaim(c) == kind[c] = "heir" /\ runClaim(c)

\* The page in the browser; it claims on a verified network only.
useInheritances(c) == kind[c] = "web" /\ fetchInheritances(c)
useClaim(c) == kind[c] = "web" /\ runClaim(c)

HeirStep(c) ==
    /\ kind[c] \in {"heir", "web"}
    /\ \/ load(c) \/ onClaim(c) \/ useInheritances(c) \/ useClaim(c)
       \/ sendConfirm(c) \/ NextPass(c)
       \/ ClaimFails(c) \/ buildCloseTokenDistTransactions(c) \/ ClaimReturns(c)
       \/ \E m \in DistMints : CloseTokenDist(c, m)

------------------------------------------------------------------------------
(* The world.                                                              *)

world == UNCHANGED <<plan, kind, rpc, faults, misread>>

GraceElapses == ~due /\ due' = TRUE /\ UNCHANGED <<chain, window, blocked, crank>> /\ world

WindowElapses ==
    /\ stage # "none" /\ ~window /\ window' = TRUE
    /\ UNCHANGED <<chain, due, blocked, crank>> /\ world

\* Tokens arrive at any time; a keeper between its scan and its close will
\* not see them.
DepositTokens(m) ==
    /\ m \notin held /\ ~closed
    /\ held' = held \cup {m}
    /\ crank' = [c \in Crankers |->
           IF Is(c, "close") THEN [crank[c] EXCEPT !.fresh = @ \cup {m}] ELSE crank[c]]
    /\ UNCHANGED <<distVars, closed, orphaned, due, window, blocked>> /\ world

Blocks(m) ==
    /\ m \notin blocked /\ blocked' = blocked \cup {m}
    /\ UNCHANGED <<chain, due, window, crank>> /\ world
Unblocks(m) ==
    /\ m \in blocked /\ blocked' = blocked \ {m}
    /\ UNCHANGED <<chain, due, window, crank>> /\ world

\* The owner may come back and close an executed vault without waiting.
OwnerCloses ==
    /\ stage = "executed" /\ NoDistOpen /\ ~closed
    /\ closed' = TRUE
    /\ UNCHANGED <<distVars, held, orphaned, due, window, blocked, crank>> /\ world

Init ==
    /\ DistInit
    /\ plan \in Plans
    /\ kind \in Teams
    /\ crank = [c \in Crankers |-> Resting]
    /\ closed = FALSE /\ due = FALSE /\ window = FALSE
    /\ held \in SUBSET DistMints
    /\ blocked = {} /\ orphaned = {} /\ rpc = "ok" /\ faults = 0 /\ misread = FALSE

Next ==
    \/ \E c \in Crankers :
         \/ KeeperStep(c)
         \/ RunExecutor(c) \/ ServerCollects(c) \/ ServerOpens(c) \/ ServerPays(c) \/ ServerCloses(c)
         \/ ServerAborts(c) \/ ServerMisreads(c) \/ \E m \in DistMints : ServerSkips(c, m)
         \/ AppStep(c) \/ AppReverts(c) \/ AppRestarts(c)
         \/ HeirStep(c) \/ ConfirmationLost(c) \/ StepLost(c)
         \/ kind[c] # "server" /\ (Abort(c) \/ \E m \in DistMints : MintFails(c, m))
         \/ Overtaken(c)
    \/ GraceElapses \/ WindowElapses \/ OwnerCloses \/ RpcTurns \/ RpcRecovers
    \/ \E m \in DistMints : DepositTokens(m) \/ Blocks(m) \/ Unblocks(m)

Spec == Init /\ [][Next]_vars

\* One cranker keeps trying: a keeper whose loop goes round, or an heir who comes
\* back while the estate is offered.  The keeper's endpoint recovers and the
\* window ends.  Nothing is assumed of the others, of depositors and of issuers.
FairSpec ==
    /\ Spec /\ WF_vars(KeeperStep(Lead) \/ HeirStep(Lead))
    /\ WF_vars(RpcRecovers) /\ WF_vars(WindowElapses)

------------------------------------------------------------------------------
(* Properties.                                                             *)

(***************************************************************************)
(* A close by the keeper leaves no balance behind that was there when it   *)
(* scanned (vaultHoldsUndistributedTokens): a transfer between scan and    *)
(* close can be lost, and what a scan could not see because another        *)
(* cluster answered it.                                                    *)
(***************************************************************************)
KeeperNeverOrphans == orphaned = {}

(***************************************************************************)
(* Whatever the crankers do to each other's submissions, the SOL reaches   *)
(* the heirs, also when a mint stays blocked for ever (markStuck).         *)
(***************************************************************************)
SolAlwaysPaid == due ~> (closed \/ (stage # "none" /\ solDue = {}))

(***************************************************************************)
(* Once mints stay unblocked the execution is finalised: a stuck mint is   *)
(* retried, a lost race is retried (crankVault, tick).                     *)
(***************************************************************************)
EstateFinalized == <>[](blocked = {}) => (due ~> stage = "executed")

(***************************************************************************)
(* The reason why finalisation waits for stuck mints: every mint that the  *)
(* vault held when the execution began is distributed once it stays        *)
(* unblocked, however often it failed before (shouldFinalize,              *)
(* cleanupExecutedVault).  A keeper that cleans up executed vaults has to  *)
(* keep trying: one with CLOSE_EXECUTED=0 never comes back to what a dead  *)
(* pass has left.  The app and the heirs finalise past a stuck mint and    *)
(* are left out, and so is a listing that another cluster has answered.    *)
(***************************************************************************)
Distributed ==
    \A m \in DistMints :
        <>[](blocked = {}) =>
            ((stage = "none" /\ due /\ m \in held) ~> (m \notin held \/ misread))

EveryMintDistributed ==
    (kind[Lead] = "keeper" /\ \A c \in Crankers : kind[c] \in Keepers \cup {"server"})
        => Distributed

------------------------------------------------------------------------------
(* What holds in every reachable state, and makes KeeperNeverOrphans       *)
(* inductive.                                                              *)

Shaped(x) ==
    x \in [pc : {x.pc}, mints : {x.mints}, todo : {x.todo}, next : {x.next},
           stuck : {x.stuck}, cleanup : {x.cleanup}, started : {x.started},
           fresh : {x.fresh}, steps : {x.steps}, progressed : {x.progressed},
           shown : {x.shown}]

\* Whatever the vault holds while a keeper is about to close it arrived after
\* the keeper's scan, or the scan was another cluster's.
ScanHolds(x) == x.pc = "close" => held \subseteq x.fresh

CrankInv ==
    /\ crank = [c \in Crankers |-> crank[c]]
    /\ \A c \in Crankers : Shaped(crank[c]) /\ ScanHolds(crank[c])
    /\ orphaned = {}
==============================================================================
