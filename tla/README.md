# Dead Man's Vault: a TLA+ verification project

Dead Man's Vault lets the owner of a Solana wallet leave SOL, tokens and NFTs to
beneficiaries. The owner deposits them in a vault and sends heartbeats. When the heartbeats
stop for an interval plus a grace period, anybody may crank the vault: the program pays the
beneficiaries step by step and closes itself. Around the program there are a keeper bot that
cranks, a notification server that warns owners and cranks too, a mobile app and a web app.

This directory holds TLA+ modules for the parts whose correctness is hard to test, TLC
configurations that check them on small instances, and TLAPS proofs for all instances.
`PROJECT.json` maps every definition to the source lines it models.

## Inventory

| Component | State | Operations | Hard because | What makes it correct |
|---|---|---|---|---|
| On-chain program (`dead-mans-vault/programs`) | PDAs VaultConfig, HeartbeatRecord, ExecutionLog, AssetPlan, one TokenDist per mint; lamports, ATAs | 21 instructions: set-up and edits (owner), heartbeat (agent), begin / pay / finalise / close (anybody) | owner and crankers race at the deadline; payouts come in any order, batch and repetition; addresses are reused by the next vault | the terms whose grace elapsed are the ones executed; every heir gets exactly the due amount; a debt is discharged once |
| Crankers: keeper bot (`keeper-bot/src`), executor of the notify server (`executor.js`), app (`ExecutionService.ts`), heirs (`ClaimService.ts`) | masks, mints and balances read earlier, stuck mints, the keeper's readiness verdict | a pass, a claim, clean-up, close | each acts on stale reads beside the others; a pass may die anywhere | every execution ends; no mint is left behind by a close or, while a closing keeper is at work, forgotten after a failure |
| Notify server: registrations (`registrationStore.js`, `registerAuthV2.js`, `registrationRoutes.js`, `transitionState.js`) | tables `registrations` and `used_nonces`; mode and expiry latch of the process | signed and legacy register / deregister, nonce pruning, restart | each request waits for an RPC between its checks and its write | only the owner's word, and the newest, decides where alerts go |
| Notify server: poller (`poller.js`, `escalation.js`, `fcm.js`, `db.js`) | notify state of a row, jobs under way | read vault, send push, delete row, run the executor | timeouts do not cancel; network verification flips; jobs overlap | no early alert and no silence; no row deleted on a wrong reading |
| Notify server: readiness and monitor (`readiness.js`, `server.js`) | flags for network, program, executor, poller, push transport | boot, monitor refresh, poll results | flags are the results of what they gate | a demotion is undone by what proves the contrary, and by nothing else |
| App: notification registration (`NotificationRegistrationService.ts`, `notificationLifecycle.ts`, `SettingsScreen.tsx`) | settings table, operation lock, observer's checks, what the screen shows | signed attempts, checks, revocation, token rotation | the server's answer and four local writes can each get lost | revisions rise; what was switched off stays off |
| App and web console: owner's transactions (`VaultTransactionService.ts`, `revokeVault.ts`, screens, `MyVaultView.tsx`) | agent key, vault store, reads under way, network verdict | set-up, edit, plan, withdraw, rotate, revoke, close | two consoles, several transactions per operation, lost confirmations | a revocation empties the vault first; the screens come back to what is on chain; the owner's wallet signs nothing for another cluster |
| App: escalation and execution run (`EscalationService.ts`, `useHeartbeat.ts`, `ExecutionService.ts`) | local heartbeat history, escalation store, progress mirror | evaluate, tap, run stage 4 | evaluations outlive the service that began them; runs are cut off | a living owner ends without alarm; the mirror is ahead of the chain by nothing but the run's own reverted transactions |
| App: portfolio and history (`usePortfolio.ts`, `PortfolioScanner.ts`, `ExecutionHistoryService.ts`) | balances, positions, caches, sessions | scans per wallet and hook, paging, grouping | scans are never cancelled; sources fail; pages end anywhere | the screen shows the connected wallet and adds up; sessions are the executions |
| Release tools, website | - | - | - | - |

Interaction: clients and crankers call the program by transactions (atomic, serialised by the
chain). The app registers with the notify server over HTTP. The poller reads the
registrations and the chain, pushes over FCM and calls the executor. Keeper, server, app and
heirs share nothing but the chain.

## Modules

| Module | Content |
|---|---|
| `Sums` | sums over index ranges as recursive functions, in the way the program's loops add |
| `VaultProgram` | the program: state, one action per instruction, environment, safety |
| `Distribution` | what an execution promises, as debts that are discharged: the abstract specification |
| `VaultLedger` | the refinement mapping from `VaultProgram` to `Distribution` |
| `VaultAudit` | `VaultProgram` composed with an auditor, the reference definition of who is due what |
| `Crank` | keeper, server, app and heirs as crankers over `Distribution` |
| `Registrations` | the registrations of the notify server |
| `Readiness`, `Poller` | readiness domains and push transport; the escalation poller on top of them |
| `NotificationClient` | the phone's half of registration |
| `OwnerTx`, `OwnerApp` | the owner's transactions and what the program makes of them; phone and web console that send them |
| `Escalation` | the phone's own escalation and its execution run |
| `Portfolio`, `ExecutionHistory` | what the phone builds from indexers and price feeds |
| `MC...` | instances for TLC |
| `VaultProgramProofs`, `VaultEstateProofs` | proofs about `VaultProgram` and `VaultLedger`: sums, types, lifecycle and refinement; then solvency, and with `VaultAudit` what every heir gets |
| `RegistrationProofs`, `PollerProofs`, `EscalationProofs`, `OwnerProofs`, `CrankProofs`, `ClientProofs` | proofs about `Registrations`, `Poller`, `Escalation`, `OwnerApp`, `Crank`, `NotificationClient` (and the total of `Portfolio`) |

### VaultProgram

An instruction is one atomic action: its guard is the conjunction of its `require!`s and
account constraints, its effect all of its writes. A failed instruction changes nothing and is
not an action. PDAs are records or `NoAccount`; `lamports` is the balance of the VaultConfig
PDA, rent included; `ata[m]` is the vault's token account of mint `m`; `sol` and `tokens` are
what everybody else holds. Bit masks are sets of indices, which start at 1. Saturating
subtraction is `SatSub`; the only 64-bit limit that can be met, the checked additions of
`deadline()`, is the constant `I64Max`.

External steps are deposits, ATA creation, the clock and mint issuers who freeze or thaw
(Token-2022 pausing, frozen accounts). Left out: events and logs, the rent of PDAs other
than the vault, transfer fees and hooks, seeds and discriminators (one owner, whose PDAs are
distinct by construction). An NFT is a mint with a bequest of one unit.

`ZombieSpec` starts from what an older version of the program could leave: a revoked vault
whose account still exists, which `close_revoked_vault` is there to clean up. `LifeSpec` starts
from either; the zombie of the run `life` has a deadline beyond the clock.

### VaultAudit

When an execution or a token distribution opens, the auditor copies the ledger. From that copy
alone it computes what each heir is due: bequests in plan order until the estate is exhausted,
then pro-rata shares of what remains after the bounty, then the rounding remainder to the
largest share. The instructions get to their payouts by snapshots, masks and clamps that
interleave; `HeirsPaid` compares the two when the accounts close. It looks at heirs that neither
deposit nor crank nor receive rent, so that what their accounts gain is what the vault paid. If the
vault is named as its own heir, its share never leaves it and is part of the remainder. A
distribution that is opened again after bequests of its mint were paid is not `whole`: its
bequests were judged by the copy before, and only its snapshot is compared.

### Distribution and the refinement

`Distribution` has no balances and no clock: an execution begins with its debts (SOL shares,
bequests), a debt is discharged once and never comes back, finalisation waits for both, a
mint's residual is opened and closed in full, the core accounts go last. The run `token` checks
`Distributes`, that every behaviour of `VaultProgram` is one of `Distribution` under the mapping
of `VaultLedger` (a debt is an index that its mask leaves open). `Crank` is written against
`Distribution`, so that what it shows of the crankers rests on what is shown of the program.

### Crank

A cranker is one record: where it is in its pass and what it remembers of its reads. Each RPC
read, each submission and each wait is a step; a submission succeeds or reverts by the state
the chain has then. The kinds differ as their sources differ: the keeper revalidates
its readiness before each submission, cleans up and closes after its anti-orphan scan; with
`CLOSE_EXECUTED=0` it never returns to an executed vault (`crankOnly`); the
server aborts when its guard is withdrawn and caps the mints that no bequest names; the app
runs once and finalises past stuck mints; an heir in the app or in the browser signs the
transactions of one reading one after another and reads again, at most `MaxPasses` times. A pass that dies forgets
everything (`faults`). A keeper whose process exits is started again by its supervisor and is
idle. Only submissions ask for the genesis, so while another cluster answers, keeper and server
take its empty listings for the vault's (`AnsweredElsewhere`, remembered in `misread`). The app and
the heirs count a transaction that landed and reverted as done (`AppReverts`, `Sent`).
Simplifications: readings of the app and the heirs come from the vault's cluster; one vault; all shares of a mint are paid in one step; a claim's
build is one reading; the owner's heartbeat is past (`due` does not go back, but the owner may
return and close an executed vault). The cap on automatic mints is in the
model and is not reached with one mint: beyond it the code leaves mints to a claim, by design.

### Registrations

A request handler suspends in one place, the ownership lookup over RPC. It is one step up to
there (mode, window, freshness, signature, PDA) and one step from the answer to the end of its
SQLite transaction, which runs without an `await`. Handlers under way are in `slots`; other
requests, the prune timer, restarts and the clock act between the two steps. Signed messages,
once sent, can be delivered at any time and any number of times. A restart keeps the database,
loses the handlers and may bring another authentication mode. The lookup's answer is
arbitrary: a vault may vanish and come back. The clock can be set back once.

Left out: rate limits (they only refuse), stage durations and metadata of a row (they come
with the token in one statement), rows deleted by the poller (`Poller` has them).

### Readiness and Poller

`Readiness` has the `ReadinessState` singleton with its setters, `fcmState`, boot and monitor.
A refresh (network, push token, program, executor) is one step. In `Poller`, a job is one run of
`processRegistration`, from `await` to `await`, on the row that its tick read. `Timeout` clears
its `live` flag and does nothing else, as `withTimeout`; the job goes on. `/execute-now` is a job
that goes to the executor directly; a job started by `/poll-now` differs from the timer's only in
that it does not report to readiness. `silence` is the time since the last heartbeat on chain,
`elapsed` what a job computed from its tick's clock, `delivered` the last alert that the phone
got. Other vaults of a cycle appear as failing ticks and as timeouts. One assumption on the
endpoint: an outage that made the vault look gone lasts until the program probe that follows.
`/health` and the admin status are views of this state.

### NotificationClient

An attempt (register or deregister) holds the operation lock and stops at the wallet, at the
request and at each write of the settings table; a check of the observer stops between its reads.
`late` is a request that the phone gave up on and that the server may still get. `told` and `used`
are history: what the server confirmed last and the highest revision sent. A restart keeps
the settings table only. The server's side is the row, with the revision rule that
`Registrations` has in detail. Reads of the local table do not fail, writes may.

### OwnerTx and OwnerApp

`OwnerTx` has a transaction for each that `VaultTransactionService.ts` builds, and the program's
effect on what its owner sees of it (no amounts, one bequest). `OwnerApp` has the handlers: an
operation is a list of transactions, signed, sent and confirmed one after the other, and a last
step; each may be declined, refused or land unconfirmed, which ends the operation, or land and
revert (`Reverts`), which nobody notices. Every reading of the chain is one step and what is
done with it a later one: handlers that wait for the RPC (`handleRegister`, `revokeVault`, a saved
edit, a registration that is over) are suspended in between (`Asks`, `Answered`), while the web console, crankers and the other reads go on. The phone
also has the agent key in the secure store, the vault store with its revoked flag and reads under
way; both consoles have the verdict on the network. Crankers and strangers act in between.

### Escalation

Heartbeats are ages that stop at `MaxAge`, so the clock has no bound. An evaluation reads the
history, waits and acts; a service replaced by the hook finishes what it had begun. The run of
stage 4 works through the steps of the vault and writes the mirror; a step whose transaction landed and
reverted is marked like a paid one (`StepReverts`, remembered in `run.reverted`). Simplifications: the phone's
clock is the chain's; time does not pass while a reading is held or a run sends; local reads do
not fail; a mint's shares and its close are one step; notification texts and the push flag are left
out; `startOnChainMonitoring`, which nothing calls, is left out.

### Portfolio and ExecutionHistory

A scan belongs to the wallet that was connected when it started and is never cancelled. Each
source may be down when it is asked; a priced token and a valued position count one.
`ExecutionHistory` computes pages, sort and sessions for histories of the transactions that owner and
crankers send, block times in whole seconds included: those that the program accepts and, up to `MaxReverted` of them,
execution instructions that landed and failed, which the indexer lists as well. Amounts and labels are
left out, and a keeper's `close_executed_vault`, for which the code has no name, is skipped as in
the code. The two share no state and are checked in one run without their interleavings.

## Runs

Every run finishes within five minutes with two workers. `CHECK_DEADLOCK FALSE` is set in all but
`portfolio` and `phone`, because clocks, operations and faults are bounded and everything may
legitimately be over.

| Run | Checks | Shows |
|---|---|---|
| `life` | `TypeOK`, `AccountsTogether`, `LogProvesGrace`, `DeadlineNeverOverflows`, `PlanIndicesInRange`, `ExecutionTermsFrozen` | two vault lives, valid and invalid inputs, all edits against the first crank at the deadline |
| `sol` | `SolSolvent`, `EstateOnlyToHeirs`, `HeirsPaid` | SOL executions with bequests, bounty, rounding, underfunding, late transfers, a wallet named twice |
| `token` | `TokenSolvent`, `OpenDistsCounted`, `HeirsPaid`, `Distributes` | bequests and residual of one mint, freezing, late deposits, re-opened distributions; the refinement |
| `crank` | `KeeperNeverOrphans`, `SolAlwaysPaid`, `EstateFinalized`, `EveryMintDistributed` | two crankers on one vault: every execution ends, also where a crank-only keeper and an heir are alone; a closing keeper and the server forget no mint, except by a listing of another cluster |
| `register` | `RowsOwnedByPda`, `SignedRowsAuthentic`, `PrunedNonceIsStale`, `SignedRowsSticky`, `RevisionNeverBack`, `LegacyStaysClosed` | two handlers at a time, two signed requests and legacy ones, all three modes |
| `poll` | `AlertsNotEarly`, `OnlyOverRowsDropped`, `OnlyASendRestoresFcm` | two jobs on one row, the executor, an endpoint that lies |
| `alerted` | `OwnerAlerted`, `PollerRecovers` | liveness of the poller through outages, failing pushes and crashes |
| `client` | `DisabledStaysOff`, `RevokedStaysOff`, `RevisionsRise` | the phone's registration against lost, late and half-recorded answers |
| `owner` | `OwnerWritesVerified`, `StoreCatchesUp`, `RevokeEmptiesVault` | phone and web console of one owner, crankers and strangers; late reads show a closed vault for a while and not for ever; a revocation leaves only what its reverted batches were to take |
| `portfolio` | `TotalMatchesLists`, `ShowsConnectedWallet`, `SessionsMatchExecutions` | overlapping scans over wallet switches; every history of up to five transactions, one of them reverted |
| `phone` | `MirrorTruthful`, `TapKeepsMonitoring`, `AlarmClears` | evaluations against the heartbeat button, runs cut off or misled by a reverted transaction, a second vault |
| `zombie_log` | `LogProvesGrace` (violated) | see Findings |

### Bounds

- Vault runs: one owner, one payer, two beneficiary wallets, at most two beneficiaries and two
  bequests, at most one mint. Two is the smallest number at which order, batching, the
  largest-share rule and same-mint precedence matter; mints do not interact except through
  `open_token_dists`, whose count is proved for every set of mints.
- Amounts of 1 and 3 against shares of 3333/6667 and 5000/5000 basis points give rounding dust,
  shares that round to zero, exhausted and underfunded bequests. Rent, fee and bounty are 1.
- Interval and grace are 1 or 2 and `MaxTime` is 3 or 4: a heartbeat, the deadline, one tick
  after it and the close delay. `I64Max` is 7, and the input 9 is an interval that overflows.
- `register`: one vault, its owner and a stranger; three bodies (two tokens, revisions 1 and 2,
  one revision twice), two nonces, two handlers. The window is 1, the prune age 2, the phone's
  clock one ahead (the extreme that the freshness check accepts), and `MaxTime` 5 lets a nonce
  be used, expire and be pruned. Handlers and nonces are symmetric and occur in no ordered
  expression, so symmetry is sound for the safety properties checked with it.
- `crank`: one mint that can be blocked and refilled, two beneficiaries, a plan of SOL and that mint or
  none, one fault (a dead pass, a reverted transaction that is counted, an endpoint that falls silent or becomes another cluster's, a misreading of the server).
  The pairs are the keeper with the server and with the app, a crank-only keeper with an heir, and a browser claim
  with the server: two crankers are enough for one to overtake the other at any point. An heir beside a closing
  keeper passes as well, but takes the run to the time limit; it is not part of the instance.
- `poll`: two jobs; stages and interval are one unit and the clock reaches the deadline; the endpoint
  is good, pruned, or another cluster's (one that is down withdraws the network in the same way
  as the last). Jobs are symmetric. The view leaves out the fields of readiness that no guard
  reads. `alerted`: one job, no view, the endpoint good or down, the executor off; two jobs
  are beyond TLC's liveness checking in this time.
- `client`: two tokens, two checks of the observer, two revisions, one fault, two vaults.
- `owner`: two assets, batches of one instruction, one list of two heirs, two agent keys, two operations
  (of owner or strangers) and one fault; more than a million states.
- `portfolio`: two wallets, two mounted hooks, three patterns of outage, of which one scan meets one; pages
  of two, two pages, five transactions, one of them reverted, so that a history ends in, at and beyond a page.
- `phone`: interval 1, stages that end at 2, 3 and 4; two vaults; one replaced service that still
  evaluates; one rare event (a failed call, a lost confirmation, a death of the app, a new vault) and
  one reverted transaction in a run.

### Fairness

- `crank`: weak fairness of the steps of one keeper or one heir who keeps trying (the
  loop of `keeper-bot/src/index.js`; the claim button), of the endpoint's recovery and of the close
  delay. Nothing is assumed of the other cranker, the owner, depositors and issuers;
  properties that need thawed mints say so.
- `alerted`: weak fairness of boot and monitor, of the clock and of the jobs (timers fire and awaits
  return, because each has a deadline); strong fairness of the timer's polls, of a read that
  succeeds, of the executor's end and of an accepted push: they are retried for ever
  and do not fail for ever.
- `portfolio`: refreshes are on an interval and scans end, since every source is awaited with a
  result or an error.
- `owner`: the owner keeps opening the screens that read the vault (dashboard, wizard, connection), and a
  read that is under way is answered and applied. `OwnerSpec`, which the theorems are about, assumes neither.
- `phone`: the loop ticks, evaluations end, and the owner keeps returning to the dashboard, which loads
  the vault.

## Findings

`zombie_log`: the ExecutionLog of a zombie vault survives `close_revoked_vault`; the vault
initialised next stands beside a log although no grace has elapsed.

### Disagreements

Met while modelling; they have no run of their own, and the properties are stated so as not to
cover them.

On chain:
- Both core closes gate on `open_token_dists`, which a mint that was never begun does not raise; its
  balance is orphaned (`close_executed_vault.rs:75` against `:17-18`, `AUDIT-SCOPE.md:118`). The keeper
  has a scan of its own for this, and `KeeperNeverOrphans` is about that scan.
- The vault's own address is accepted as a beneficiary; such a vault is never finalised
  (`initialize_vault.rs:81`, `execute_sol_shares.rs:64` against `AUDIT-SCOPE.md:116`).
- A bequest stores an index: after `update_vault` replaces the list it may name somebody else
  (`update_vault.rs:78-82`, `BequestsScreen.tsx:72`).

Crankers:
- With `CLOSE_EXECUTED=0` the keeper passes over executed vaults because "Its distribution already completed"
  (`index.js:195-196`); a pass that died after `finalize_execution` left token shares unpaid, and no later
  tick of that keeper pays them. `EveryMintDistributed` is about teams led by a closing keeper.
- Before a submission the keeper asks for the genesis, before a reading it does not: an empty listing of
  another cluster counts as "no tokens" in `collectMints` (`crank.js:178-212`), so that finalisation goes past the mints,
  and in the anti-orphan scan (`crank.js:223-231`), so that a close that follows once the endpoint is
  right again orphans them. `executor.js:218-270` lists in the same way. `KeeperNeverOrphans` and
  `EveryMintDistributed` except listings of another cluster; `SolAlwaysPaid` and `EstateFinalized` do not.
- The app marks a landed transaction as done without looking at its error (`VaultTransactionService.ts:229-233`), and so
  does a claim (`ClaimService.ts:145`): a pass of the app may end with a step undone, and a claim may count a
  revert as progress.
- A distribution of a zero balance is left open by the keeper (`crank.js:546-547`), and the core close waits for it.
- Mints beyond the cap on automatic mints do not count as stuck, so finalisation goes past them
  (`executor.js:260`). The app finalises past a stuck mint (`ExecutionService.ts:95-103`).
- A claim says "All beneficiaries have received their assets" (`InheritancesScreen.tsx`) after a pass
  whose transfers may have been taken by, or left to, others.
- After a failed run on the phone nothing re-enters stage 4 (`ExecutionService.ts`), although
  `NotificationService.ts:170` says "It will resume automatically".

Notify server:
- Freshness is judged before the ownership lookup and the nonce is claimed after it. A request dated
  a window ahead is fresh until its nonce is two windows old, so a replay that starts in the
  last second and waits while the timer prunes is applied (`registerAuthV2.js:164` against
  `server.js:93-94`).
- The legacy window is checked before the lookup only, so a legacy row can be written after the expiry
  was latched (`registrationRoutes.js:148` against `transitionState.js:3-4`).
- A dead token deletes the row also if the owner has registered a new device since (`poller.js:232`).
- A registration that arrives late re-creates the row after the deregistration that followed it.

App and web:
- `confirmTransaction` resolves with the error of a transaction that landed and reverted, and no caller reads `value.err`
  (`revokeVault.ts:151-154` and `:204`, `VaultTransactionService.ts:229-233`, `ClaimService.ts:145`, `ownerTx.ts:29` of the web app). A
  revocation, which is to "withdraw assets + revoke on-chain" (`revokeVault.ts:133`), therefore sends its closing batch after a
  withdrawal that failed, and the assets stay behind; if it is the closing batch that reverts, the phone
  destroys the agent key and hides, behind its revoked flag, a vault that is still active. In the mirror of a
  run such a step shows as completed (`ExecutionService.ts:242-259`).
- The execution log never looks at a transaction's error (`ExecutionHistoryService.ts:157-167`): reverted payments show
  as steps, and a `begin_execution` that lost a race starts a session of its own (`:230-235`).
- Registering, starting over and disconnecting lower the revoked flag while a read of the old vault may still
  be under way; its answer shows the closed vault until the next read. `StoreCatchesUp` says no more than that
  this ends. Heartbeat, agent refund and the phone's own crank, signed by the agent's key, pass no network gate
  (`VaultTransactionService.ts:276-280`, `ExecutionService.ts:54-59`); `OwnerWritesVerified` is about the owner's wallet.
- `handleCloseExecuted` and `SetupWizard.handleRevoke` never call `reconcileNotificationsAfterClose`.
- `useHeartbeat` takes any record, a tombstone too, for an active registration (`setFcmActive(!!record)`).
- A re-enable drops the session's guard before it is signed; if the owner then turns it down, an
  unrecorded deregistration has no guard left (`SettingsScreen.tsx:234`).
- A failed refund of the agent key is swallowed before the key is destroyed (`revokeVault.ts`), and a rotation
  replaces the stored key before the new one is on chain.
- A registration that landed unconfirmed after a revocation leaves the revoked flag set; a failed
  read of the dashboard clears the vault that is shown.
- The web console says "all rent and assets return to you" (`MyVaultView.tsx:365`), while
  `buildRevokeVaultTx` leaves tokens in the vault's ATAs.
- Within one second the newest transaction stays first, so that an execution may be shown as two sessions.
- A DeFi refresh overwrites the actions that the owner chose; NFT metadata whose image failed is
  cached for ever; the price cache is keyed by symbol.

## Proofs

TLAPS checks every theorem down to its leaves, for all values of the constants that satisfy the
named assumptions. Each inductive invariant was first checked by TLC on the instance of its run
(`BooksInv` on those of `sol` and `token`, where every state satisfies it). Proofs have one lemma per action, and the theorem puts them together.

### Assumptions

- `BoundsAssumption`, `InputsAssumption`, `KeysAssumption`, `NoAccountAssumption` (program): types of
  the inputs, distinct keys, finitely many mints. `MaxTime + MaxInterval + MaxGrace <= I64Max` says
  that the clock has not run out of i64. `DebtsAssumption`: the marker of an absent account is no set
  of indices, so that the mapping can tell a mint that is closed from one without debts.
- `RegistrationAssumption`, `PruneAgeAssumption` (the horizon is at least two windows, as in
  `server.js`), `SentinelAssumption`.
- `ReadinessAssumption`, `PollerAssumption`: thresholds and times are natural numbers and stages last (the
  server rejects durations that are not positive). The model takes the stages of the row to add
  up to the grace of the vault: the app registers them so, the server does not compare them.
- `EscalationAssumption`: stages end one after the other, and there is a vault.
- `OwnerTxAssumption`, `OwnerAppAssumption`: finitely many assets, batches of at least one instruction, a
  vault has an heir. `CrankAssumption`: plans within the program's limits.
- `ClientAssumption`: the bounds are numbers, and the marker of an absent record is no record.

### Program

- `TypeCorrect`: no debit of any instruction drives a balance below zero. The facts on sums that the
  batch payouts need come first; each instruction has a lemma of its own.
- `LifecycleInvariant`: `LifecycleInv` is inductive. `LogProvesGrace` alone is not: that an owner's
  instruction cannot run beside a log needs `NotFrozen` to contradict `GraceElapsed`, that a new
  vault does not meet an old log needs `AccountsTogether`, that needs the close gate, and the gate
  needs `OpenDistsCounted` (with `open_token_dists` 0 there is no TokenDist). From it follow
  `AccountsStayTogether`, `LogAlwaysProvesGrace`, `DeadlineSafe`, `PlansInRange`,
  `DistsCounted` and `TermsFrozen`.
- `ImplementsPromise`: every step of the program is a step of `Distribution` or leaves its variables
  alone. A close may forget debts unless there are none, so `LedgerInv` adds to `LifecycleInv`
  that an executed vault owes no SOL and no bequest (`DebtsSettled`), and that plans are short
  enough for the indices of the mapping (`PlanShort`).
- `SolvencyInvariant`: `SolvencyInv` is `LedgerInv` and both solvencies. The payouts round down one by
  one and the remainder goes to the largest share, so what matters is that the shares of a snapshot
  never add up to more than the snapshot, that a payout takes from what is owed what it takes from the
  balance, and that the snapshot was taken net of bequests, bounty and rent. `SolAlwaysSolvent` and
  `TokensAlwaysSolvent` follow; `EstateGoesToHeirs` uses the same lemmas to say where a
  payout goes.
- `EveryHeirPaid`: `HeirsPaid` relates the two ends of an execution, so what happens in between has to
  be said at every step. `BooksAlwaysBalance` proves `SolvencyInv` and `BooksInv` together. Of each asset
  whose distribution is open, `BooksInv` says that
  - the snapshot is what the reference leaves after bequests and bounty. No clamp of
    `begin_execution` or `begin_token_dist` shows in it;
  - the bequests paid so far are a prefix in plan order of those of that asset
    (`LowerIndexSameMint`). Only then does clamping a bequest to what the vault holds grant the
    same as serving the bequests in order from the opening estate;
  - the vault holds what is left of the estate by that count (`ShouldHold`), and every heir has gained
    the bequests and shares whose bits are set (`GrantedTo`, `SharedTo`): exactly so
    if nothing arrived late, at least that otherwise (`Agrees`).

  The argument has four parts. The recursive function `LeftOf` is shown to be the estate less a prefix
  sum (`LeftIs`; the induction is over an interval, with a set in place of a predicate). Each
  payout moves the same amount on both sides of the books: by one bequest, or by a batch
  of shares in which one wallet may occur several times. Every other instruction leaves terms, masks and
  balances of an open distribution as they are, or only adds to them. And at the close all bits
  are set, so that the vault is left with the rounding remainder, which `ClosePays` follows to the largest share.
  `SolvencyInv` is needed beside the books: it gives the types, that terms do not change while a distribution
  is open, that no share of the snapshot is clamped, and that a close finds every debt settled.

### Notify server

- `AdmissionInvariant`: `AdmissionInv` says of every handler under way what its admission
  checked, and of nonces that they identify requests. `PrunedNonceIsStale` is not inductive: a
  request dated too far ahead is stale now and fresh later. The invariant says instead that a
  pruned request is dated more than a window ago (`PrunedLongAgo`), which holds because a nonce is
  recorded with the clock of its admission and the horizon is two windows. From it follow
  `RegistrationTypeCorrect`, `OwnersNeverShutOut`, `PruningIsSafe`, `StickyRows` and `RevisionsGrow`, the
  last two through `RowChanges`, the three ways in which a row can change; `RowsAuthentic`
  (a handler's message was signed and messages are never forgotten) and `LegacyClosed`.
- `PollerInvariant`: `AlertsNotEarly` says nothing of pushes under way. `JobSound` does: a job's clock
  is not ahead of the silence, its stage is one that the silence has reached unless the job is marked stale
  by a heartbeat, a completion is of a vault that is over, and a job that probes the program because it
  missed the vault is right if the endpoint is good. `AlertsInTime` and `OwnersKept` rest on these;
  `RejectionHolds` on `RejectedNotReady`.

### Crankers

- `CrankInvariant`: whatever the vault holds while a keeper is about to close it arrived after that
  keeper's scan, or another cluster answered that scan (`ScanHolds`), whatever the other crankers, issuers and
  depositors did since. Hence `NothingOrphaned`, for any team, plan and set of mints.

### App and web

- `ServicesOrdered`: `TapKeepsMonitoring` breaks if an evaluation that began before the loop stopped
  lowers the stage afterwards. `EvaluationsOrdered` orders the readings of replaced services, of
  the current one and of the history as it stands; `StoppedAtFour` says that after the stop only
  readings of stage 4 are left. Hence `MonitoringKept`. `MirrorAheadByReverts` is inductive with the
  types: the run's vault is never later than the chain's.
- `OwnerInvariant`: `GateHolds` for `WritesStayHome`, and for
  `RevocationEmpties` that the batches left of a revocation withdraw everything still listed, but what
  reverted batches were to take, and that only the last one closes (`RevokesLast`), for every number of assets and every batch size.
- `ClientInvariant`: the watermark is ahead of every revision sent (`RevisionsKept`), a recorded
  deregistration is in the record or pending (`OffRecorded`), and a check that may still report has seen
  both it and a close (`CheckSound`). Hence `RevisionsAlwaysRise`, `OffStaysOff`, `ClosedStaysOff`.
- `TotalAddsUp`: `Totalled` (the shape of the store, and that it adds up) is inductive, because both setters
  count both lists anew; what a scan found, and for which wallet, does not matter. It stands in
  `ClientProofs` beside the phone's other asynchronous writer, and needs no assumption.

### Only model-checked

- Liveness (`SolAlwaysPaid`, `EstateFinalized`, `EveryMintDistributed`, `OwnerAlerted`, `PollerRecovers`,
  `StoreCatchesUp`, `ShowsConnectedWallet`, `AlarmClears`): fairness and `ENABLED` are beyond the prover.
- `SessionsMatchExecutions`: sorting and grouping are folds over the whole history, and what they
  compute for every history would be an induction over data with an operator as parameter. The
  run walks every history of up to five transactions.

## Plan

Done: program, auditor, registrations; abstract specification, crankers, poller and readiness; the
phone's registration, owner's consoles, escalation, portfolio and history; the theorems above.
Left: nothing that the tools reach. Two mints that compete for one pass (the cap on automatic mints)
would be the next extension of `Crank`.

## Not modelled

Rate limiter and metrics (they refuse requests or count them); configuration parsing and the secret
gates; `/health` and the status routes as text; sanitising and fatal-guard messages; message
encodings and cryptography (signatures are perfect), `registerAuth.js` (no route reaches it); generated
IDL files and the byte parsers of accounts; compute budgets and priority fees; the one-time
key migration; notification texts and schedules; deposit forms and other layout, themes, price history;
RPC proxy, release tools and website. `PROJECT.json` has the reason for each component.
