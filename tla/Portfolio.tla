------------------------------ MODULE Portfolio ------------------------------
(***************************************************************************)
(* The portfolio of the connected wallet on the phone: usePortfolio.ts and *)
(* its two mounted copies (Dashboard and Assets), PortfolioScanner.ts, the *)
(* DeFi detectors and usePortfolioStore.ts.                                *)
(*                                                                         *)
(* A scan is one asynchronous job per copy and kind.  It belongs to the    *)
(* wallet that was connected when it started and is never cancelled; each  *)
(* source that it asks may be down when the answer is needed.  Every       *)
(* priced token and every valued position counts one.                      *)
(***************************************************************************)
EXTENDS Naturals, FiniteSets

CONSTANTS
    Wallets, Hooks,
    SOL,
    Nfts, Token2022,      \* tokens without a price; tokens of the second token program
    Holds,                \* tokens of a wallet besides SOL
    DefiMint,             \* protocol of a token that stands for a position
    Accounts,             \* protocols in which a wallet has a position account
    Hints,                \* protocols of a wallet's recent transactions
    PythFeeds, JupiterFeeds,
    Outages,              \* sets of sources that may be down together
    MaxOutages,           \* scans that meet an outage
    Absent

ASSUME PortfolioAssumption == Absent \notin Wallets /\ MaxOutages \in Nat

VARIABLES
    wallet,       \* connected wallet
    last,         \* the last wallet that was connected
    bal, defi,    \* scans under way: the wallet, and the balances handed to the detectors
    shown,        \* what usePortfolioStore holds
    prices,       \* priceCache
    noFeed,       \* pythNoFeedSet
    meta,         \* nft_meta
    outages       \* scans that met one

vars == <<wallet, last, bal, defi, shown, prices, noFeed, meta, outages>>

Empty == [of |-> Absent, held |-> {}, priced |-> {}, positions |-> {}, total |-> 0]

Meets(down) ==
    IF down = {} THEN UNCHANGED outages
    ELSE outages < MaxOutages /\ outages' = outages + 1

------------------------------------------------------------------------------
(* Balances and prices.                                                    *)

fetchViaDAS(w) == Holds[w]

TokenAccounts(w, down) ==
    {t \in Holds[w] : (IF t \in Token2022 THEN "token2022" ELSE "legacy") \notin down}

getTokenBalances(w, down) ==
    {SOL} \cup IF "das" \in down THEN TokenAccounts(w, down) ELSE fetchViaDAS(w)

\* Names are cached for good, those without an image too.
resolveNftMetadata(mints) == meta \cup (mints \cap Nfts)

Cached(held) == (held \ Nfts) \cap prices
resolvePythFeedIds(held) == (held \ Nfts) \ (prices \cup noFeed)

enrichWithPythPrices(held, down) ==
    IF "pyth" \in down THEN {} ELSE resolvePythFeedIds(held) \cap PythFeeds

enrichWithJupiterPrices(held, found, down) ==
    IF "jupiter" \in down THEN {} ELSE ((held \ Nfts) \ found) \cap JupiterFeeds

enrichWithPrices(held, down) ==
    LET found == Cached(held) \cup enrichWithPythPrices(held, down)
    IN  found \cup enrichWithJupiterPrices(held, found, down)

\* Pyth answered, and knows no such symbol.
WithoutFeed(held, down) ==
    IF "pyth" \in down THEN noFeed ELSE noFeed \cup (resolvePythFeedIds(held) \ PythFeeds)

------------------------------------------------------------------------------
(* DeFi positions.  A position that is a token of the wallet is valued     *)
(* with the balances; the others are valued by the price of SOL.           *)

ByMint(p, held) ==
    {[protocol |-> p, account |-> t, real |-> TRUE, token |-> TRUE] :
        t \in {t \in held \cap DOMAIN DefiMint : DefiMint[t] = p}}
ByAccount(p, w, down) ==
    IF p \in Accounts[w] /\ p \notin down
    THEN {[protocol |-> p, account |-> p, real |-> TRUE, token |-> FALSE]} ELSE {}

detectLiquidStaking(held) == ByMint("jito", held)
detectJupiter(held) == ByMint("jupiter", held)
detectKamino(w, held, down) == ByMint("kamino", held) \cup ByAccount("kamino", w, down)
detectRaydium(w, held, down) == ByMint("raydium", held) \cup ByAccount("raydium", w, down)
detectNativeStake(w, down) == ByAccount("native_stake", w, down)
detectOrca(w, down) == ByAccount("orca", w, down)
detectMeteora(w, down) == ByAccount("meteora", w, down)
detectMarginFi(w, down) == ByAccount("marginfi", w, down)
detectViaHelius(w, down) ==
    IF "helius" \in down THEN {}
    ELSE {[protocol |-> p, account |-> w, real |-> FALSE, token |-> FALSE] : p \in Hints[w]}

deduplicate(found) ==
    {p \in found : p.real \/ ~\E q \in found : q.real /\ q.protocol = p.protocol}

detectAll(w, held, down) ==
    deduplicate(detectLiquidStaking(held) \cup detectJupiter(held)
                \cup detectKamino(w, held, down) \cup detectRaydium(w, held, down)
                \cup detectNativeStake(w, down) \cup detectOrca(w, down)
                \cup detectMeteora(w, down) \cup detectMarginFi(w, down)
                \cup detectViaHelius(w, down))

\* Only stake accounts report an amount of SOL.
Valued(positions, priced) ==
    {[protocol |-> p.protocol, account |-> p.account, real |-> p.real, token |-> p.token,
      value |-> p.protocol = "native_stake" /\ p.real /\ SOL \in priced] : p \in positions}

------------------------------------------------------------------------------
(* The store.                                                              *)

Counted(positions) == {p \in positions : ~p.token /\ p.value}

\* Mutant: the total forgets the positions until they are detected again.
setBalancesAlone(w, held, priced) ==
    [shown EXCEPT !.of = w, !.held = held, !.priced = priced, !.total = Cardinality(priced)]

setBalances(w, held, priced) ==
    [shown EXCEPT !.of = w, !.held = held, !.priced = priced,
                  !.total = Cardinality(priced) + Cardinality(Counted(shown.positions))]
setDefiPositions(positions) ==
    [shown EXCEPT !.positions = positions,
                  !.total = Cardinality(shown.priced) + Cardinality(Counted(positions))]

------------------------------------------------------------------------------
(* The hook.                                                               *)

\* A copy that is still refreshing ignores the call.
Launched(scans, w, arg) ==
    [h \in Hooks |-> IF scans[h] = Absent THEN [of |-> w, given |-> arg] ELSE scans[h]]

\* Mount or wallet switch: everything known of another wallet goes, and the
\* copies that are idle scan at once.
Connect(w) ==
    /\ wallet # w
    /\ wallet' = w /\ last' = w
    /\ shown' = IF last \notin {Absent, w} THEN Empty ELSE shown
    /\ bal' = Launched(bal, w, Absent)
    /\ defi' = Launched(defi, w, shown'.held)
    /\ UNCHANGED <<prices, noFeed, meta, outages>>

Disconnect ==
    /\ wallet # Absent /\ wallet' = Absent
    /\ UNCHANGED <<last, bal, defi, shown, prices, noFeed, meta, outages>>

\* Mutant: the timers are not armed again.
NoInterval(h) == FALSE

\* The timers, and pull to refresh.
refreshBalances(h) ==
    /\ wallet # Absent /\ bal[h] = Absent
    /\ bal' = [bal EXCEPT ![h] = [of |-> wallet, given |-> Absent]]
    /\ UNCHANGED <<wallet, last, defi, shown, prices, noFeed, meta, outages>>

refreshDefi(h) ==
    /\ wallet # Absent /\ defi[h] = Absent
    /\ defi' = [defi EXCEPT ![h] = [of |-> wallet, given |-> shown.held]]
    /\ UNCHANGED <<wallet, last, bal, shown, prices, noFeed, meta, outages>>

\* The scan's bookkeeping of prices and names.
Learns(held, down) ==
    /\ prices' = prices \cup enrichWithPrices(held, down)
    /\ noFeed' = WithoutFeed(held, down)
    /\ meta' = IF "das" \in down THEN resolveNftMetadata(held) ELSE meta

\* What is shown stays when the RPC is down.
FinishBalances(h, down) ==
    /\ bal[h] # Absent /\ Meets(down)
    /\ bal' = [bal EXCEPT ![h] = Absent]
    /\ IF "rpc" \in down
       THEN UNCHANGED <<shown, prices, noFeed, meta>>
       ELSE LET held == getTokenBalances(bal[h].of, down) IN
            /\ shown' = setBalances(bal[h].of, held, enrichWithPrices(held, down))
            /\ Learns(held, down)
    /\ UNCHANGED <<wallet, last, defi>>

\* Without balances the detectors' caller reads its own; when that fails,
\* nothing was detected.
Detected(scan, down) ==
    IF scan.given # {} THEN detectAll(scan.of, scan.given, down)
    ELSE IF "rpc" \in down THEN {}
    ELSE detectAll(scan.of, getTokenBalances(scan.of, down), down)

FinishDefi(h, down) ==
    /\ defi[h] # Absent /\ Meets(down)
    /\ defi' = [defi EXCEPT ![h] = Absent]
    /\ shown' = setDefiPositions(Valued(Detected(defi[h], down), shown.priced))
    /\ IF defi[h].given = {} /\ "rpc" \notin down
       THEN Learns(getTokenBalances(defi[h].of, down), down)
       ELSE UNCHANGED <<prices, noFeed, meta>>
    /\ UNCHANGED <<wallet, last, bal>>

\* PRICE_CACHE_TTL_MS after the last scan.
PricesExpire ==
    /\ prices # {} /\ prices' = {}
    /\ UNCHANGED <<wallet, last, bal, defi, shown, noFeed, meta, outages>>

------------------------------------------------------------------------------

PortfolioInit ==
    /\ wallet = Absent /\ last = Absent
    /\ bal = [h \in Hooks |-> Absent] /\ defi = [h \in Hooks |-> Absent]
    /\ shown = Empty /\ prices = {} /\ noFeed = {} /\ meta = {} /\ outages = 0

ScanEnds(h) == \E down \in Outages : FinishBalances(h, down) \/ FinishDefi(h, down)
Refresh(h) == refreshBalances(h) \/ refreshDefi(h)

PortfolioNext ==
    \/ \E w \in Wallets : Connect(w)
    \/ Disconnect
    \/ \E h \in Hooks : Refresh(h) \/ ScanEnds(h)
    \/ PricesExpire

\* Timers fire, and a request ends: with an answer, an error or a timeout.
PortfolioFairness ==
    \A h \in Hooks : /\ WF_vars(refreshBalances(h))
                     /\ WF_vars(\E down \in Outages : FinishBalances(h, down))

PortfolioSpec == PortfolioInit /\ [][PortfolioNext]_vars /\ PortfolioFairness

(***************************************************************************)
(* Once the owner stays with a wallet, the balances shown become, and      *)
(* stay, those of that wallet, although a scan of another one that is      *)
(* still under way blocks the scan after the switch and overwrites the     *)
(* store behind its reset (usePortfolio).                                  *)
(***************************************************************************)
ShowsConnectedWallet ==
    \A w \in Wallets : <>[](wallet = w) => <>[](shown.of = w)

(***************************************************************************)
(* The total agrees with the two lists on the screen whichever of the      *)
(* concurrent scans wrote last, and counts a position that is a token of   *)
(* the wallet once (setBalances, setDefiPositions).                        *)
(***************************************************************************)
TotalMatchesLists ==
    shown.total = Cardinality(shown.priced) + Cardinality(Counted(shown.positions))
==============================================================================
