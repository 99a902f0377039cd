----------------------------- MODULE MCPortfolio -----------------------------
(* Two wallets: one with a liquid staking token, an NFT and a stake account, *)
(* one with a token that Pyth does not price.  The portfolio and the         *)
(* execution log share no state, so none of their interleavings is walked:   *)
(* transactions land before a wallet is connected, if they land at all.      *)
EXTENDS Portfolio, ExecutionHistory

CONSTANTS w1, w2, lst, nft, stock

WalletTokens == [w \in Wallets |-> IF w = w1 THEN {lst, nft} ELSE {stock}]
LiquidStaking == [t \in {lst} |-> "jito"]
PositionAccounts == [w \in Wallets |-> IF w = w1 THEN {"native_stake"} ELSE {}]
RecentActivity == [w \in Wallets |-> IF w = w1 THEN {"jito", "orca"} ELSE {}]
SomeOutages == {{}, {"rpc"}, {"das", "legacy", "pyth", "native_stake"}}

IndexerInit == PortfolioInit /\ LogInit

IndexerNext ==
    \/ landed = << >> /\ PortfolioNext /\ UNCHANGED logVars
    \/ last = Absent /\ LogNext /\ UNCHANGED vars
    \/ Len(landed) = MaxHistory /\ UNCHANGED <<vars, logVars>>   \* the bound of the log

IndexerSpec ==
    /\ IndexerInit
    /\ [][IndexerNext]_<<vars, logVars>>
    /\ PortfolioFairness
==============================================================================
