SPECIFICATION IndexerSpec
CONSTANTS
  Absent = Absent
  w1 = w1
  w2 = w2
  lst = lst
  nft = nft
  stock = stock
  SOL = SOL
  Wallets = {w1, w2}
  Hooks = {dashboard, assets}
  Nfts = {nft}
  Token2022 = {stock}
  PythFeeds = {SOL, lst}
  JupiterFeeds = {SOL, stock}
  Holds <- WalletTokens
  DefiMint <- LiquidStaking
  Accounts <- PositionAccounts
  Hints <- RecentActivity
  Outages <- SomeOutages
  MaxOutages = 1
  PageSize = 2
  MaxPages = 2
  MaxHistory = 5
  MaxReverted = 1
INVARIANTS
  TotalMatchesLists
  SessionsMatchExecutions
PROPERTY ShowsConnectedWallet
