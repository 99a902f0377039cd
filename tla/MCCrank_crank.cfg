SPECIFICATION FairSpec
CONSTANTS
  k = k
  c = c
  m1 = m1
  SOL = SOL
  NoDist = NoDist
  DistMints = {m1}
  MaxShares = 2
  MaxBequests = 2
  Crankers = {k, c}
  Lead = k
  Teams <- PairsOf
  Shares = {1, 2}
  Plans <- SolAndMint
  Batch = 2
  MaxAutoMints = 1
  MaxPasses = 2
  BadRpc = {"silent", "other_cluster"}
  MaxFaults = 1
INVARIANTS
  KeeperNeverOrphans
PROPERTIES
  SolAlwaysPaid
  EstateFinalized
  EveryMintDistributed
CHECK_DEADLOCK FALSE
