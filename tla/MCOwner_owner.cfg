SPECIFICATION FairOwnerSpec
CONSTANTS
  None = None
  h1 = h1
  h2 = h2
  Assets = {s1, s2}
  HeirLists <- OneList
  Deadline = 2
  BatchSize = 1
  MaxKeys = 2
  MaxOps = 2
  MaxFaults = 1
INVARIANT OwnerWritesVerified
PROPERTIES
  StoreCatchesUp
  RevokeEmptiesVault
CHECK_DEADLOCK FALSE
