SPECIFICATION AuditSpec
CONSTANTS
  NoAccount = NoAccount
  NoChange = NoChange
  o = o
  fee = fee
  vk = vk
  k1 = k1
  b1 = b1
  b2 = b2
  a1 = a1
  a2 = a2
  m1 = m1
  Owner = o
  FeeWallet = fee
  VaultKey = vk
  Payers = {k1}
  Wallets = {b1, b2}
  Agents = {a1}
  Mints = {}
  SOL = SOL
  NotAMint = NotAMint
  Rent = 1
  CreationFee = 1
  MaxBounty = 1
  CloseDelay = 1
  MinInterval = 1
  MaxInterval = 2
  MinGrace = 1
  MaxGrace = 1
  MaxBeneficiaries = 2
  MaxAssignments = 2
  I64Max = 7
  IntervalInputs = {1}
  GraceInputs = {1}
  BeneficiaryInputs <- AuditBeneficiaries
  PlanInputs <- SolPlans
  BountyInputs = {0, 1}
  Amounts = {1, 3}
  InitialSol <- SolSol
  InitialTokens <- NoTokens
  Depositors = {o, k1}
  Freezable = {}
  ZombieVaults = {}
  ZombieTime = 0
  MaxTime = 3
INVARIANTS
  SolSolvent
PROPERTIES
  EstateOnlyToHeirs
  HeirsPaid
CHECK_DEADLOCK FALSE
