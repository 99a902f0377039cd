SPECIFICATION LifeSpec
CONSTANTS
  NoAccount = NoAccount
  NoChange = NoChange
  o = o
  fee = fee
  vk = vk
  k1 = k1
  b1 = b1
  b2 = b2
  a1 = a1
  a2 = a2
  m1 = m1
  Owner = o
  FeeWallet = fee
  VaultKey = vk
  Payers = {k1}
  Wallets = {b1, b2}
  Agents = {a1, a2, o}
  Mints = {}
  SOL = SOL
  NotAMint = NotAMint
  Rent = 1
  CreationFee = 1
  MaxBounty = 1
  CloseDelay = 1
  MinInterval = 1
  MaxInterval = 2
  MinGrace = 1
  MaxGrace = 1
  MaxBeneficiaries = 2
  MaxAssignments = 2
  I64Max = 7
  IntervalInputs = {0, 1, 2, 9}
  GraceInputs = {1}
  BeneficiaryInputs <- LifeBeneficiaries
  PlanInputs <- LifePlans
  BountyInputs = {0}
  Amounts = {1}
  InitialSol <- LifeSol
  InitialTokens <- NoTokens
  Depositors = {o}
  Freezable = {}
  ZombieVaults <- LateZombies
  ZombieTime = 2
  MaxTime = 4
INVARIANTS
  TypeOK
  AccountsTogether
  LogProvesGrace
  DeadlineNeverOverflows
  PlanIndicesInRange
PROPERTIES
  ExecutionTermsFrozen
CHECK_DEADLOCK FALSE
