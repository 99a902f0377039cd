SPECIFICATION Spec
CONSTANTS
  NoRow = NoRow
  Idle = Idle
  o1 = o1
  o2 = o2
  v1 = v1
  s1 = s1
  s2 = s2
  n1 = n1
  n2 = n2
  t1 = t1
  t2 = t2
  Owners = {o1, o2}
  Vaults = {v1}
  VaultOwner <- OwnerOfV1
  Tokens = {t1, t2}
  Nonces = {n1, n2}
  Revisions = {1, 2}
  Skews = {1}
  Slots = {s1, s2}
  Window = 1
  PruneAge = 2
  Until = 3
  RegisterInputs <- OwnerSigns
  DeregisterInputs <- OwnerLeaves
  LegacyInputs <- SecretHolders
  Modes = {"legacy", "dual", "signed"}
  MaxTime = 5
INVARIANTS
  RowsOwnedByPda
  SignedRowsAuthentic
  PrunedNonceIsStale
PROPERTIES
  SignedRowsSticky
  RevisionNeverBack
  LegacyStaysClosed
SYMMETRY SlotSymmetry
CHECK_DEADLOCK FALSE
