SPECIFICATION ClientSpec
CONSTANTS
  None = None
  t1 = t1
  t2 = t2
  c1 = c1
  c2 = c2
  Tokens = {t1, t2}
  Checks = {c1, c2}
  MaxRevision = 2
  MaxFaults = 1
  MaxVaults = 2
SYMMETRY ClientSymmetry
PROPERTIES
  DisabledStaysOff
  RevokedStaysOff
  RevisionsRise
CHECK_DEADLOCK FALSE
