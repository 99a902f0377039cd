SPECIFICATION EscalationFairSpec
CONSTANTS
  Interval = 1
  StageEnds <- Ends
  Plans <- TwoVaults
  MaxStale = 1
  MaxRare = 1
  MaxReverted = 1
INVARIANTS
  MirrorTruthful
  TapKeepsMonitoring
PROPERTY AlarmClears
