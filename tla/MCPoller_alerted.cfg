SPECIFICATION FairSpec
CONSTANTS
  RpcModes = {"good", "down"}
  NoRow = NoRow
  NoJob = NoJob
  t1 = t1
  t2 = t2
  j1 = j1
  j2 = j2
  ExecutorEnabled = FALSE
  FcmWaived = FALSE
  FailureThreshold = 1
  MaxRatioPct = 5
  MaxAbs = 2
  Tokens = {t1}
  Jobs = {j1}
  Interval = 1
  Stage1 = 1
  Stage2 = 1
  Stage3 = 1
  MaxSilence = 4
  PollKinds = {"timer"}
PROPERTIES
  OwnerAlerted
  PollerRecovers
CHECK_DEADLOCK FALSE
