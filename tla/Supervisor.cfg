SPECIFICATION FairSpec
CONSTANTS
  HwMin = 2
  HwMax = 6
  CfgMaxRpm = 6
  CurveSpeeds = {2}
  HoldRequests = {9}
  TachReadings = {0, 2}
  StartModes <- ObserveOrCurve
  SensorLossPolls = 2
  WriteFailFallback = 3
  StallPolls = 2
  VerifyTolerance = 1
  StallEpsilon = 1
  CmdMayBeUnreadable = TRUE
  MaxDeaths = 1
  None = None
PROPERTIES
  RestoreEventuallyEnds
  DeadFanGivenUp
  SensorLossReleases
  LatchSettles
  OwnershipEndsInAuto
  PendingEndsInAutoOrRecommand
  KeepsCustody
  ActsOnPolicy
INVARIANTS
  TypeOK
  ControlWriteEntitled
  UndrivenFanIsBeingReleased
  WrittenOnlyWhileOwned
