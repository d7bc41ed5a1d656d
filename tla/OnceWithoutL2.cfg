SPECIFICATION OneShotSpec
CONSTANTS
  HwMin = 2
  HwMax = 6
  CfgMaxRpm = 6
  CurveSpeeds = {2}
  HoldRequests = {4, 9}
  TachReadings = {0, 2, 6}
  StartModes <- CurveOnly
  SensorLossPolls = 3
  WriteFailFallback = 3
  StallPolls = 3
  VerifyTolerance = 1
  StallEpsilon = 1
  CmdMayBeUnreadable = TRUE
  MaxDeaths = 0
  None = None
INVARIANT
  ControlWriteEntitled
CHECK_DEADLOCK FALSE
