SPECIFICATION FileSpec
CONSTANTS
  HwMin = 2
  HwMax = 6
  CfgMaxRpm = 6
  CurveSpeeds = {}
  HoldRequests = {9}
  TachReadings = {6}
  StartModes <- ObserveOnly
  SensorLossPolls = 1
  WriteFailFallback = 2
  StallPolls = 1
  VerifyTolerance = 1
  StallEpsilon = 1
  CmdMayBeUnreadable = FALSE
  MaxDeaths = 1
  None = None
INVARIANTS
  ReadersSeeWholePolls
  ReportIsTrue
PROPERTIES
  DegradationBecomesVisible
