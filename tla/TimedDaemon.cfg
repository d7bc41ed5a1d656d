SPECIFICATION TimedSpec
CONSTANTS
  HwMin = 0
  HwMax = 8
  CfgMaxRpm = 8
  CurveSpeeds = {0, 4}
  HoldRequests = {}
  TachReadings = {0, 2, 4, 6, 8}
  StartModes <- ObserveOnly
  SensorLossPolls = 1
  WriteFailFallback = 3
  StallPolls = 6
  VerifyTolerance = 3
  StallEpsilon = 1
  CmdMayBeUnreadable = FALSE
  MaxDeaths = 1
  None = None
  Rate = 2
  IntervalMs = 12000
  EchoSettleMs = 1500
  ModeSettleMs = 1000
  SettleSamples = 10
  WriteRetryMax = 1
  WatchdogMs = 15000
  MarginMs = 3000
INVARIANTS
  WatchdogFed
  WorkingFanIsNoStall
