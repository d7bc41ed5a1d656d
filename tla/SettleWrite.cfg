SPECIFICATION FairSpec
CONSTANTS
  Values = {1200, 1240, 3000}
  Tolerance = 50
  FirmwareValues = {1200}
  WriteRetryMax = 1
  SettleSamples = 3
  None = None
INVARIANTS
  TypeOK
  NothingElseInFlight
PROPERTIES
  VerifiedValueStays
  EveryCallReturns
  SleepsAreBounded
  KeepsPromise
