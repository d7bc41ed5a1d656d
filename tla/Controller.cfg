SPECIFICATION PlateauSpec
CONSTANTS
  MinRpm = 1200
  MaxRpm = 6200
  HighC = 66
  MaxC = 86
  SlewMax = 750
  SensorLossPolls = 3
  OvershootPolls = 3
  Sensors = {s1, s2}
  Temps <- ZoneTemps
  HoldRequests = {3000}
  None = None
INVARIANTS
  TypeOK
  CurveInBand
  GuardFiresExactly
  LossIsAnswered
PROPERTIES
  CurveSessionSlewed
  Converges
  KeepsContract
