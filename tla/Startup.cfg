SPECIFICATION Spec
CONSTANTS
  None = None
  Missing = Missing
  Unreadable = Unreadable
  NotToml = NotToml
  Absent = Absent
  NotAnInteger = NotAnInteger
  Refused = Refused
  I32Min <- LeastI32
  I32Max = 7000
  U32Max = 7000
  Trees <- MachineTrees
  Files <- ConfigDocuments
  Surroundings <- DoctorFinds
  MaxLoads = 1
INVARIANTS ArmedDeathWriteReleases DoctorVouchesForStart StartedOnUsableBand
