SPECIFICATION Spec
CONSTANTS
  Clients <- TwoClients
  Inodes <- ThreeInodes
  HwMin = 2
  HwMax = 3
  HoldRequests = {1, 9}
  MaxDeaths = 1
  None = None
INVARIANTS
  TypeOK
PROPERTIES
  AloneIsAtomic
  SuccessMeansPublished
  Delivered
