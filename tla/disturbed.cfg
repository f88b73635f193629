SPECIFICATION DisturbedFairSpec
CONSTANTS
  Specs <- Scalings
  Labels = {}
  Phases = {"Running"}
  MaxUid = 1
  MaxNames = 2
  MaxEdits = 2
  MaxFaults = 1
  MaxCrashes = 0
  MaxDeletes = 1
  MaxChurn = 1
  MaxRaces = 0
INVARIANTS
  NoStall
PROPERTIES
  ClusterBuilt
  AutoscalerFollowsSpec
  AddressRecorded
  DeletionCleansUp
  WorkersReported
CHECK_DEADLOCK FALSE
