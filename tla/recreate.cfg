SPECIFICATION FairSpec
CONSTANTS
  Specs <- FirstStages
  Labels = {"team"}
  Phases = {"Running"}
  MaxUid = 2
  MaxNames = 1
  MaxEdits = 1
  MaxFaults = 0
  MaxCrashes = 1
  MaxDeletes = 0
  MaxChurn = 0
  MaxRaces = 1
INVARIANTS
  UuidHasOneOwner
  AtMostTwoUuids
  RegistrationTracksCache
  AcceptedSpecsOnly
PROPERTIES
  UuidStableOnceBuilt
  NoWayBack
  AddressKept
  ClusterBuilt
  DeletionCleansUp
  LifecycleImplemented
CHECK_DEADLOCK FALSE
