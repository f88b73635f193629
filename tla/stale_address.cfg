SPECIFICATION FairSpec
CONSTANTS
  Specs <- Services
  Labels = {}
  Phases = {"Running"}
  MaxUid = 2
  MaxNames = 1
  MaxEdits = 1
  MaxFaults = 0
  MaxCrashes = 0
  MaxDeletes = 0
  MaxChurn = 0
  MaxRaces = 0
PROPERTIES
  AddressOfCluster
CHECK_DEADLOCK FALSE
