SPECIFICATION Spec
CONSTANTS
  Specs <- OneSpec
  Labels = {}
  Phases = {"Running", "Failed"}
  MaxUid = 1
  MaxNames = 2
  MaxEdits = 0
  MaxFaults = 1
  MaxCrashes = 0
  MaxDeletes = 0
  MaxChurn = 0
  MaxRaces = 1
INVARIANTS
  TypeOK
  BuildOrder
  StatusNamesMade
  ReadyMeansBuilt
  NoStall
PROPERTIES
  LifecycleImplemented
