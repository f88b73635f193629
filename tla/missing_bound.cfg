SPECIFICATION ScaledSpec
CONSTANTS
  Specs <- MissingBounds
  Labels = {}
  Phases = {"Running"}
  MaxUid = 1
  MaxNames = 2
  MaxEdits = 1
  MaxFaults = 0
  MaxCrashes = 0
  MaxDeletes = 0
  MaxChurn = 0
  MaxRaces = 0
INVARIANT
  MissingBoundReported
CHECK_DEADLOCK FALSE
