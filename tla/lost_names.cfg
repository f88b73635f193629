SPECIFICATION FairSpec
CONSTANTS
  Specs <- OneSpec
  Labels = {}
  Phases = {"Running"}
  MaxUid = 1
  MaxNames = 2
  MaxEdits = 0
  MaxFaults = 0
  MaxCrashes = 0
  MaxDeletes = 0
  MaxChurn = 0
  MaxRaces = 0
PROPERTY
  NamesRecorded
