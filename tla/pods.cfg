SPECIFICATION FairSpec
CONSTANTS
  Conf <- AllConfs
  None = None
  Unparsable = Unparsable
  Uuid <- TheUuid
  PrestoName <- TheName
  MaxEdits = 1
  MaxTasks = 2
INVARIANTS
  TypeOK
  ClientsMeetCoordinator
  TasksSurviveShutdown
  ScriptBlocks
  CatalogsComplete
  WorkableCanJoin
  WaitsForDraining
PROPERTIES
  WorkersJoin
  TerminationEnds
CHECK_DEADLOCK FALSE
