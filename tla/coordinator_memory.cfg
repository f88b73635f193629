SPECIFICATION Spec
CONSTANTS
  Conf <- AllConfs
  None = None
  Unparsable = Unparsable
  Uuid <- TheUuid
  PrestoName <- TheName
  MaxEdits = 0
  MaxTasks = 0
INVARIANT
  CoordinatorHeapFits
CHECK_DEADLOCK FALSE
