SPECIFICATION FairSpec
CONSTANTS
  Prestos <- TwoPrestos
  BufferSize = 1
  MaxChanges = 3
  MaxFaults = 1
INVARIANTS
  TypeOK
  NoLostRequest
PROPERTIES
  
  EveryPrestoReconciled
  DeletedPrestoForgotten
  SendsGetThrough
