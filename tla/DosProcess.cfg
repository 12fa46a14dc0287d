SPECIFICATION Spec
CONSTANTS
  SfnCount = 2
  SftGenerationMax = 2
  HandleCount = 2
  PositionMax = 1
  FaultMax = 1
  BatchCount = 1
  JftMinimum = 1
  FileLeaseCount = 1
  SessionCount = 2
  PspCount = 3
  TableCount = 1
  JftMaximum = 2
  RuntimeGenerationMax = 5
  ChangeMax = 2
INVARIANTS TypeOK BooksBalance Restored
PROPERTY KeepsHandles
CHECK_DEADLOCK FALSE
