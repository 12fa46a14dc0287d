SPECIFICATION FairSpec
CONSTANTS
  RecordCap = 1
  RawCap = 1
  DecodedCap = 1
  GuestCap = 2
  OutMax = 4
  FuseMax = 5
  WriteLimit = 4
  NakLimit = 2
  PumpBudget = 2
  KeyMax = 3
  MoveMax = 1
  FaultMax = 1
  FaultyKeyMax = 3
  FaultyMoveMax = 1
  Faults = {}
PROPERTY PromptServed
CHECK_DEADLOCK FALSE
