SPECIFICATION FairSpec
CONSTANTS
  RecordCap = 2
  RawCap = 2
  DecodedCap = 2
  GuestCap = 2
  OutMax = 3
  FuseMax = 5
  WriteLimit = 4
  NakLimit = 2
  PumpBudget = 2
  KeyMax = 4
  MoveMax = 2
  FaultMax = 1
  FaultyKeyMax = 3
  FaultyMoveMax = 1
  Faults = {"update", "stall", "refuse", "reset", "damage", "guest"}
INVARIANTS TypeOK Owned NoStuckKeys
PROPERTIES KeepsKeys SourceServed
CHECK_DEADLOCK FALSE
