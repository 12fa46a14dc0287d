\* Two requests, one after the other, each in a slot of its own, to their end.
SPECIFICATION FairSpec
CONSTANTS
  SlotCount = 2
  GenerationMax = 1
  RuntimeMax = 2
INVARIANTS
  SlotsHeld
  AllOrNothing
PROPERTIES
  KeepsPromise
  AbortSettles
CHECK_DEADLOCK FALSE
