SPECIFICATION Spec
CONSTANTS
  SlotCount = 2
  GenerationMax = 2
  Lifetimes = 2
  Generations = 2
  Blocks = {b1, b2}
  Owners = {o1, o2}
  Free = Free
  Guest = Guest
INVARIANTS TypeOK LeaseBacked
PROPERTIES OwnersRespected
CHECK_DEADLOCK FALSE
