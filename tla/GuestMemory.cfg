SPECIFICATION Spec
CONSTANTS
  PageUnits = 2
  FirstPage = 1
  LastPage = 3
  MemoryMaps <- MCMaps
  LeaseCount = 2
  LeaseGenerationMax = 2
  ZeroResults = {"OK", "FAILED", "UNCERTAIN"}
  Values = {0, 1}
  RomPages = {100}
  ClientCapacity = 2
  ShadowCapacity = 1
  ShadowGenerationMax = 1
  RomValue = 0
  StrayEntries = TRUE
  XmsHandleCount = 1
  LockMax = 1
  XmsSizes = {1, 3}
  ConventionalFaults = TRUE
  EmsHandleCount = 1
  VcpiCount = 1
  FrameSlotCount = 2
  NativePerPage = 1
  EmsGenerationMax = 1
  EmsCounts = {2}
  FrameResults = {"OK", "FAULT", "UNCERTAIN"}
  PlatformResults = {"UNCERTAIN"}
CONSTRAINT Interesting
INVARIANTS TypeOK LeasesAccounted QueryHonest MappingsBacked
PROPERTY KeepsStore
CHECK_DEADLOCK FALSE
