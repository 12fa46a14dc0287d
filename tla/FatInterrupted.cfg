SPECIFICATION MCSpec
SYMMETRY NameSymmetry
CONSTANTS
  n1 = n1
  n2 = n2
  Paths <- SmallTree
  ClusterCount = 3
  Copies = 2
  EntriesPerSector = 3
  RootEntries = 2
  DirEntries = 2
  FileSlots = {1}
  MaxSectors = 5
  Values = {0}
  Times = {0}
  Attributes = {FALSE}
  MountModes = {TRUE}
  InterruptTruncation = TRUE
INVARIANT NoCrossLink
CONSTRAINT FatBound
CHECK_DEADLOCK FALSE
