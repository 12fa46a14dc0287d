SPECIFICATION MCSpec
SYMMETRY NameSymmetry
CONSTANTS
  n1 = n1
  n2 = n2
  Paths <- SmallTree
  ClusterCount = 3
  Copies = 2
  EntriesPerSector = 3
  RootEntries = 2
  DirEntries = 2
  FileSlots = {1, 2}
  MaxSectors = 5
  Values = {0, 1}
  Times = {0}
  Attributes = {FALSE}
  MountModes = {TRUE, FALSE}
  InterruptTruncation = FALSE
INVARIANTS TypeOK Sound HandlesFollow
PROPERTY KeepsFiles
CONSTRAINT FatBound
CHECK_DEADLOCK FALSE
