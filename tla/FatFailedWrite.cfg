SPECIFICATION MCSpec
CONSTANTS
  n1 = n1
  n2 = n2
  Paths <- SmallTree
  ClusterCount = 3
  Copies = 2
  EntriesPerSector = 3
  RootEntries = 2
  DirEntries = 2
  FileSlots = {1}
  MaxSectors = 5
  Values = {1}
  Times = {0}
  Attributes = {FALSE}
  MountModes = {TRUE}
  InterruptTruncation = FALSE
PROPERTY QuarantineHolds
CHECK_DEADLOCK FALSE
