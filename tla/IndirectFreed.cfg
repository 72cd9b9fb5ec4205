SPECIFICATION Spec
CONSTANTS
  NumInodes = 5
  NumBlocks = 9
  InodesPerBlock = 3
  EntriesPerBlock = 4
  NumDirect = 2
  PointersPerEntry = 2
  MaxSize = 5
  Clients = {c1}
  Paths <- RestartPaths
  Names <- MCNames
  Stray = {}
  MaxBoots = 1
  MaxLinks = 2
  MaxQueue = 5
INVARIANT IndirectNotFree
CHECK_DEADLOCK FALSE
