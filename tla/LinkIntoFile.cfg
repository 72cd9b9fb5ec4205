SPECIFICATION Spec
CONSTANTS
  NumInodes = 5
  NumBlocks = 9
  InodesPerBlock = 3
  EntriesPerBlock = 4
  NumDirect = 2
  PointersPerEntry = 2
  MaxSize = 5
  Clients = {c1}
  Paths <- SessionPaths
  Names <- MCNames
  Stray = {}
  MaxBoots = 0
  MaxLinks = 2
  MaxQueue = 5
PROPERTY LinkResolves
CHECK_DEADLOCK FALSE
