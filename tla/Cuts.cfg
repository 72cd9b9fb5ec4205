SPECIFICATION CutsSpec
CONSTANTS
  NumInodes = 3
  NumBlocks = 7
  InodesPerBlock = 4
  EntriesPerBlock = 4
  NumDirect = 2
  PointersPerEntry = 2
  MaxSize = 4
  Clients = {c1}
  Paths <- CutPaths
  Names <- MCNames
  Stray = {}
  MaxBoots = 2
  MaxLinks = 2
  MaxQueue = 4
VIEW VolumeView
INVARIANTS TypeOK DataBlocksExclusive PathsAtomic NewNamesWhole
CHECK_DEADLOCK FALSE
