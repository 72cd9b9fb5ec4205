SPECIFICATION Spec
CONSTANTS
  NumInodes = 5
  NumBlocks = 9
  InodesPerBlock = 3
  EntriesPerBlock = 4
  NumDirect = 2
  PointersPerEntry = 2
  MaxSize = 4
  Clients = {c1}
  Paths <- RestartPaths
  Names <- MCNames
  Stray = {8}
  MaxBoots = 2
  MaxLinks = 2
  MaxQueue = 4
VIEW VolumeView
INVARIANTS  CounterCoversFree  DataBlocksExclusive
CHECK_DEADLOCK FALSE
