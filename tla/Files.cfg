SPECIFICATION FilesSpec
CONSTANTS
  NumInodes = 3
  NumBlocks = 5
  InodesPerBlock = 4
  EntriesPerBlock = 3
  NumDirect = 2
  PointersPerEntry = 2
  MaxSize = 4
  Clients = {c1}
  Paths <- FilePaths
  Names <- MCNames
  Stray = {}
  MaxBoots = 1
  MaxLinks = 2
  MaxQueue = 2
  MaxOpenFiles = 2
  Offsets <- MCOffsets
  Counts = {2}
  Heap <- MCHeap
  MaxCursor = 6
VIEW FilesView
INVARIANTS  CounterCoversFree DataBlocksExclusive 
PROPERTIES ImplementsOpenFiles   
CHECK_DEADLOCK FALSE
