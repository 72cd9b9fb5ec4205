SPECIFICATION FilesSpec
CONSTANTS
  NumInodes = 3
  NumBlocks = 5
  InodesPerBlock = 4
  EntriesPerBlock = 3
  NumDirect = 2
  PointersPerEntry = 2
  MaxSize = 4
  Clients = {c1}
  Paths <- FilePaths
  Names <- MCNames
  Stray = {}
  MaxBoots = 0
  MaxLinks = 2
  MaxQueue = 2
  MaxOpenFiles = 2
  Offsets <- MCOffsets
  Counts = {2}
  Heap <- MCHeap
  MaxCursor = 6
VIEW FilesView
PROPERTY ReadsAtCursor
CHECK_DEADLOCK FALSE
