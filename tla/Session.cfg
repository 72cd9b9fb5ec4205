SPECIFICATION Spec
CONSTANTS
  NumInodes = 4
  NumBlocks = 8
  InodesPerBlock = 2
  EntriesPerBlock = 3
  NumDirect = 2
  PointersPerEntry = 2
  MaxSize = 4
  Clients = {c1, c2}
  Paths <- SessionPaths
  Names <- MCNames
  Stray = {}
  MaxBoots = 0
  MaxLinks = 2
  MaxQueue = 5
VIEW VolumeView
INVARIANTS TypeOK  
PROPERTIES  ErrorChangesNothing 
SYMMETRY SameClients
CHECK_DEADLOCK FALSE
