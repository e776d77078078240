SPECIFICATION VolumeSpec
CONSTANTS
  Base = 4
  Clusters = {0, 1}
  Operands = {0, 1, 3}
  MaxCalls = 1
  C = 2
  WordSize = 6
  ByteSize = 3
  NumClusters = 8
  Neighbours = {3}
  Lengths = {1, 2, 4, 5}
  Offsets = {0, 1, 6, 12}
  Leftovers = {3}
  MaxSize = 17
  MaxTransfers = 3
  BlockLen = 3
  NumBlocks = 2
  Payloads <- VolumePayloads
  Tries = 2
  DriverCalls = 3
CHECK_DEADLOCK FALSE
PROPERTIES
  SumsExact
  ShiftsExact
  CompareExact
  DecExactWhere
  LowClustersPlaced
  SdReturns
INVARIANTS
  FioAsFile
  SdWritePrefix
  SdReadExact
