SPECIFICATION Spec
CONSTANTS
  B = 3
  DevBlocks = 4
  W = 32
  MaxCount = 7
  SeekArgs = {0, 4, 31}
  OldSizes = {7}
  Junk = 9
  MaxCalls = 2
CHECK_DEADLOCK FALSE
INVARIANTS
  WritePrefix
  AllMoved
PROPERTIES
  ImplementsFlat
  CallsReturn
