SPECIFICATION Spec
CONSTANTS
  B = 3
  DevBlocks = 4
  W = 32
  MaxCount = 4
  SeekArgs = {0, 5}
  OldSizes = {7}
  Junk = 7
  MaxCalls = 2
CHECK_DEADLOCK FALSE
PROPERTIES
  ReadAdvances
