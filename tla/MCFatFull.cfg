SPECIFICATION UndisturbedSpec
CONSTANTS
  N = 5
  NSlots = 2
  NFds = 1
  MaxWalk = 2
CHECK_DEADLOCK FALSE
INVARIANTS
  SearchEnds
