SPECIFICATION UndisturbedSpec
CONSTANTS
  N = 6
  NSlots = 1
  NFds = 1
  MaxWalk = 2
CHECK_DEADLOCK FALSE
INVARIANTS
  NoLeak
