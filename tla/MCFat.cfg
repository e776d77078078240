SPECIFICATION Spec
CONSTANTS
  N = 5
  NSlots = 2
  NFds = 2
  MaxWalk = 2
CONSTRAINT WhileWhole
INVARIANTS
  NoCrossLinks
  ChainsEnd
PROPERTIES
  ChainsKept
