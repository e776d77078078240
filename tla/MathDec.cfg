SPECIFICATION Spec
CONSTANTS
  Base = 4
  Clusters = {0, 1}
  Operands = {0, 1, 3}
  MaxCalls = 1
CHECK_DEADLOCK FALSE
PROPERTIES
  DecExact
