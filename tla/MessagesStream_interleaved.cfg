CONSTANTS
  Indices = {0, 1}
  Ids = {x, y}
  MaxParts = 3
  None = None
SPECIFICATION Spec
INVARIANT NoDeltaAfterStop
CHECK_DEADLOCK FALSE
