CONSTANTS
  Indices = {0, 1}
  MaxParts = 2
  None = None
SPECIFICATION Spec
INVARIANT CompletedRanToTheEnd
CHECK_DEADLOCK FALSE
