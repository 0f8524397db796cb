CONSTANTS
  Indices = {0, 1}
  Ids = {x, y}
  MaxParts = 4
  None = None
SPECIFICATION Spec
SYMMETRY Symmetry
INVARIANTS
  OneBlockAtATime
  EndsClosed
  ArgumentsKept
CHECK_DEADLOCK FALSE
