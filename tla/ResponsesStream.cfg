CONSTANTS
  Indices = {0, 1}
  MaxParts = 5
  None = None
SPECIFICATION Spec
INVARIANTS
  OneSequence
  ItemsFollow
  Assembled
  AllDone
CHECK_DEADLOCK FALSE
