CONSTANTS
  Start <- MixedFrames
  Radix = 3
  Trailer = 4
  SplitsPrelude = TRUE
SPECIFICATION Spec
INVARIANT LengthIsThePreludes
CHECK_DEADLOCK FALSE
