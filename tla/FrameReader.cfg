CONSTANTS
  Start <- MixedFrames
  Radix = 3
  Trailer = 4
  SplitsPrelude = FALSE
SPECIFICATION Spec
INVARIANT ReadsFrames
PROPERTY CuttingEnds
CHECK_DEADLOCK FALSE
