CONSTANTS
  MaxChunks = 2
  HighWater = 1
  Slack = 1
SPECIFICATION Spec
INVARIANT FaultsAreReported
CHECK_DEADLOCK FALSE
