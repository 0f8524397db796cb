CONSTANTS
  MaxChunks = 3
  HighWater = 2
  Slack = 1
SPECIFICATION FairSpec
INVARIANTS
  WholeMeansWhole
  OneEnding
  DeliveredIsPrefix
  Accounted
  Backpressure
PROPERTIES
  NothingAfterTheEnd
  TruncationIsTold
  ProviderIsStopped
  ResponseSettles
  KeepsPromise
CHECK_DEADLOCK FALSE
