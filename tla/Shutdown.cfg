CONSTANTS
  Requests = {r1, r2}
  CLOSE_DELAY = 2
  FORCE_EXIT_TIMEOUT = 4
  PollPeriod = 1
SPECIFICATION Spec
INVARIANTS
  CleanExitLosesNothing
  CutForCause
  DrainKnownFirst
PROPERTY ShutdownEnds
