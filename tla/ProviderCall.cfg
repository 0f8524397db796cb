CONSTANTS
  Status = {200, 302, 408, 500}
  Redirects = {302}
SPECIFICATION Spec
INVARIANTS
  DeadlineEndsWithFetch
  AnswersFromWholes
  NeverStuck
PROPERTIES
  KeepsPromise
  HangupIsNotReported
  EveryWaitEnds
CHECK_DEADLOCK FALSE
