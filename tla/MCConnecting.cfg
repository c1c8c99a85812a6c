\* Two attempts on a pool of one, two tries each, one refill.
SPECIFICATION FairSpec
CONSTANTS
  MaxOpen = 1
  MaxAttempts = 2
  MaxTries = 2
  MaxRefills = 1
  None = None
INVARIANT NothingIsLeft
INVARIANT AnswerIsTrue
CHECK_DEADLOCK FALSE
PROPERTY AttemptEnds
