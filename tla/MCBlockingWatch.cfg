\* One waiting session whose wait is seen below the limit before it reaches it, two
\* retries, and a reconnect that may give a new session id.
SPECIFICATION Spec
CONSTANTS
  Sessions = {s1}
  NoSession = NoSession
  Units = 2
  Spids = 2
  CancelAfter = 2
  MaxWait = 2
  Retries = 2
  IdentifyMax = 1
  MaxBlockedWaits = 1
INVARIANT OutcomeIsTrue
INVARIANT CreditedToItsSession
INVARIANT DeadWatchIsReported
INVARIANT BlameIsEarned
PROPERTY CancelHitsArmedUnit
CHECK_DEADLOCK FALSE
