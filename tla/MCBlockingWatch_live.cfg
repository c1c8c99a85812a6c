\* Two waiting sessions and one identity query per unit, under fairness.
SPECIFICATION FairSpec
CONSTANTS
  Sessions = {s1, s2}
  NoSession = NoSession
  Units = 1
  Spids = 1
  CancelAfter = 1
  MaxWait = 1
  Retries = 1
  IdentifyMax = 1
  MaxBlockedWaits = 1
INVARIANT IdentifyIsBounded
PROPERTY LongWaitIsEnded
PROPERTY CloseReturns
CHECK_DEADLOCK FALSE
