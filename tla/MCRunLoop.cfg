\* Every stop, bound, watch cancellation and failure over a plan of three units.
SPECIFICATION FairSpec
CONSTANTS
  Units = 3
  db = db
  Databases = {db}
  Instance = Instance
  Target <- TwoOnOneDatabase
  Bounded = TRUE
INVARIANT AccountsAgree
INVARIANT ExitZeroMeansWhole
INVARIANT DiscardNeedsWholeRun
INVARIANT BoundCostsWhatRuns
PROPERTY StopIsNoFailure
PROPERTY HeldBackStaysBack
PROPERTY KeepsContract
PROPERTY RunReturns
CHECK_DEADLOCK FALSE
