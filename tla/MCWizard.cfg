\* Two addresses, a profile, a panic and another process over four jobs.
SPECIFICATION FairSpec
CONSTANTS
  a = a
  b = b
  A = A
  B = B
  p = p
  Addresses = {a, b}
  Instances = {A, B}
  InstanceOf <- InstanceAt
  Profiles = {p}
  Whole = Whole
  NoOne = NoOne
  Earlier <- OneEarlier
  MaxJobs = 4
  MaxAlive = 2
  MaxOthers = 1
  MaxPanics = 1
INVARIANT NothingIsCutShort
INVARIANT RunIsTheAskedOne
CHECK_DEADLOCK FALSE
PROPERTY CollectingIsLeft
