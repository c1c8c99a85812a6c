\* An attempt is cancelled while its answer waits to be delivered.
SPECIFICATION Spec
CONSTANTS
  a = a
  b = b
  A = A
  B = B
  p = p
  Addresses = {a, b}
  Instances = {A, B}
  InstanceOf <- InstanceAt
  Profiles = {}
  Whole = Whole
  NoOne = NoOne
  Earlier <- OneEarlier
  MaxJobs = 4
  MaxAlive = 2
  MaxOthers = 0
  MaxPanics = 0
INVARIANT CancelledAnswerIsDropped
CHECK_DEADLOCK FALSE
