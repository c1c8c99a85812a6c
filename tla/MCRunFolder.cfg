\* Two processes that race for three runs, over a run of the day or none.
SPECIFICATION Spec
CONSTANTS
  Procs = {p, q}
  MaxRuns = 3
  MaxLeft = 1
SYMMETRY Interchangeable
INVARIANT DiskIsSound
INVARIANT NoMixture
INVARIANT PairIsOneRun
INVARIANT ZipNameIsFree
PROPERTY EvidenceIsKept
PROPERTY KeepsArchiveContract
CHECK_DEADLOCK FALSE
