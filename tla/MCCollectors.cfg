\* Three units of any writer over one database, three bytes for their payloads.
SPECIFICATION Spec
CONSTANTS
  d = d
  Databases = {d}
  NoDatabase = NoDatabase
  Inputs <- RowsOf
  Budget = 3
  MaxUnits = 3
INVARIANT ManifestCountsAll
INVARIANT IndexIsSound
CHECK_DEADLOCK FALSE
