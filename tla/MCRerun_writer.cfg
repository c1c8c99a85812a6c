\* Two runs of one command, of two corpora that differ in whether s1 has a writer.
SPECIFICATION Spec
CONSTANTS
  None = None
  Scripts = {"s1", "s2"}
  Databases = {"d", "dist", "sys"}
  SystemDatabases = {"sys"}
  Published = {"d"}
  Distributors = {"dist"}
  OptIns = {"f", "g"}
  OptOuts = {"k"}
  WindowReaders = {"f"}
  Day = 2
  DefaultQueryStoreDays = 2
  Targets = {"sql01", "nameless", "clone"}
  Name <- NameOf
  AddressName <- FiledUnder
  Place <- PlaceOf
  Permissions = {"perm"}
  CommandLines <- OneOption
  Corpora <- BecomesAWriter
  Servers <- OneIsShut
  MaxRuns = 2
  MaxEvents = 1
  MaxHour = 0
INVARIANT SkippedResultIsKept
CHECK_DEADLOCK FALSE
