\* Three runs of one day, and two edits between them of what is typed, installed or connected to.
SPECIFICATION NearUsualSpec
CONSTANTS
  None = None
  Scripts = {"s1", "s2"}
  Databases = {"d", "dist", "sys"}
  SystemDatabases = {"sys"}
  Published = {"d"}
  Distributors = {"dist"}
  OptIns = {"f", "g"}
  OptOuts = {"k"}
  WindowReaders = {"f"}
  Day = 2
  DefaultQueryStoreDays = 2
  Targets = {"sql01", "nameless", "clone"}
  Name <- NameOf
  AddressName <- FiledUnder
  Place <- PlaceOf
  Permissions = {"perm"}
  CommandLines <- OneOption
  Corpora <- OneIsEdited
  Servers <- OneIsShut
  MaxRuns = 3
  MaxEvents = 2
  MaxHour = 1
INVARIANT AccountIsSound
INVARIANT ReasonsAreTrue
INVARIANT NothingIsLost
INVARIANT NamedOnce
PROPERTY RerunReplaces
CHECK_DEADLOCK FALSE
