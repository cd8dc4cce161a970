SPECIFICATION Spec
CONSTANTS
  TickMod = 10
  MsPerSec = 2
  MinPeriod = 1
  Epoch = 15
  TaskNames = {Work, Other}
  Work = Work
  Other = Other
  NoName = NoName
  SecsPerDay = 6
  DefaultThr <- Short
  ThrChoices <- OnlyLong
  CrashWindows = TRUE
  MaxClock = 9
  MaxRows = 3
INVARIANTS
  TypeOK
  PointerIsDurable
  MemoryMatchesDisk
  DialogMatchesDisk
  HandlerMatchesRecord
  NoOrphans
  Chronological
  RecordsLieInThePast
PROPERTIES
  HistoryFrozen
  ImplementsWorkLog
