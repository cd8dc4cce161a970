SPECIFICATION Spec
CONSTANTS
  TickMod = 1000
  MsPerSec = 1
  MinPeriod = 1
  Epoch = 4
  TaskNames = {Work, Other}
  Work = Work
  Other = Other
  NoName = NoName
  SecsPerDay = 4
  DefaultThr <- Short
  ThrChoices <- OneChoice
  CrashWindows = FALSE
  MaxClock = 10
  MaxRows = 4
PROPERTIES
  BackToOldTask
