SPECIFICATION Spec
CONSTANTS
  SecsPerDay = 2
  DaysPerWeek = 3
  DaysPerMonth = 4
  MonthsPerYear = 2
  IntRange = 128
  Epoch = 24
  StartTime = 1
  StopTime = 1
  MaxClock = 13
  MaxRows = 3
INVARIANTS
  TypeOK
  DayLinesAreExact
  WeekLinesAreExact
  BalloonForetellsLog
PROPERTIES
  FallsOnlyByLoss
CHECK_DEADLOCK FALSE
