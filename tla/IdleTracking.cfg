SPECIFICATION Spec
CONSTANTS
  TickMod = 1000
  MsPerSec = 1
  MinPeriod = 1
  Epoch = 1
  ThrChoices <- Choices
  Latency = 1
  MayFail = TRUE
  MaxClock = 11
INVARIANTS
  TypeOK
  TimerArmed
  AbsenceNoticed
  InputNoticed
PROPERTIES
  NoFalseIdle
  ReturnIsReal
