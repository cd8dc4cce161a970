SPECIFICATION Spec
CONSTANTS
  TickMod = 7
  MsPerSec = 1
  MinPeriod = 1
  Epoch = 1
  ThrChoices <- OneChoice
  Latency = 1
  MayFail = FALSE
  MaxClock = 14
PROPERTY NoFalseIdle
