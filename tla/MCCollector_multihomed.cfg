SPECIFICATION Spec
CONSTANTS
  Pub = {p1}
  Iface <- TwoInterfaces
  Dir <- OneDirection
  MaxTime = 1
  HourOf <- StillHours
  ZoneMonth <- StillMonths
  UtcMonth <- StillMonths
  DayOf <- OneDay
  YearOf <- Years
  OldFile <- OldLedger
  KeepHours = 1
  OnlineSecs = 1
  None = None
  Writer = {w1}
  MultiHomed = TRUE
  FlockFails = FALSE
  MaxCarried = 2
  NoFile = NoFile
  Torn = Torn
INVARIANTS
  NeverCountedTwice
