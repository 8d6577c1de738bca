SPECIFICATION Spec
CONSTANTS
  Pub = {p1}
  Iface <- OneInterface
  Dir <- OneDirection
  MaxTime = 3
  HourOf <- HalfHours
  ZoneMonth <- EastMonths
  UtcMonth <- UtcMonths
  DayOf <- HalfHourDays
  YearOf <- Years
  OldFile <- OldLedger
  KeepHours = 1
  OnlineSecs = 1
  None = None
  Writer = {w1}
  MultiHomed = FALSE
  FlockFails = FALSE
  MaxCarried = 2
  NoFile = NoFile
  Torn = Torn
PROPERTIES
  TodayIsExact
