SPECIFICATION UpgradeSpec
CONSTANTS
  Pub = {p1}
  Iface <- OneInterface
  Dir <- OneDirection
  MaxTime = 3
  HourOf <- TickHours
  ZoneMonth <- EastMonths
  UtcMonth <- UtcMonths
  DayOf <- EastDays
  YearOf <- Years
  OldFile <- OldLedger
  KeepHours = 1
  OnlineSecs = 1
  None = None
  Writer = {w1}
  MultiHomed = FALSE
  FlockFails = FALSE
  MaxCarried = 2
  NoFile = NoFile
  Torn = Torn
INVARIANTS
  MapsAgree
  RowsNest
  HoursInTheirMonth
PROPERTIES
  SessionsOpenOnce
  TodayIsExact
