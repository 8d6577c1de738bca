SPECIFICATION Spec
CONSTANTS
  Pub = {p1}
  Iface <- TwoInterfaces
  Dir <- OneDirection
  MaxTime = 1
  HourOf <- StillHours
  ZoneMonth <- StillMonths
  UtcMonth <- StillMonths
  DayOf <- OneDay
  YearOf <- Years
  OldFile <- OldLedger
  KeepHours = 1
  OnlineSecs = 0
  None = None
  Writer = {w1, w2}
  MultiHomed = FALSE
  FlockFails = FALSE
  MaxCarried = 2
  NoFile = NoFile
  Torn = Torn
SYMMETRY WriterSymmetry
INVARIANTS
  TypeOK
  LedgerIsWhole
  NeverCountedTwice
  AllAccounted
PROPERTIES
  SavedOnlyGrows
  TodayIsExact
  KeepsTheBook
