SPECIFICATION Spec
CONSTANTS
  Tag = {v1, v2}
  Req = {r1, r2}
  CheckEvery = 2
  None = None
PROPERTIES
  AskedHourly
  ToldRecent
  ErrorsPass
  EveryoneAnswered
