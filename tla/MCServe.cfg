SPECIFICATION Spec
CONSTANTS
  Pub = {p1}
  Req = {r1, r2}
  None = None
  MaxBytes = 1
  MaxLoads = 2
  MaxFailures = 1
INVARIANTS
  SessionsAddUp
  DeletedStaysOff
PROPERTIES
  NewPeerLands
  RunningPeerLands
  RequestsAreAnswered
