CONSTANTS
  Pub = {p1, p2}
  Name = {n1, n2}
  Iface = {1}
  DirOf <- OwnDirs
  LastHost = 3
  Proc = {a}
  MaxFaults = 1
  None = None
SPECIFICATION Spec
CHECK_DEADLOCK FALSE
INVARIANT ClaimsUnusedAddress
