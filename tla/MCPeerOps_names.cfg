CONSTANTS
  Pub = {p1, p2, p3}
  Name = {n1, n2}
  Iface <- TwoInterfaces
  DirOf <- SharedDir
  LastHost = 3
  Proc = {a, b}
  MaxFaults = 0
  None = None
SPECIFICATION Spec
SYMMETRY CallSymmetry
CHECK_DEADLOCK FALSE
INVARIANT UniqueNames
