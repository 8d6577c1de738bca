CONSTANTS
  Pub = {p1, p2, p3}
  Name = {n1, n2}
  Iface <- TwoInterfaces
  DirOf <- OwnDirs
  LastHost = 3
  Proc = {a, b}
  MaxFaults = 1
  None = None
SPECIFICATION Spec
SYMMETRY CallSymmetry
CHECK_DEADLOCK FALSE
INVARIANTS
  TypeOK
  NamesDistinct
  ConfigOnFile
  AddressesDistinct
  LiveIsConfigured
  RemovedStaysRemoved
  NoHalfPeers
  NothingStranded
PROPERTY
  AddressKept
