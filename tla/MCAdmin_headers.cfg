SPECIFICATION Spec
CONSTANTS
  Pub = {p1, p2}
  Name = {n1, n2}
  Addr <- Hosts
  None = None
  Iface <- BothIfaces
  Kind <- TwoKinds
  Styles <- InlineStyles
  MaxEdits = 2
SYMMETRY NameSymmetry
PROPERTY
  ConfigErased
