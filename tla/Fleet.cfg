CONSTANTS
  Req = {r1, r2}
  Worker = Worker
  Site = {s1, s2}
  Peer = {p1, p2}
  NoPeer = NoPeer
  NoSite = NoSite
  Hosts = 3
  Ops <- AllOps
  Given = {0, 2}
  Columns = {"site"}
SYMMETRY Symmetry
SPECIFICATION Spec
INVARIANT TypeOK
PROPERTIES FleetConsistent SoloAddressIsFree
