CONSTANTS
  Req = {r1}
  Svc = {s1, s2}
  Pub = {p1, p2}
  Fqdn = {d1, d2}
  Rec = {i1, i2, i3}
  Row = {w1, w2}
  NoName = NoName
  NoLink = NoLink
  Label = {"gw"}
  Ops <- UpdateOps
  Clients <- OneClient
  MaxClients = 1
SYMMETRY Symmetry
SPECIFICATION Spec
INVARIANT NamesNeverShared
