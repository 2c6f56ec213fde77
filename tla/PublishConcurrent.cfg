CONSTANTS
  Req = {r1, r2}
  Svc = {s1, s2}
  Pub = {p1, p2}
  Fqdn = {d1}
  Rec = {i1, i2}
  Row = {w1, w2}
  NoName = NoName
  NoLink = NoLink
  Label = {"gw"}
  Ops <- AllOps
  Clients <- OneClient
  MaxClients = 2
SYMMETRY Symmetry
SPECIFICATION Spec
INVARIANTS TypeOK RegistryMatchesServices NamesDistinct SoloClientIsOwn LinksResolve
PROPERTIES NamesReleased SoloPeerIsUnique
