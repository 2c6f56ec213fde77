CONSTANTS
  Req = {r1, r2}
  Site = {s1, s2}
  Node = {n1, n2}
  Service = {v1, v2}
  Pub = {p1}
  NoNode = NoNode
SYMMETRY Symmetry
SPECIFICATION Spec
INVARIANTS TypeOK ReferencesResolve
PROPERTY LossHasCause
