CONSTANTS
  Req = {r1}
  Pub = {p1, p2}
  Route = {a}
  Disabled = Disabled
  Absent = Absent
  NoChange = NoChange
  Ops <- AllOps
  Faults <- AllFaults
  MaxConfigs = 3
SYMMETRY SymmetryPub
SPECIFICATION Spec
INVARIANT RevisionsAddressable
PROPERTY AtomicWhenAlone
