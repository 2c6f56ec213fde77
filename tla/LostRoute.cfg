CONSTANTS
  Req = {r1, r2}
  Pub = {p1, p2}
  Route = {a}
  Disabled = Disabled
  Absent = Absent
  NoChange = NoChange
  Ops <- PublishedOps
  Faults <- NoFaults
  MaxConfigs = 4
SPECIFICATION Spec
INVARIANT PublishedIsRouted
