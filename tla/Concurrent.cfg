CONSTANTS
  Req = {r1, r2}
  Pub = {p1}
  Route = {a}
  Disabled = Disabled
  Absent = Absent
  NoChange = NoChange
  Ops <- InterleavedOps
  Faults <- AllFaults
  MaxConfigs = 3
SPECIFICATION FairSpec
INVARIANTS TypeOK NoRevisionGaps AppliedWasServed
PROPERTIES RevisionsAppendOnly SoloApplyIsLive SoloRevisionIsNew EveryRequestEnds
