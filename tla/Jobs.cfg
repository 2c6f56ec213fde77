CONSTANTS
  Req = {r1}
  Worker = Worker
  Site = {s1}
  Peer = {p1, p2}
  NoPeer = NoPeer
  NoSite = NoSite
  Hosts = 1
  Ops <- SweptOps
  Given = {0}
  Columns = {"enabled"}
  Service = {v1, v2}
  Pool = 1
SPECIFICATION JobsSpec
PROPERTIES MarkSettles ServicesWatched
