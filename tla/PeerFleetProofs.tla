---------------------------- MODULE PeerFleetProofs ----------------------------
(***************************************************************************)
(* Theorems about PeerFleet, for any number of requests, sites and peers   *)
(* and any subnet; and that they hold of WorkerJobs too, where its sweep   *)
(* shares the worker with that of HealthSweep.                             *)
(***************************************************************************)
EXTENDS WorkerJobs, WellFoundedInduction, TLAPS

\* Every peer is at a site that there is, or at none.
SitesLive == \A p \in DOMAIN peers : peers[p].site \in Live \cup {NoSite}

\* A request that has met no other is alone.
SoloAlone == \A a, b \in Req :
    a # b /\ task[a].pc # "idle" /\ task[a].solo => task[b].pc = "idle"

FreeIp(i) == i \notin {Hub, NoIp} /\ \A p \in DOMAIN peers : peers[p].ip # i

\* What it has allocated is still free.
SoloFree == \A a \in Req :
    task[a].pc = "commit" /\ task[a].op = "provision" /\ task[a].solo
        => FreeIp(task[a].ip)

-----------------------------------------------------------------------------
(* Lemmas about the operators.                                             *)

\* A set of numbers that is not empty has a least one.
LEMMA MinIn ==
    ASSUME NEW S \in SUBSET Nat, S # {}
    PROVE  Min(S) \in S
<1> DEFINE R == {ss \in Nat \X Nat : ss[1] < ss[2]}
<1>1. IsWellFoundedOn(R, Nat)
  BY NatLessThanWellFounded DEF OpToRel
<1>2. PICK x \in S : \A y \in S : ~(<<y, x>> \in R)
  BY <1>1, WFMin
<1>3. ASSUME NEW y \in S PROVE x <= y
  <2>1. x \in Nat /\ y \in Nat
    OBVIOUS
  <2>2. CASE y < x
    <3>1. <<y, x>> \in Nat \X Nat /\ <<y, x>>[1] < <<y, x>>[2]
      BY <2>1, <2>2
    <3>2. <<y, x>> \in R
      BY <3>1
    <3> QED BY <1>2, <3>2
  <2> QED BY <2>1, <2>2
<1> QED BY <1>3 DEF Min

\* No request does anything at first.
LEMMA IdleType == Idle \in Task /\ NoEdit \in Edit
BY HostsAssumption DEF Idle, NoEdit, Task, Edit, AllOps, Address, NoIp

\* The row with the columns that are to be written is a row, at its old site or
\* at the one that is to be written.
LEMMA WrittenType ==
    ASSUME NEW new \in Edit, NEW row \in Row
    PROVE  /\ Written(new, row) \in Row
           /\ Written(new, row).site \in new.site \cup {row.site}
<1>1. ASSUME NEW T, NEW N \in SUBSET T, NEW x \in T
      PROVE  Value(N, x) \in T /\ Value(N, x) \in N \cup {x}
  BY DEF Value
<1>2. /\ new.site \in SUBSET Place /\ row.site \in Place
      /\ new.ip \in SUBSET Address /\ row.ip \in Address
      /\ new.enabled \in SUBSET BOOLEAN /\ row.enabled \in BOOLEAN
      /\ new.status \in SUBSET Status /\ row.status \in Status
  BY DEF Edit, Row
<1> QED BY <1>1, <1>2 DEF Written, Row

\* What differs from a row is an edit.
LEMMA ChangedType ==
    ASSUME NEW asked \in Edit, NEW row \in Row
    PROVE  Changed(asked, row) \in Edit
BY DEF Changed, Edit

\* What a PATCH asks for is an edit.
LEMMA PatchesType == Patches \subseteq Edit /\ Disabling \in Edit
<1>1. \A x \in Given : x \in Address
  BY GivenAssumption DEF Address, NoIp
<1>2. Disabling \in Edit
  BY DEF Disabling, Edit, NoEdit, Status
<1>3. ASSUME NEW x \in Place PROVE [NoEdit EXCEPT !.site = {x}] \in Edit
  BY DEF Edit, NoEdit
<1>4. ASSUME NEW x \in Given PROVE [NoEdit EXCEPT !.ip = {x}] \in Edit
  BY <1>1 DEF Edit, NoEdit
<1>5. ASSUME NEW x \in BOOLEAN PROVE [NoEdit EXCEPT !.enabled = {x}] \in Edit
  BY DEF Edit, NoEdit
<1> QED BY <1>2, <1>3, <1>4, <1>5 DEF Patches

\* Every address is a number.
LEMMA Addresses == Address \subseteq Nat
BY HostsAssumption DEF Address, NoIp

\* What is allocated is an address that is free.
LEMMA FreeType ==
    ASSUME Free # {}
    PROVE  Min(Free) \in Address /\ FreeIp(Min(Free))
<1>1. Free \in SUBSET Nat
  BY HostsAssumption DEF Free
<1>2. Min(Free) \in Free
  BY <1>1, MinIn
<1>3. Min(Free) \in Address /\ Min(Free) \notin {Hub, NoIp}
  BY <1>2, HostsAssumption DEF Free, Address, Hub, NoIp
<1>4. \A p \in DOMAIN peers : peers[p].ip # Min(Free)
  BY <1>2, <1>3 DEF Free, Used
<1> QED BY <1>3, <1>4 DEF FreeIp

-----------------------------------------------------------------------------
(* The transactions.                                                       *)

\* Of a transaction alone: its target and what it has allocated.
GoodTask(t) ==
    /\ t \in Task
    /\ t.pc # "idle" /\ t.op \in {"update", "disable", "delete"}
         => \E p \in Peer : t.peer = {p}

\* The types of the tables.
Tables == /\ Live \subseteq Site
          /\ gateway \in [Live -> Peer \cup {NoPeer}]
          /\ DOMAIN peers \subseteq Peer
          /\ peers \in [DOMAIN peers -> Row]

Good == /\ DOMAIN task = Actor
        /\ task \in [Actor -> Task]
        /\ \A a \in Actor : GoodTask(task[a])

IInv == Tables /\ Good /\ SitesLive /\ SoloAlone /\ SoloFree

\* A request arrives: who runs is not alone any more.
LEMMA BeginStep ==
    ASSUME IInv, NEW a \in Actor, NEW r, GoodTask(r),
           r.op = "provision" => r.pc # "commit", Begin(a, r)
    PROVE  IInv'
<1> DEFINE solo == a \in Req /\ InFlight = {}
<1> DEFINE t == [r EXCEPT !.solo = solo]
<1>1. /\ task[a].pc = "idle" /\ UNCHANGED <<gateway, peers>>
      /\ task' = [b \in Actor |->
                    IF b = a THEN t
                    ELSE IF a \in Req THEN [task[b] EXCEPT !.solo = FALSE]
                    ELSE task[b]]
  BY DEF Begin
<1>2. GoodTask(t) /\ t.pc = r.pc /\ t.op = r.op /\ t.solo = solo
  <2>1. solo \in BOOLEAN
    OBVIOUS
  <2> HIDE DEF solo
  <2> QED BY <2>1 DEF GoodTask, Task
<1>3. ASSUME NEW b \in Actor
      PROVE  LET u == [task[b] EXCEPT !.solo = FALSE]
             IN  GoodTask(u) /\ u.pc = task[b].pc /\ u.op = task[b].op /\ ~u.solo
  BY DEF IInv, Good, GoodTask, Task
<1>4. Good'
  <2>1. \A b \in Actor : GoodTask(task'[b])
    BY <1>1, <1>2, <1>3 DEF IInv, Good
  <2>2. \A b \in Actor : task'[b] \in Task
    BY <2>1 DEF GoodTask
  <2>3. DOMAIN task' = Actor /\ task' \in [Actor -> Task]
    BY <1>1, <2>2
  <2> QED BY <2>1, <2>3 DEF Good, GoodTask, Task
<1>5. SoloAlone'
  <2> SUFFICES ASSUME NEW x \in Req, NEW y \in Req, x # y,
                      task'[x].pc # "idle", task'[x].solo
               PROVE  task'[y].pc = "idle"
    BY DEF SoloAlone
  <2>1. x \in Actor /\ y \in Actor
    BY DEF Actor
  <2>2. CASE x = a
    <3>1. InFlight = {}
      BY <1>1, <1>2, <2>1, <2>2
    <3>2. task[y].pc = "idle"
      BY <3>1 DEF InFlight
    <3>3. task'[y] = [task[y] EXCEPT !.solo = FALSE]
      BY <1>1, <2>1, <2>2
    <3> QED BY <1>3, <2>1, <3>2, <3>3
  <2>3. CASE x # a
    <3>1. a \notin Req
      BY <1>1, <1>3, <2>1, <2>3
    <3>2. task'[x] = task[x] /\ task'[y] = task[y]
      BY <1>1, <2>1, <2>3, <3>1
    <3> QED BY <3>2 DEF IInv, SoloAlone
  <2> QED BY <2>2, <2>3
<1>6. SoloFree'
  <2> SUFFICES ASSUME NEW x \in Req, task'[x].pc = "commit",
                      task'[x].op = "provision", task'[x].solo
               PROVE  FreeIp(task[x].ip)'
    BY DEF SoloFree
  <2>1. x \in Actor
    BY DEF Actor
  <2>2. x # a
    BY <1>1, <1>2, <2>1
  <2>3. a \notin Req
    BY <1>1, <1>3, <2>1, <2>2
  <2>4. task'[x] = task[x]
    BY <1>1, <2>1, <2>2, <2>3
  <2> QED BY <1>1, <2>4 DEF IInv, SoloFree, FreeIp
<1>7. Tables' /\ SitesLive'
  BY <1>1 DEF IInv, Tables, SitesLive, Live
<1> QED BY <1>4, <1>5, <1>6, <1>7 DEF IInv

\* A step of one transaction that writes nothing.
LEMMA LocalStep ==
    ASSUME IInv, NEW a \in Actor, task[a].pc # "idle", NEW t, GoodTask(t),
           t.op = task[a].op, t.solo = task[a].solo,
           a \in Req /\ t.pc = "commit" /\ t.op = "provision" => FreeIp(t.ip),
           task' = [task EXCEPT ![a] = t], UNCHANGED <<gateway, peers>>
    PROVE  IInv'
<1>1. \A b \in Actor : task'[b] = IF b = a THEN t ELSE task[b]
  BY DEF IInv, Good
<1>2. Good'
  <2>1. \A b \in Actor : GoodTask(task'[b])
    BY <1>1 DEF IInv, Good
  <2>2. DOMAIN task' = Actor /\ task' \in [Actor -> Task]
    BY DEF IInv, Good, GoodTask
  <2> QED BY <2>1, <2>2 DEF Good, GoodTask, Task
<1>3. SoloAlone'
  BY <1>1 DEF IInv, SoloAlone, Actor
<1>4. SoloFree'
  BY <1>1 DEF IInv, SoloFree, FreeIp, Actor
<1>5. Tables' /\ SitesLive'
  BY DEF IInv, Tables, SitesLive, Live
<1> QED BY <1>2, <1>3, <1>4, <1>5 DEF IInv

\* A transaction ends: what is allocated stays free, since the one that has
\* allocated alone is this one, or this is the worker, which sets no address.
LEMMA FinishStep ==
    ASSUME IInv, NEW a \in Actor, task[a].pc # "idle", Finish(a),
           Tables', SitesLive',
           \/ a \in Req
           \/ \A q \in DOMAIN peers' : q \in DOMAIN peers
                                      /\ peers'[q].ip = peers[q].ip
    PROVE  IInv'
<1>1. \A b \in Actor : task'[b] = IF b = a THEN Idle ELSE task[b]
  BY DEF IInv, Good, Finish
<1>2. GoodTask(Idle) /\ Idle.pc = "idle"
  BY IdleType DEF GoodTask, Idle
<1>3. Good'
  <2>1. \A b \in Actor : GoodTask(task'[b])
    BY <1>1, <1>2 DEF IInv, Good
  <2>2. DOMAIN task' = Actor /\ task' \in [Actor -> Task]
    BY IdleType DEF IInv, Good, Finish
  <2> QED BY <2>1, <2>2 DEF Good, GoodTask, Task
<1>4. SoloAlone'
  BY <1>1, <1>2 DEF IInv, SoloAlone, Actor
<1>5. SoloFree'
  <2> SUFFICES ASSUME NEW x \in Req, task'[x].pc = "commit",
                      task'[x].op = "provision", task'[x].solo
               PROVE  FreeIp(task[x].ip)'
    BY DEF SoloFree
  <2>1. x # a /\ task'[x] = task[x]
    BY <1>1, <1>2 DEF Actor
  <2>2. a \notin Req
    BY <2>1 DEF IInv, SoloAlone
  <2>3. FreeIp(task[x].ip)
    BY <2>1 DEF IInv, SoloFree
  <2> QED BY <2>1, <2>2, <2>3 DEF FreeIp
<1> QED BY <1>3, <1>4, <1>5 DEF IInv

-----------------------------------------------------------------------------
(* The invariant.                                                          *)

\* The initial state: no rows and nothing in flight.
LEMMA InitInv == Init => IInv
<1> SUFFICES ASSUME Init PROVE IInv
  OBVIOUS
<1>1. Tables /\ SitesLive
  BY DEF Init, Nothing, Tables, SitesLive, Live
<1>2. \A a \in Actor : task[a] = Idle
  BY DEF Init
<1>3. Good
  BY <1>2, IdleType DEF Init, Good, GoodTask, Idle
<1>4. SoloAlone /\ SoloFree
  BY <1>2 DEF SoloAlone, SoloFree, Actor, Idle
<1> QED BY <1>1, <1>3, <1>4 DEF IInv

\* A site is created.
LEMMA CreateSiteInv == ASSUME IInv, CreateSite PROVE IInv'
<1>1. PICK s \in Site \ Live : gateway' = Put(gateway, s, NoPeer)
  BY DEF CreateSite
<1>2. UNCHANGED <<peers, task>>
  BY DEF CreateSite
<1>3. /\ Live \subseteq Site /\ gateway \in [Live -> Peer \cup {NoPeer}]
      /\ DOMAIN gateway = Live
  BY DEF IInv, Tables, Live
<1>4. /\ Live' = Live \cup {s}
      /\ gateway' \in [Live' -> Peer \cup {NoPeer}]
  <2> DEFINE V == Peer \cup {NoPeer}
  <2>1. DOMAIN gateway \subseteq Site /\ gateway \in [DOMAIN gateway -> V]
        /\ NoPeer \in V
    BY <1>3
  <2> HIDE DEF V
  <2>2. /\ DOMAIN Put(gateway, s, NoPeer) = DOMAIN gateway \cup {s}
        /\ Put(gateway, s, NoPeer) \in [DOMAIN Put(gateway, s, NoPeer) -> V]
    BY <2>1 DEF Put
  <2> QED BY <1>1, <2>2 DEF Live, V
<1>5. Tables' /\ SitesLive'
  BY <1>2, <1>3, <1>4 DEF IInv, Tables, SitesLive
<1>6. Good' /\ SoloAlone' /\ SoloFree'
  BY <1>2 DEF IInv, Good, SoloAlone, SoloFree, FreeIp
<1> QED BY <1>5, <1>6 DEF IInv

\* The arrivals.
LEMMA ArrivalsInv ==
    ASSUME IInv, BeginSweep \/ \E a \in Req : BeginSite(a) \/ BeginPeer(a)
                                              \/ BeginCreate(a)
    PROVE  IInv'
<1>1. Req \subseteq Actor /\ Worker \in Actor
  BY DEF Actor
<1>2. CASE BeginSweep
  <2> DEFINE r == [Idle EXCEPT !.op = "sweep", !.pc = "select"]
  <2>1. GoodTask(r) /\ r.op = "sweep"
    BY IdleType DEF GoodTask, Idle, Task
  <2> QED BY <1>1, <1>2, <2>1, BeginStep DEF BeginSweep
<1>3. ASSUME NEW a \in Req, BeginSite(a) PROVE IInv'
  <2>1. PICK op \in {"provision", "patchSite", "deleteSite"}, s \in Site :
          Begin(a, [Idle EXCEPT !.op = op, !.pc = "load", !.site = {s}])
    BY <1>3 DEF BeginSite
  <2> DEFINE r == [Idle EXCEPT !.op = op, !.pc = "load", !.site = {s}]
  <2>2. GoodTask(r) /\ r.pc = "load"
    BY IdleType DEF GoodTask, Idle, Task, AllOps, Place
  <2> QED BY <1>1, <2>1, <2>2, BeginStep
<1>4. ASSUME NEW a \in Req, BeginPeer(a) PROVE IInv'
  <2>1. PICK op \in {"update", "disable", "delete"}, p \in Peer :
          Begin(a, [Idle EXCEPT !.op = op, !.pc = "load", !.peer = {p}])
    BY <1>4 DEF BeginPeer
  <2> DEFINE r == [Idle EXCEPT !.op = op, !.pc = "load", !.peer = {p}]
  <2>2. GoodTask(r) /\ r.pc = "load"
    BY IdleType DEF GoodTask, Idle, Task, AllOps
  <2> QED BY <1>1, <2>1, <2>2, BeginStep
<1>5. ASSUME NEW a \in Req, BeginCreate(a) PROVE IInv'
  <2>1. PICK s \in Place, i \in Given :
          Begin(a, [Idle EXCEPT !.op = "create", !.pc = "commit",
                                !.site = {s}, !.ip = i])
    BY <1>5 DEF BeginCreate
  <2> DEFINE r == [Idle EXCEPT !.op = "create", !.pc = "commit",
                               !.site = {s}, !.ip = i]
  <2>2. i \in Address
    BY GivenAssumption DEF Address, NoIp
  <2>3. GoodTask(r) /\ r.op = "create"
    BY <2>2, IdleType DEF GoodTask, Idle, Task, AllOps
  <2> QED BY <1>1, <2>1, <2>3, BeginStep
<1> QED BY <1>2, <1>3, <1>4, <1>5

\* A transaction that ends without a write.
LEMMA QuitInv ==
    ASSUME IInv, NEW a \in Actor, task[a].pc # "idle", Finish(a),
           UNCHANGED <<gateway, peers>>
    PROVE  IInv'
<1>1. Tables' /\ SitesLive'
  BY DEF IInv, Tables, SitesLive, Live
<1> QED BY <1>1, FinishStep

\* The reads.
LEMMA LoadSiteInv == ASSUME IInv, NEW a \in Req, LoadSite(a) PROVE IInv'
<1>1. /\ a \in Actor /\ task[a] \in Task /\ GoodTask(task[a])
      /\ task[a].pc = "load"
      /\ task[a].op \in {"provision", "patchSite", "deleteSite"}
      /\ UNCHANGED <<gateway, peers>>
  BY DEF Actor, IInv, Good, LoadSite
<1>2. CASE Finish(a)
  BY <1>1, <1>2, QuitInv
<1>3. CASE /\ task[a].op = "provision"
           /\ task' = [task EXCEPT ![a].pc = "select"]
  <2> DEFINE t == [task[a] EXCEPT !.pc = "select"]
  <2>1. task' = [task EXCEPT ![a] = t]
    BY <1>1, <1>3 DEF IInv, Good
  <2>2. /\ GoodTask(t) /\ t.op = task[a].op /\ t.solo = task[a].solo
        /\ t.pc = "select"
    BY <1>1, <1>3 DEF GoodTask, Task
  <2> HIDE DEF t
  <2> QED BY <1>1, <2>1, <2>2, LocalStep
<1>4. CASE /\ task[a].op = "patchSite"
           /\ \E g \in Peer \cup {NoPeer} :
                task' = [task EXCEPT ![a].pc = "commit",
                                     ![a].peer = {g} \ {NoPeer}]
  <2>1. PICK g \in Peer \cup {NoPeer} :
          task' = [task EXCEPT ![a].pc = "commit", ![a].peer = {g} \ {NoPeer}]
    BY <1>4
  <2> DEFINE t == [task[a] EXCEPT !.pc = "commit", !.peer = {g} \ {NoPeer}]
  <2>2. task' = [task EXCEPT ![a] = t]
    BY <1>1, <2>1 DEF IInv, Good
  <2>3. GoodTask(t) /\ t.op = "patchSite" /\ t.solo = task[a].solo
    BY <1>1, <1>4 DEF GoodTask, Task
  <2> HIDE DEF t
  <2> QED BY <1>1, <1>4, <2>2, <2>3, LocalStep
<1>5. CASE /\ task[a].op = "deleteSite"
           /\ task' = [task EXCEPT ![a].pc = "commit",
                                   ![a].dirty = PeersAt(task[a].site)]
  <2> DEFINE t == [task[a] EXCEPT !.pc = "commit",
                                  !.dirty = PeersAt(task[a].site)]
  <2>1. task' = [task EXCEPT ![a] = t]
    BY <1>1, <1>5 DEF IInv, Good
  <2>2. PeersAt(task[a].site) \subseteq Peer
    BY DEF PeersAt, IInv, Tables
  <2>3. GoodTask(t) /\ t.op = "deleteSite" /\ t.solo = task[a].solo
    BY <1>1, <1>5, <2>2 DEF GoodTask, Task
  <2> HIDE DEF t
  <2> QED BY <1>1, <1>5, <2>1, <2>3, LocalStep
<1> QED BY <1>2, <1>3, <1>4, <1>5 DEF LoadSite

\* The address chosen is free at this moment.
LEMMA SelectIpInv == ASSUME IInv, NEW a \in Req, SelectIp(a) PROVE IInv'
<1>1. /\ a \in Actor /\ task[a] \in Task /\ GoodTask(task[a])
      /\ task[a].pc = "select" /\ task[a].op = "provision"
      /\ UNCHANGED <<gateway, peers>>
  BY DEF Actor, IInv, Good, SelectIp
<1>2. CASE Free = {}
  BY <1>1, <1>2, QuitInv DEF SelectIp
<1>3. CASE Free # {}
  <2> DEFINE t == [task[a] EXCEPT !.pc = "commit", !.ip = Min(Free)]
  <2>1. task' = [task EXCEPT ![a] = t]
    BY <1>1, <1>3 DEF SelectIp, IInv, Good
  <2>2. Min(Free) \in Address /\ FreeIp(Min(Free))
    BY <1>3, FreeType
  <2>3. GoodTask(t) /\ t.op = task[a].op /\ t.solo = task[a].solo
        /\ t.ip = Min(Free)
    BY <1>1, <2>2 DEF GoodTask, Task
  <2> HIDE DEF t
  <2> QED BY <1>1, <2>1, <2>2, <2>3, LocalStep
<1> QED BY <1>2, <1>3

\* The columns to be written are those that differ from the row.
LEMMA LoadPeerInv == ASSUME IInv, NEW a \in Req, LoadPeer(a) PROVE IInv'
<1>1. /\ a \in Actor /\ task[a] \in Task /\ GoodTask(task[a])
      /\ task[a].pc = "load" /\ task[a].op \in {"update", "disable", "delete"}
      /\ UNCHANGED <<gateway, peers>>
  BY DEF Actor, IInv, Good, LoadPeer
<1>2. ASSUME NEW new \in Edit,
             task' = [task EXCEPT ![a].pc = "commit", ![a].new = new]
      PROVE  IInv'
  <2> DEFINE t == [task[a] EXCEPT !.pc = "commit", !.new = new]
  <2>1. task' = [task EXCEPT ![a] = t]
    BY <1>1, <1>2 DEF IInv, Good
  <2>2. GoodTask(t) /\ t.op = task[a].op /\ t.solo = task[a].solo
        /\ t.op # "provision"
    BY <1>1 DEF GoodTask, Task
  <2> HIDE DEF t
  <2> QED BY <1>1, <2>1, <2>2, LocalStep
<1>3. CASE task' = [task EXCEPT ![a].pc = "commit"]
  <2> DEFINE t == [task[a] EXCEPT !.pc = "commit"]
  <2>1. task' = [task EXCEPT ![a] = t]
    BY <1>1, <1>3 DEF IInv, Good
  <2>2. GoodTask(t) /\ t.op = task[a].op /\ t.solo = task[a].solo
        /\ t.op # "provision"
    BY <1>1 DEF GoodTask, Task
  <2> HIDE DEF t
  <2> QED BY <1>1, <2>1, <2>2, LocalStep
<1>4. CASE Finish(a)
  BY <1>1, <1>4, QuitInv
<1>5. \A p \in DOMAIN peers : peers[p] \in Row
  BY DEF IInv, Tables
<1>6. \A p \in DOMAIN peers, asked \in Patches \cup {Disabling} :
         Changed(asked, peers[p]) \in Edit
  BY <1>5, PatchesType, ChangedType
<1> QED BY <1>2, <1>3, <1>4, <1>6 DEF LoadPeer

\* The sweep reads peers that there are.
LEMMA SelectPeersInv == ASSUME IInv, SelectPeers PROVE IInv'
<1> DEFINE D == {p \in DOMAIN peers : StatusDirty(peers[p])}
<1> DEFINE t == [task[Worker] EXCEPT !.pc = "commit", !.dirty = D]
<1>1. Worker \in Actor /\ task[Worker] \in Task /\ GoodTask(task[Worker])
      /\ task[Worker].pc = "select" /\ UNCHANGED <<gateway, peers>>
  BY DEF Actor, IInv, Good, SelectPeers
<1>2. task' = [task EXCEPT ![Worker] = t]
  BY <1>1 DEF SelectPeers, IInv, Good
<1>3. D \subseteq Peer
  BY DEF IInv, Tables
<1>4. GoodTask(t) /\ t.op = task[Worker].op /\ t.solo = task[Worker].solo
      /\ t.ip = task[Worker].ip
  BY <1>1, <1>3 DEF GoodTask, Task
<1>5. Worker \notin Req
  BY NamesAssumption
<1> HIDE DEF t
<1> QED BY <1>1, <1>2, <1>4, <1>5, LocalStep

\* The commits.
LEMMA CommitDeleteSiteInv ==
    ASSUME IInv, NEW a \in Req, CommitDeleteSite(a) PROVE IInv'
<1> DEFINE D == task[a].dirty \cup PeersAt(task[a].site)
<1> DEFINE V == Peer \cup {NoPeer}
<1>1. /\ a \in Actor /\ task[a].pc # "idle" /\ Finish(a)
      /\ gateway' = Without(gateway, task[a].site) /\ peers' = Without(peers, D)
  BY DEF Actor, CommitDeleteSite
<1>2. /\ DOMAIN gateway \subseteq Site /\ gateway \in [DOMAIN gateway -> V]
      /\ DOMAIN peers \subseteq Peer /\ peers \in [DOMAIN peers -> Row]
  BY DEF IInv, Tables, Live
<1> HIDE DEF D, V
<1>3. /\ DOMAIN gateway' = DOMAIN gateway \ task[a].site
      /\ gateway' \in [DOMAIN gateway' -> V]
  BY <1>1, <1>2 DEF Without
<1>4. /\ DOMAIN peers' = DOMAIN peers \ D /\ peers' \in [DOMAIN peers' -> Row]
      /\ \A x \in DOMAIN peers' : peers'[x] = peers[x]
  BY <1>1, <1>2 DEF Without
<1>5. Tables'
  BY <1>2, <1>3, <1>4 DEF Tables, Live, V
<1>6. SitesLive'
  <2> SUFFICES ASSUME NEW p \in DOMAIN peers'
               PROVE  peers'[p].site \in Live' \cup {NoSite}
    BY DEF SitesLive
  <2>1. p \in DOMAIN peers /\ p \notin D /\ peers'[p] = peers[p]
    BY <1>4
  <2>2. peers[p].site \in DOMAIN gateway \cup {NoSite}
    BY <2>1 DEF IInv, SitesLive, Live
  <2>3. peers[p].site \notin task[a].site
    BY <2>1 DEF D, PeersAt
  <2> QED BY <1>3, <2>1, <2>2, <2>3 DEF Live
<1> QED BY <1>1, <1>5, <1>6, FinishStep

\* A PATCH names any peer as the gateway of its site.
LEMMA CommitPatchSiteInv ==
    ASSUME IInv, NEW a \in Req, CommitPatchSite(a) PROVE IInv'
<1>1. /\ a \in Actor /\ task[a] \in Task /\ task[a].pc # "idle" /\ Finish(a)
      /\ UNCHANGED peers
  BY DEF Actor, CommitPatchSite, IInv, Good
<1>2. Value(task[a].peer, NoPeer) \in Peer \cup {NoPeer}
  BY <1>1 DEF Task, Value
<1>3. Live' = Live /\ gateway' \in [Live -> Peer \cup {NoPeer}]
  BY <1>2 DEF CommitPatchSite, IInv, Tables, Live
<1>4. Tables' /\ SitesLive'
  BY <1>1, <1>3 DEF IInv, Tables, SitesLive
<1> QED BY <1>1, <1>4, FinishStep

\* A peer is inserted at a site that is there, or at none.
LEMMA CommitNewPeerInv ==
    ASSUME IInv, NEW a \in Req, CommitNewPeer(a) PROVE IInv'
<1>1. a \in Actor /\ task[a] \in Task /\ task[a].pc # "idle" /\ Finish(a)
  BY DEF Actor, CommitNewPeer, IInv, Good
<1>2. CASE UNCHANGED <<gateway, peers>>
  BY <1>1, <1>2, QuitInv
<1>3. CASE ~UNCHANGED <<gateway, peers>>
  <2> DEFINE row(s) == [site |-> s, ip |-> task[a].ip, enabled |-> TRUE,
                        status |-> "unknown"]
  <2>1. PICK s \in task[a].site, p \in Peer :
          /\ s \in Live \cup {NoSite} /\ peers' = Put(peers, p, row(s))
          /\ gateway' = IF task[a].op = "create" THEN gateway
                        ELSE [gateway EXCEPT ![s] = p]
    BY <1>3 DEF CommitNewPeer, SiteExists
  <2>2. /\ DOMAIN peers \subseteq Peer /\ peers \in [DOMAIN peers -> Row]
        /\ Live \subseteq Site /\ gateway \in [Live -> Peer \cup {NoPeer}]
    BY DEF IInv, Tables
  <2>3. row(s) \in Row /\ row(s).site = s
    BY <1>1, <2>1 DEF Task, Row, Status
  <2> HIDE DEF row
  <2>4. /\ DOMAIN peers' = DOMAIN peers \cup {p}
        /\ peers' \in [DOMAIN peers' -> Row] /\ peers'[p] = row(s)
        /\ \A x \in DOMAIN peers \ {p} : peers'[x] = peers[x]
    BY <2>1, <2>2, <2>3 DEF Put
  <2>5. Live' = Live /\ gateway' \in [Live -> Peer \cup {NoPeer}]
    <3>1. gateway' \in [Live -> Peer \cup {NoPeer}]
      BY <2>1, <2>2
    <3> QED BY <3>1 DEF Live
  <2>6. Tables'
    BY <2>2, <2>4, <2>5 DEF Tables
  <2>7. SitesLive'
    BY <2>1, <2>3, <2>4, <2>5 DEF IInv, SitesLive
  <2> QED BY <1>1, <2>6, <2>7, FinishStep
<1> QED BY <1>2, <1>3

\* A peer moves only to a site that is there, or to none.
LEMMA CommitEditInv == ASSUME IInv, NEW a \in Req, CommitEdit(a) PROVE IInv'
<1>1. /\ a \in Actor /\ task[a] \in Task /\ task[a].pc # "idle" /\ Finish(a)
      /\ UNCHANGED gateway
  BY DEF Actor, CommitEdit, IInv, Good
<1>2. CASE UNCHANGED peers
  BY <1>1, <1>2, QuitInv
<1>3. CASE ~UNCHANGED peers
  <2> DEFINE new == task[a].new
  <2>1. PICK p \in task[a].peer :
          /\ p \in DOMAIN peers /\ new.site \subseteq Live \cup {NoSite}
          /\ peers' = [peers EXCEPT ![p] = Written(new, peers[p])]
    BY <1>3 DEF CommitEdit, SiteExists
  <2>2. new \in Edit /\ peers[p] \in Row
    BY <1>1, <2>1 DEF Task, IInv, Tables
  <2> HIDE DEF new
  <2>3. /\ Written(new, peers[p]) \in Row
        /\ Written(new, peers[p]).site \in new.site \cup {peers[p].site}
    BY <2>2, WrittenType
  <2>4. /\ DOMAIN peers' = DOMAIN peers /\ peers' \in [DOMAIN peers -> Row]
        /\ peers'[p] = Written(new, peers[p])
        /\ \A x \in DOMAIN peers \ {p} : peers'[x] = peers[x]
    BY <2>1, <2>3 DEF IInv, Tables
  <2>5. Tables'
    BY <1>1, <2>4 DEF IInv, Tables, Live
  <2>6. SitesLive'
    BY <1>1, <2>1, <2>3, <2>4 DEF IInv, SitesLive, Live
  <2> QED BY <1>1, <2>5, <2>6, FinishStep
<1> QED BY <1>2, <1>3

\* A peer is deleted.
LEMMA CommitDeleteInv ==
    ASSUME IInv, NEW a \in Req, CommitDelete(a) PROVE IInv'
<1> DEFINE D == task[a].peer
<1>1. /\ a \in Actor /\ task[a].pc # "idle" /\ Finish(a)
      /\ UNCHANGED gateway /\ peers' = Without(peers, D)
  BY DEF Actor, CommitDelete
<1>2. DOMAIN peers \subseteq Peer /\ peers \in [DOMAIN peers -> Row]
  BY DEF IInv, Tables
<1>3. /\ DOMAIN peers' = DOMAIN peers \ D /\ peers' \in [DOMAIN peers' -> Row]
      /\ \A x \in DOMAIN peers' : peers'[x] = peers[x]
  BY <1>1, <1>2 DEF Without
<1>4. Tables' /\ SitesLive'
  BY <1>1, <1>2, <1>3 DEF IInv, Tables, SitesLive, Live
<1> QED BY <1>1, <1>4, FinishStep

\* What the sweep writes.
LEMMA SweptType ==
    ASSUME IInv, CommitSweep
    PROVE  /\ DOMAIN peers' = DOMAIN peers
           /\ peers' \in [DOMAIN peers -> Row]
           /\ \A p \in DOMAIN peers : /\ peers'[p].site = peers[p].site
                                      /\ peers'[p].ip = peers[p].ip
<1>1. peers \in [DOMAIN peers -> Row]
  BY DEF IInv, Tables
<1>2. \A p \in DOMAIN peers :
         LET r == [peers[p] EXCEPT !.status = "unknown"]
         IN  r \in Row /\ r.site = peers[p].site /\ r.ip = peers[p].ip
  BY <1>1 DEF Row, Status
<1>3. CASE UNCHANGED peers
  BY <1>1, <1>3
<1>4. CASE ~UNCHANGED peers
  <2> DEFINE dirty == task[Worker].dirty
  <2>1. peers' = [p \in DOMAIN peers |->
                    IF p \in dirty THEN [peers[p] EXCEPT !.status = "unknown"]
                    ELSE peers[p]]
    BY <1>4 DEF CommitSweep
  <2> HIDE DEF dirty
  <2> QED BY <1>1, <1>2, <2>1
<1> QED BY <1>3, <1>4

\* The sweep moves no peer and sets no address.
LEMMA CommitSweepInv == ASSUME IInv, CommitSweep PROVE IInv'
<1>1. /\ Worker \in Actor /\ task[Worker].pc # "idle" /\ Finish(Worker)
      /\ UNCHANGED gateway
  BY DEF Actor, CommitSweep
<1>2. Tables' /\ SitesLive'
  BY <1>1, SweptType DEF IInv, Tables, SitesLive, Live
<1> QED BY <1>1, <1>2, SweptType, FinishStep

\* Every step is an arrival, a read, a commit or an abort.
LEMMA NextInv == IInv /\ [Next]_vars => IInv'
<1> SUFFICES ASSUME IInv, [Next]_vars PROVE IInv'
  OBVIOUS
<1>1. CASE CreateSite
  BY <1>1, CreateSiteInv
<1>2. CASE BeginSweep
  BY <1>2, ArrivalsInv
<1>3. CASE SelectPeers
  BY <1>3, SelectPeersInv
<1>4. CASE CommitSweep
  BY <1>4, CommitSweepInv
<1>5. ASSUME NEW a \in Actor, Abort(a) PROVE IInv'
  BY <1>5, QuitInv DEF Abort
<1>6. ASSUME NEW a \in Req,
             \/ BeginSite(a) \/ BeginPeer(a) \/ BeginCreate(a)
             \/ LoadSite(a) \/ CommitPatchSite(a) \/ CommitDeleteSite(a)
             \/ SelectIp(a) \/ CommitNewPeer(a) \/ LoadPeer(a)
             \/ CommitEdit(a) \/ CommitDelete(a)
      PROVE  IInv'
  BY <1>6, ArrivalsInv, LoadSiteInv, CommitPatchSiteInv,
     CommitDeleteSiteInv, SelectIpInv, CommitNewPeerInv, LoadPeerInv, CommitEditInv, CommitDeleteInv
<1>7. CASE UNCHANGED vars
  BY <1>7 DEF vars, IInv, Tables, Good, SitesLive, SoloAlone, SoloFree,
     FreeIp, Live
<1> QED
  <2>1. Worker \in Actor /\ Req \subseteq Actor
    BY DEF Actor
  <2> QED BY <1>1, <1>2, <1>3, <1>4, <1>5, <1>6, <1>7, <2>1 DEF Next

-----------------------------------------------------------------------------
(* What may separate a site from its gateway.                              *)

Separates(a, s) ==
    \/ /\ CommitDelete(a) \/ CommitEdit(a)
       /\ task[a].peer = {gateway[s]}
    \/ /\ CommitDeleteSite(a)
       /\ gateway[s] \in task[a].dirty /\ s \notin task[a].site
    \/ CommitPatchSite(a) /\ s \in task[a].site

Parts(s) == gateway'[s] # NoPeer /\ ~Belongs(s)' /\ (s \in Live => Belongs(s))

\* A step that changes no gateway and neither deletes nor moves a peer parts
\* no site from its gateway.
LEMMA Together ==
    ASSUME UNCHANGED gateway, NEW s \in Live', Parts(s),
           \A p \in DOMAIN peers : p \in DOMAIN peers' /\ peers'[p].site = peers[p].site
    PROVE  FALSE
<1>1. s \in Live /\ Belongs(s)
  BY DEF Live, Parts
<1> QED BY <1>1 DEF Belongs, Parts

\* A new site has no gateway.
LEMMA CreateSiteParts ==
    ASSUME IInv, CreateSite, NEW s \in Live', Parts(s) PROVE FALSE
<1>1. PICK x \in Site \ Live : gateway' = Put(gateway, x, NoPeer)
  BY DEF CreateSite
<1>2. peers' = peers
  BY DEF CreateSite
<1>3. s # x
  BY <1>1 DEF Put, Parts, Live
<1>4. s \in Live /\ gateway'[s] = gateway[s]
  BY <1>1, <1>3 DEF Put, Live
<1> QED BY <1>2, <1>4 DEF Parts, Belongs

\* A gateway that is provisioned is a new peer, at its site.
LEMMA CommitNewPeerParts ==
    ASSUME IInv, NEW a \in Req, CommitNewPeer(a), NEW s \in Live', Parts(s)
    PROVE  FALSE
<1>1. CASE UNCHANGED <<gateway, peers>>
  BY <1>1, Together
<1>2. CASE ~UNCHANGED <<gateway, peers>>
  <2>1. PICK x \in task[a].site, p \in Peer :
          /\ Fresh(p) /\ x \in Live \cup {NoSite}
          /\ peers' = Put(peers, p,
                 [site |-> x, ip |-> task[a].ip, enabled |-> TRUE,
                  status |-> "unknown"])
          /\ gateway' = IF task[a].op = "create" THEN gateway
                        ELSE [gateway EXCEPT ![x] = p]
    BY <1>2 DEF CommitNewPeer, SiteExists
  <2>2. /\ p \in DOMAIN peers' /\ peers'[p].site = x
        /\ \A q \in DOMAIN peers : q \in DOMAIN peers' /\ peers'[q] = peers[q]
    BY <2>1 DEF Put, Fresh
  <2>3. CASE UNCHANGED gateway
    BY <2>2, <2>3, Together
  <2>4. CASE gateway' = [gateway EXCEPT ![x] = p]
    <3>1. gateway \in [Live -> Peer \cup {NoPeer}]
      BY DEF IInv, Tables
    <3>2. s \in Live /\ gateway'[s] = IF s = x THEN p ELSE gateway[s]
      BY <2>4, <3>1 DEF Live
    <3> QED BY <2>2, <3>2 DEF Parts, Belongs
  <2> QED BY <2>1, <2>3, <2>4
<1> QED BY <1>1, <1>2

\* A PATCH changes the gateway of no other site.
LEMMA CommitPatchSiteParts ==
    ASSUME IInv, NEW a \in Req, CommitPatchSite(a), NEW s \in Live', Parts(s)
    PROVE  Separates(a, s)
<1>1. CASE s \in task[a].site
  BY <1>1 DEF Separates
<1>2. CASE s \notin task[a].site
  <2>1. s \in Live /\ gateway'[s] = gateway[s] /\ peers' = peers
    BY <1>2 DEF CommitPatchSite, Live
  <2> QED BY <2>1 DEF Parts, Belongs
<1> QED BY <1>1, <1>2

\* The deletion of another site.
LEMMA CommitDeleteSiteParts ==
    ASSUME IInv, NEW a \in Req, CommitDeleteSite(a), NEW s \in Live', Parts(s)
    PROVE  Separates(a, s)
<1>1. /\ gateway' = Without(gateway, task[a].site)
      /\ peers' = Without(peers, task[a].dirty \cup PeersAt(task[a].site))
  BY DEF CommitDeleteSite
<1>2. s \in Live /\ s \notin task[a].site /\ gateway'[s] = gateway[s]
  BY <1>1 DEF Live, Without
<1>3. gateway[s] \in DOMAIN peers /\ peers[gateway[s]].site = s
  BY <1>2 DEF Parts, Belongs
<1>4. gateway[s] \notin PeersAt(task[a].site)
  BY <1>2, <1>3 DEF PeersAt
<1>5. gateway[s] \in task[a].dirty
  BY <1>1, <1>2, <1>3, <1>4 DEF Parts, Belongs, Without
<1> QED BY <1>2, <1>5 DEF Separates

\* A request that deletes or edits a peer is about one.
LEMMA CommitDeleteParts ==
    ASSUME IInv, NEW a \in Req, CommitDelete(a), NEW s \in Live', Parts(s)
    PROVE  Separates(a, s)
<1>1. peers' = Without(peers, task[a].peer) /\ gateway' = gateway
  BY DEF CommitDelete
<1>2. PICK p \in Peer : task[a].peer = {p}
  BY DEF CommitDelete, IInv, Good, GoodTask, Actor
<1>3. s \in Live /\ gateway[s] \in DOMAIN peers /\ peers[gateway[s]].site = s
  BY <1>1 DEF Parts, Belongs, Live
<1>4. gateway[s] = p
  BY <1>1, <1>2, <1>3 DEF Parts, Belongs, Without
<1> QED BY <1>2, <1>4 DEF Separates

\* An edit touches no other peer.
LEMMA CommitEditParts ==
    ASSUME IInv, NEW a \in Req, CommitEdit(a), NEW s \in Live', Parts(s)
    PROVE  Separates(a, s)
<1>1. PICK p \in task[a].peer :
         peers' = peers \/ \E row : peers' = [peers EXCEPT ![p] = row]
  BY DEF CommitEdit
<1>2. task[a].peer = {p}
  BY DEF CommitEdit, IInv, Good, GoodTask, Actor
<1>3. gateway' = gateway
  BY DEF CommitEdit
<1>4. s \in Live /\ gateway[s] \in DOMAIN peers /\ peers[gateway[s]].site = s
  BY <1>3 DEF Parts, Belongs, Live
<1>5. gateway[s] = p
  BY <1>1, <1>3, <1>4 DEF Parts, Belongs
<1> QED BY <1>2, <1>5 DEF Separates

\* Every step.
LEMMA StepParts ==
    ASSUME IInv, [Next]_vars, NEW s \in Live', Parts(s)
    PROVE  \E a \in Req : Separates(a, s)
<1>1. CASE UNCHANGED <<gateway, peers>>
  BY <1>1, Together
<1>2. CASE CreateSite
  BY <1>2, CreateSiteParts
<1>3. CASE CommitSweep
  <2>1. gateway' = gateway
    BY <1>3 DEF CommitSweep
  <2> QED BY <1>3, <2>1, SweptType, Together
<1>4. ASSUME NEW a \in Req,
             \/ CommitPatchSite(a) \/ CommitDeleteSite(a) \/ CommitNewPeer(a)
             \/ CommitEdit(a) \/ CommitDelete(a)
      PROVE  Separates(a, s)
  BY <1>4, CommitPatchSiteParts, CommitDeleteSiteParts, CommitNewPeerParts,
     CommitEditParts, CommitDeleteParts
<1>5. \A a \in Actor : Abort(a) => UNCHANGED <<gateway, peers>>
  BY DEF Abort
<1>6. SelectPeers \/ BeginSweep => UNCHANGED <<gateway, peers>>
  BY DEF SelectPeers, BeginSweep, Begin
<1>7. \A a \in Req :
         BeginSite(a) \/ BeginPeer(a) \/ BeginCreate(a) \/ LoadSite(a)
         \/ SelectIp(a) \/ LoadPeer(a) => UNCHANGED <<gateway, peers>>
  BY DEF BeginSite, BeginPeer, BeginCreate, Begin, LoadSite, SelectIp, LoadPeer
<1>8. UNCHANGED vars => UNCHANGED <<gateway, peers>>
  BY DEF vars
<1>9. Worker \in Actor /\ Req \subseteq Actor
  BY DEF Actor
<1> QED BY <1>1, <1>2, <1>3, <1>4, <1>5, <1>6, <1>7, <1>8, <1>9 DEF Next

-----------------------------------------------------------------------------
(* The theorems.                                                           *)

\* What is known of the fleet holds in every state.
THEOREM Invariance == Spec => []IInv
BY InitInv, NextInv, PTL DEF Spec

\* Every variable keeps its type, whatever requests and sweeps interleave.
THEOREM TypeCorrect == Spec => []TypeOK
<1>1. IInv => TypeOK
  BY DEF IInv, Tables, Good, TypeOK
<1> QED BY <1>1, Invariance, PTL

\* provision_gateway gives the gateway an address that no peer has and that
\* is not the hub's, if no other request was in flight meanwhile: the sweep,
\* a foreign key that fails and an aborted request do not matter.
THEOREM AddressFree == Spec => SoloAddressIsFree
<1>1. IInv /\ [Next]_vars =>
        [\A a \in Req :
            CommitNewPeer(a) /\ task[a].op = "provision" /\ task[a].solo =>
              /\ task[a].ip \notin {Hub, NoIp}
              /\ \A p \in DOMAIN peers : peers[p].ip # task[a].ip]_vars
  BY DEF IInv, SoloFree, FreeIp, CommitNewPeer
<1> QED BY <1>1, Invariance, PTL DEF Spec, SoloAddressIsFree

\* A peer never outlives its site, and only a deletion or a move of the
\* gateway itself, the deletion of another site that had read it as its own,
\* or a PATCH of the site, parts a site from its gateway, however many
\* requests interleave.
THEOREM Consistent == Spec => FleetConsistent
<1> DEFINE Step ==
       /\ \A p \in DOMAIN peers' : peers'[p].site \in Live' \cup {NoSite}
       /\ \A s \in Live' :
            gateway'[s] # NoPeer /\ ~Belongs(s)' /\ (s \in Live => Belongs(s)) =>
               \E a \in Req :
                  \/ /\ CommitDelete(a) \/ CommitEdit(a)
                     /\ task[a].peer = {gateway[s]}
                  \/ /\ CommitDeleteSite(a)
                     /\ gateway[s] \in task[a].dirty /\ s \notin task[a].site
                  \/ CommitPatchSite(a) /\ s \in task[a].site
<1>1. IInv /\ [Next]_vars => Step
  <2> SUFFICES ASSUME IInv, [Next]_vars PROVE Step
    OBVIOUS
  <2>1. \A p \in DOMAIN peers' : peers'[p].site \in Live' \cup {NoSite}
    BY NextInv DEF IInv, SitesLive
  <2>2. ASSUME NEW s \in Live', Parts(s) PROVE \E a \in Req : Separates(a, s)
    BY <2>2, StepParts
  <2> QED BY <2>1, <2>2 DEF Parts, Separates
<1> QED BY <1>1, Invariance, PTL DEF Spec, FleetConsistent

-----------------------------------------------------------------------------
(* The composition with the health sweep.                                  *)

\* A step of the two sweeps' worker is one of each component, or leaves it be.
LEMMA JobsSteps == /\ JobsInit => Init /\ Health!Init
                   /\ [JobsNext]_all => [Next]_vars /\ [Health!Next]_(Health!health)
<1>1. ASSUME [JobsNext]_all PROVE [Next]_vars /\ [Health!Next]_(Health!health)
  <2>1. CASE FleetStep(Next)
    BY <2>1 DEF FleetStep, Health!health
  <2>2. CASE HealthStep(Health!Next)
    BY <2>2 DEF HealthStep
  <2>3. CASE UNCHANGED all
    BY <2>3 DEF all, vars, Health!health
  <2> QED BY <1>1, <2>1, <2>2, <2>3 DEF JobsNext
<1> QED BY <1>1 DEF JobsInit

\* The composition implements each of its components: sharing the worker's
\* processes adds no behaviour to the fleet or to the health sweep.
THEOREM ComponentsImplemented ==
  JobsSpec => Spec /\ Health!Init /\ [][Health!Next]_(Health!health)
BY JobsSteps, PTL DEF JobsSpec, Spec

\* So what is proved of the fleet holds beside the health sweep.
THEOREM FleetKeptByJobs ==
  JobsSpec => []TypeOK /\ SoloAddressIsFree /\ FleetConsistent
BY ComponentsImplemented, TypeCorrect, AddressFree, Consistent, PTL
================================================================================
