------------------------ MODULE PublishedServicesProofs ------------------------
(***************************************************************************)
(* Theorems about PublishedServices, for any number of requests, services, *)
(* publications, names, records and clients.                               *)
(***************************************************************************)
EXTENDS PublishedServices, WellFoundedInduction, TLAPS

Creators == {"new", "existing"}

\* Of a request by itself.
GoodRow(r) ==
    /\ r \in Request
    /\ r.pc \in {"post", "list"} => r.op = "new" /\ r.label \in Label
    /\ r.own # 0 => r.op = "new"
    /\ r.pc = "peer" => r.op \in Creators
    /\ r.pc = "domain" => r.op \in Creators \cup {"dnsCreate"}
    /\ r.pc = "clash" => r.op = "update"
    /\ r.pc = "flush" => r.op \in DeleteOps
    /\ r.pc \in {"peer", "domain", "commit"} /\ r.op \in Creators => r.client # 0
    /\ r.pc # "idle" /\ r.op \in {"dnsCreate", "dnsUpdate"} => r.name \in Fqdn
    /\ r.op # "delete" => r.found = {}

\* Of the records d a deletion has read, and of those it has not: they are
\* what belongs to its publications, up to those that have been edited (e) and
\* those that another deletion has left without publication.
Watched(r, d, e) ==
    r.pc \in {"flush", "commit"} /\ r.op \in DeleteOps =>
        /\ \A i \in r.found \cap DOMAIN d :
              d[i].link \in r.pubs \cup {NoLink} \/ d[i].fqdn \in e
        /\ r.op = "delete" =>
              \A i \in DOMAIN d :
                 d[i].link \in r.pubs /\ d[i].fqdn \notin e => i \in r.found
        /\ r.pc = "commit" =>
              \A i \in r.held \cap DOMAIN d :
                 \/ d[i].fqdn \in e
                 \/ r.op # "delete" /\ d[i].link \in r.pubs \cup {NoLink}

\* The client a request has created is there, and is the newest if the request
\* has met no other.
OwnClient(r, cl) ==
    /\ r.pc = "list" => r.own \in DOMAIN cl /\ cl[r.own] = r.label
    /\ r.solo /\ r.pc = "list" => r.own = Len(cl)
    /\ r.solo /\ r.own # 0 /\ r.pc \in {"peer", "domain", "commit"}
          => r.client = r.own

\* A request that has met no other inserts a peer only for a client without.
OwnPeer(r, ps) ==
    r.solo /\ r.op \in Creators /\ r.pc \in {"domain", "commit"} /\ r.peer = {}
        => \A i \in DOMAIN ps : ps[i] # r.client

GoodReq(r) == /\ GoodRow(r) /\ Watched(r, domains, edited)
              /\ OwnClient(r, clients) /\ OwnPeer(r, peers)

\* A request that has met no other is alone.
SoloAlone == \A t, u \in Req :
    t # u /\ req[t].pc # "idle" /\ req[t].solo => req[u].pc = "idle"

Requests == /\ req \in [Req -> Request]
            /\ \A t \in Req : GoodReq(req[t])
            /\ SoloAlone

\* A name has one record.
OneRecord == \A i, j \in Records : domains[i].fqdn = domains[j].fqdn => i = j

Types == /\ clients \in Seq(Label)
         /\ DOMAIN peers \subseteq Row /\ peers \in [DOMAIN peers -> Nat \ {0}]
         /\ svcs \subseteq Svc
         /\ Live \subseteq Pub /\ pubs \in [Live -> Publication]
         /\ Records \subseteq Rec /\ domains \in [Records -> Record]
         /\ edited \subseteq Fqdn

Data == Types /\ LinksResolve /\ OneRecord /\ RegistryMatchesServices

IInv == Data /\ Requests

-----------------------------------------------------------------------------
(* A step of one request.                                                  *)

\* What no request does.
LEMMA IdleGood ==
    ASSUME NEW d, NEW e, NEW cl, NEW ps
    PROVE  /\ GoodRow(Idle) /\ Watched(Idle, d, e)
           /\ OwnClient(Idle, cl) /\ OwnPeer(Idle, ps) /\ Idle.pc = "idle"
BY DEF Idle, GoodRow, Request, PC, AllOps, Link, Name, Watched, OwnClient, OwnPeer,
       Creators, DeleteOps

\* Not to be alone any more leaves a request good.
LEMMA NotSolo ==
    ASSUME NEW r, GoodReq(r)
    PROVE  LET u == [r EXCEPT !.solo = FALSE]
           IN  GoodReq(u) /\ u.pc = r.pc /\ ~u.solo
<1> DEFINE u == [r EXCEPT !.solo = FALSE]
<1>1. r \in Request
  BY DEF GoodReq, GoodRow
<1>2. /\ u \in Request /\ u.solo = FALSE
      /\ u.pc = r.pc /\ u.op = r.op /\ u.pubs = r.pubs /\ u.label = r.label
      /\ u.name = r.name /\ u.found = r.found /\ u.held = r.held
      /\ u.own = r.own /\ u.client = r.client /\ u.peer = r.peer
  BY <1>1 DEF Request
<1> HIDE DEF u
<1>3. GoodReq(u)
  BY <1>2 DEF GoodReq, GoodRow, Watched, OwnClient, OwnPeer
<1> QED BY <1>2, <1>3 DEF u

\* Data depends on the tables alone.
LEMMA DataKept ==
    ASSUME Data, UNCHANGED <<clients, Tables>>
    PROVE  Data' /\ UNCHANGED <<clients, peers, svcs, pubs, domains, edited>>
<1>1. UNCHANGED <<clients, peers, svcs, pubs, domains, edited>>
  BY DEF Tables
<1> QED BY <1>1 DEF Data, Types, LinksResolve, OneRecord, RegistryMatchesServices,
            Live, Records

\* A request begins: those that run are not alone any more.
LEMMA BeginStep ==
    ASSUME IInv, NEW t \in Req, NEW r, GoodRow(r), r.own = 0,
           r.pc \in {"post", "peer", "domain", "clash", "flush", "commit"},
           r.op \in Creators => r.pc \in {"post", "peer"},
           Watched(r, domains, edited), Begin(t, r)
    PROVE  IInv'
<1> DEFINE q == [r EXCEPT !.solo = (InFlight = {})]
<1>1. /\ req[t].pc = "idle" /\ UNCHANGED <<clients, Tables>>
      /\ req' = [u \in Req |-> IF u = t THEN q
                               ELSE [req[u] EXCEPT !.solo = FALSE]]
  BY DEF Begin
<1>2. /\ q \in Request /\ q.pc = r.pc /\ q.op = r.op /\ q.pubs = r.pubs
      /\ q.label = r.label /\ q.name = r.name /\ q.found = r.found
      /\ q.held = r.held /\ q.client = r.client /\ q.own = 0
      /\ q.solo = (InFlight = {})
  <2> DEFINE alone == InFlight = {}
  <2>1. alone \in BOOLEAN
    OBVIOUS
  <2> HIDE DEF alone
  <2>2. LET x == [r EXCEPT !.solo = alone]
        IN  /\ x \in Request /\ x.pc = r.pc /\ x.op = r.op /\ x.pubs = r.pubs
            /\ x.label = r.label /\ x.name = r.name /\ x.found = r.found
            /\ x.held = r.held /\ x.client = r.client /\ x.own = 0
            /\ x.solo = alone
    BY <2>1 DEF GoodRow, Request
  <2> QED BY <2>2 DEF alone
<1> HIDE DEF q
<1>3. \A u \in Req : u # t =>
         GoodReq(req'[u]) /\ req'[u].pc = req[u].pc /\ ~req'[u].solo
  BY <1>1, NotSolo DEF IInv, Requests
<1>4. req'[t] = q
  BY <1>1
<1>5. Data' /\ UNCHANGED <<clients, peers, svcs, pubs, domains, edited>>
  BY <1>1, DataKept DEF IInv
<1>6. GoodReq(q)
  <2>1. GoodRow(q) /\ Watched(q, domains, edited)
    BY <1>2 DEF GoodRow, Watched
  <2>2. OwnClient(q, clients) /\ OwnPeer(q, peers)
    BY <1>2 DEF OwnClient, OwnPeer
  <2> QED BY <2>1, <2>2 DEF GoodReq
<1>7. \A u \in Req : GoodReq(req[u])'
  BY <1>3, <1>4, <1>5, <1>6 DEF GoodReq
<1>8. SoloAlone'
  BY <1>1, <1>2, <1>3, <1>4 DEF SoloAlone, InFlight
<1>9. req' \in [Req -> Request]
  BY <1>1, <1>7 DEF GoodReq, GoodRow
<1> QED BY <1>5, <1>7, <1>8, <1>9 DEF IInv, Requests

\* A step of one request that writes nothing.
LEMMA LocalStep ==
    ASSUME IInv, NEW t \in Req, req[t].pc # "idle", NEW r, GoodReq(r),
           r.solo = req[t].solo,
           req' = [req EXCEPT ![t] = r], UNCHANGED <<clients, Tables>>
    PROVE  IInv'
<1>1. /\ req' \in [Req -> Request]
      /\ \A u \in Req : req'[u] = IF u = t THEN r ELSE req[u]
  BY DEF IInv, Requests, GoodReq, GoodRow
<1>2. Data' /\ UNCHANGED <<clients, peers, svcs, pubs, domains, edited>>
  BY DataKept DEF IInv
<1>3. \A u \in Req : GoodReq(req[u])'
  BY <1>1, <1>2 DEF IInv, Requests, GoodReq
<1>4. SoloAlone'
  BY <1>1 DEF IInv, Requests, SoloAlone
<1> QED BY <1>1, <1>2, <1>3, <1>4 DEF IInv, Requests

\* What the others have read of the records is still so.
LEMMA WatchedKept ==
    ASSUME IInv, NEW u \in Req, edited \subseteq edited',
           \A i \in Records' \cap Records :
              \/ domains'[i] = domains[i] \/ domains'[i].fqdn \in edited'
              \/ domains'[i].fqdn = domains[i].fqdn /\ domains'[i].link = NoLink,
           \A i \in Records' \ Records :
              Fresh(i) /\ (domains'[i].fqdn \in edited' \/ domains'[i].link \in FreshPub)
    PROVE  Watched(req[u], domains', edited')
<1> DEFINE r == req[u]
<1>1. Watched(r, domains, edited) /\ r \in Request
  BY DEF IInv, Requests, GoodReq
<1>2. NoLink \notin r.pubs
  BY <1>1, NameAssumption DEF Request
<1>3. \A i \in Records' \ Records :
         /\ i \notin r.found \cup r.held
         /\ domains'[i].fqdn \in edited' \/ domains'[i].link \notin r.pubs
  BY DEF Fresh, FreshPub
<1>4. \A i \in Records' \cap Records :
         domains'[i].fqdn \notin edited' =>
            /\ domains[i].fqdn \notin edited
            /\ domains'[i].link \in {domains[i].link, NoLink}
  OBVIOUS
<1> HIDE DEF r
<1> QED BY <1>1, <1>2, <1>3, <1>4 DEF Watched, Records, r

\* The end of a request.  The records it changes have been edited by then or
\* are left without publication, and those it adds belong to a publication
\* that nobody has read.
LEMMA FinishStep ==
    ASSUME IInv, NEW t \in Req, req[t].pc # "idle", Finish(t),
           UNCHANGED clients, Data', edited \subseteq edited',
           \A i \in Records' \cap Records :
              \/ domains'[i] = domains[i] \/ domains'[i].fqdn \in edited'
              \/ domains'[i].fqdn = domains[i].fqdn /\ domains'[i].link = NoLink,
           \A i \in Records' \ Records :
              Fresh(i) /\ (domains'[i].fqdn \in edited' \/ domains'[i].link \in FreshPub)
    PROVE  IInv'
<1>1. \A u \in Req : req'[u] = IF u = t THEN Idle ELSE req[u]
  BY DEF IInv, Requests, Finish
<1>2. req' \in [Req -> Request]
  BY IdleGood DEF IInv, Requests, Finish, GoodRow
<1>3. ASSUME NEW u \in Req, u # t PROVE GoodReq(req[u])'
  <2>1. req'[u] = req[u] /\ GoodReq(req[u])
    BY <1>1, <1>3 DEF IInv, Requests
  <2>2. req[u].pc # "idle" => ~req[u].solo
    BY <1>3 DEF IInv, Requests, SoloAlone
  <2>3. Watched(req[u], domains', edited')
    BY WatchedKept
  <2>4. OwnClient(req[u], clients') /\ OwnPeer(req[u], peers')
    BY <2>1, <2>2 DEF GoodReq, OwnClient, OwnPeer
  <2> QED BY <2>1, <2>3, <2>4 DEF GoodReq
<1>4. \A u \in Req : GoodReq(req[u])'
  BY <1>1, <1>3, IdleGood DEF GoodReq
<1>5. SoloAlone'
  BY <1>1, IdleGood DEF IInv, Requests, SoloAlone
<1> QED BY <1>2, <1>4, <1>5 DEF IInv, Requests

-----------------------------------------------------------------------------
(* Arrivals and reads.                                                     *)

\* A request that begins otherwise than as a deletion has read no records.
LEMMA ArrivalsInv ==
    ASSUME IInv, NEW t \in Req,
           \/ BeginNew(t) \/ BeginExisting(t) \/ BeginUpdate(t) \/ BeginEdit(t)
           \/ BeginPublish(t) \/ BeginDns(t)
    PROVE  IInv'
<1>1. ASSUME NEW r, Begin(t, r), GoodRow(r), r.own = 0, r.op \notin DeleteOps,
             r.pc \in {"post", "peer", "domain", "clash", "commit"},
             r.op \in Creators => r.pc \in {"post", "peer"}
      PROVE  IInv'
  BY <1>1, BeginStep DEF Watched
<1>2. Idle \in Request
  BY IdleGood DEF GoodRow
<1> USE DEF AllOps, DeleteOps, Creators
<1>3. CASE BeginNew(t)
  <2>1. PICK d \in Name, l \in Label :
          Begin(t, [Idle EXCEPT !.op = "new", !.pc = "post", !.name = d,
                                !.label = l])
    BY <1>3 DEF BeginNew
  <2> DEFINE r == [Idle EXCEPT !.op = "new", !.pc = "post", !.name = d, !.label = l]
  <2>2. GoodRow(r) /\ r.own = 0 /\ r.pc = "post" /\ r.op = "new"
    BY <1>2 DEF Idle, GoodRow, Request, PC
  <2> HIDE DEF r
  <2> QED BY <1>1, <2>1, <2>2 DEF r
<1>4. CASE BeginExisting(t)
  <2>1. PICK d \in Name, c \in DOMAIN clients :
          Begin(t, [Idle EXCEPT !.op = "existing", !.pc = "peer", !.name = d,
                                !.client = c])
    BY <1>4 DEF BeginExisting
  <2> DEFINE r == [Idle EXCEPT !.op = "existing", !.pc = "peer", !.name = d,
                               !.client = c]
  <2>2. c \in Nat \ {0}
    BY DEF IInv, Data, Types
  <2>3. GoodRow(r) /\ r.own = 0 /\ r.pc = "peer" /\ r.op = "existing"
    BY <1>2, <2>2 DEF Idle, GoodRow, Request, PC
  <2> HIDE DEF r
  <2> QED BY <1>1, <2>1, <2>3 DEF r
<1>5. CASE BeginUpdate(t)
  <2>1. PICK p \in Live : \E d \in Name \ {pubs[p].domain} :
          Begin(t, [Idle EXCEPT !.op = "update", !.pc = "clash", !.pubs = {p},
                                !.name = d])
    BY <1>5 DEF BeginUpdate
  <2>2. PICK d \in Name \ {pubs[p].domain} :
          Begin(t, [Idle EXCEPT !.op = "update", !.pc = "clash", !.pubs = {p},
                                !.name = d])
    BY <2>1
  <2> DEFINE r == [Idle EXCEPT !.op = "update", !.pc = "clash", !.pubs = {p},
                               !.name = d]
  <2>3. p \in Pub
    BY DEF IInv, Data, Types
  <2>4. GoodRow(r) /\ r.own = 0 /\ r.pc = "clash" /\ r.op = "update"
    BY <1>2, <2>3 DEF Idle, GoodRow, Request, PC
  <2> HIDE DEF r
  <2> QED BY <1>1, <2>2, <2>4 DEF r
<1>6. CASE BeginEdit(t)
  <2>1. PICK p \in Live :
          \/ \E d \in Name \ {pubs[p].domain} :
               Begin(t, [Idle EXCEPT !.op = "edit", !.pc = "commit", !.pubs = {p},
                                     !.name = d])
          \/ \E s \in Svc \ {pubs[p].svc} :
               Begin(t, [Idle EXCEPT !.op = "switch", !.pc = "commit",
                                     !.pubs = {p}, !.svcs = {s}])
    BY <1>6 DEF BeginEdit
  <2>2. p \in Pub
    BY DEF IInv, Data, Types
  <2>3. ASSUME NEW d \in Name,
               Begin(t, [Idle EXCEPT !.op = "edit", !.pc = "commit", !.pubs = {p},
                                     !.name = d])
        PROVE  IInv'
    <3> DEFINE r == [Idle EXCEPT !.op = "edit", !.pc = "commit", !.pubs = {p},
                                 !.name = d]
    <3>1. GoodRow(r) /\ r.own = 0 /\ r.pc = "commit" /\ r.op = "edit"
      BY <1>2, <2>2 DEF Idle, GoodRow, Request, PC
    <3> HIDE DEF r
    <3> QED BY <1>1, <2>3, <3>1 DEF r
  <2>4. ASSUME NEW s \in Svc,
               Begin(t, [Idle EXCEPT !.op = "switch", !.pc = "commit",
                                     !.pubs = {p}, !.svcs = {s}])
        PROVE  IInv'
    <3> DEFINE r == [Idle EXCEPT !.op = "switch", !.pc = "commit", !.pubs = {p},
                                 !.svcs = {s}]
    <3>1. GoodRow(r) /\ r.own = 0 /\ r.pc = "commit" /\ r.op = "switch"
      BY <1>2, <2>2 DEF Idle, GoodRow, Request, PC
    <3> HIDE DEF r
    <3> QED BY <1>1, <2>4, <3>1 DEF r
  <2> QED BY <2>1, <2>3, <2>4
<1>7. CASE BeginPublish(t)
  <2>1. PICK s \in svcs, d \in Name :
          Begin(t, [Idle EXCEPT !.op = "publish", !.pc = "commit", !.svcs = {s},
                                !.name = d])
    BY <1>7 DEF BeginPublish
  <2> DEFINE r == [Idle EXCEPT !.op = "publish", !.pc = "commit", !.svcs = {s},
                               !.name = d]
  <2>2. s \in Svc
    BY DEF IInv, Data, Types
  <2>3. GoodRow(r) /\ r.own = 0 /\ r.pc = "commit" /\ r.op = "publish"
    BY <1>2, <2>2 DEF Idle, GoodRow, Request, PC
  <2> HIDE DEF r
  <2> QED BY <1>1, <2>1, <2>3 DEF r
<1>8. ASSUME NEW f \in Fqdn, NEW l \in Link,
             Begin(t, [Idle EXCEPT !.op = "dnsCreate", !.pc = "domain",
                                   !.name = f, !.link = l])
      PROVE  IInv'
  <2> DEFINE r == [Idle EXCEPT !.op = "dnsCreate", !.pc = "domain", !.name = f,
                               !.link = l]
  <2>1. GoodRow(r) /\ r.own = 0 /\ r.pc = "domain" /\ r.op = "dnsCreate"
    BY <1>2 DEF Idle, GoodRow, Request, PC, Name
  <2> HIDE DEF r
  <2> QED BY <1>1, <1>8, <2>1 DEF r
<1>9. ASSUME NEW i \in Records, NEW f \in Fqdn, NEW l \in Link,
             Begin(t, [Idle EXCEPT !.op = "dnsUpdate", !.pc = "commit",
                         !.rec = {i}, !.name = f, !.link = l,
                         !.old = domains[i].fqdn, !.tied = domains[i].link])
      PROVE  IInv'
  <2> DEFINE r == [Idle EXCEPT !.op = "dnsUpdate", !.pc = "commit", !.rec = {i},
                     !.name = f, !.link = l, !.old = domains[i].fqdn,
                     !.tied = domains[i].link]
  <2>1. /\ i \in Rec /\ f \in Name
        /\ domains[i].fqdn \in Name /\ domains[i].link \in Link
    BY DEF IInv, Data, Types, Record, Name
  <2>2. GoodRow(r) /\ r.own = 0 /\ r.pc = "commit" /\ r.op = "dnsUpdate"
    BY <1>2, <2>1 DEF Idle, GoodRow, Request, PC
  <2> HIDE DEF r
  <2> QED BY <1>1, <1>9, <2>2 DEF r
<1>10. ASSUME NEW i \in Records,
              Begin(t, [Idle EXCEPT !.op = "dnsDelete", !.pc = "commit",
                                    !.rec = {i}])
       PROVE  IInv'
  <2> DEFINE r == [Idle EXCEPT !.op = "dnsDelete", !.pc = "commit", !.rec = {i}]
  <2>1. i \in Rec
    BY DEF IInv, Data, Types
  <2>2. GoodRow(r) /\ r.own = 0 /\ r.pc = "commit" /\ r.op = "dnsDelete"
    BY <1>2, <2>1 DEF Idle, GoodRow, Request, PC
  <2> HIDE DEF r
  <2> QED BY <1>1, <1>10, <2>2 DEF r
<1> QED BY <1>3, <1>4, <1>5, <1>6, <1>7, <1>8, <1>9, <1>10 DEF BeginDns

\* A deletion has read the records linked to its publications, if it deletes
\* them.
LEMMA BeginDeleteInv == ASSUME IInv, NEW t \in Req, BeginDelete(t) PROVE IInv'
<1>1. ASSUME NEW r, Begin(t, r), GoodRow(r), r.own = 0, r.op \in DeleteOps,
             r.pc = "flush",
             r.found = IF r.op = "delete" THEN LinkedTo(r.pubs) ELSE {}
      PROVE  IInv'
  <2>1. Watched(r, domains, edited)
    BY <1>1 DEF Watched, LinkedTo, Records
  <2> QED BY <1>1, <2>1, BeginStep DEF DeleteOps, Creators
<1>2. Idle \in Request
  BY IdleGood DEF GoodRow
<1>3. \A S \in SUBSET Svc : PubsOf(S) \subseteq Pub
  BY DEF PubsOf, IInv, Data, Types
<1>4. \A P \in SUBSET Pub : LinkedTo(P) \subseteq Rec
  BY DEF LinkedTo, IInv, Data, Types
<1>5. svcs \subseteq Svc /\ Live \subseteq Pub
  BY DEF IInv, Data, Types
<1> USE DEF AllOps, DeleteOps, Creators
<1>6. ASSUME NEW op \in {"delete", "drop"}, NEW s \in svcs,
             Begin(t, [Idle EXCEPT !.op = op, !.pc = "flush", !.svcs = {s},
                         !.pubs = PubsOf({s}),
                         !.found = IF op = "delete" THEN LinkedTo(PubsOf({s}))
                                   ELSE {}])
      PROVE  IInv'
  <2> DEFINE P == PubsOf({s})
  <2> DEFINE F == IF op = "delete" THEN LinkedTo(P) ELSE {}
  <2> DEFINE r == [Idle EXCEPT !.op = op, !.pc = "flush", !.svcs = {s},
                               !.pubs = P, !.found = F]
  <2>1. /\ P \in SUBSET Pub /\ F \in SUBSET Rec /\ s \in Svc
        /\ F = IF op = "delete" THEN LinkedTo(P) ELSE {}
    BY <1>3, <1>4, <1>5
  <2>2. Begin(t, r)
    BY <1>6
  <2> HIDE DEF P, F
  <2>3. GoodRow(r) /\ r.own = 0 /\ r.pc = "flush" /\ r.op = op /\ r.pubs = P
        /\ r.found = F
    BY <1>2, <2>1 DEF Idle, GoodRow, Request, PC
  <2> HIDE DEF r
  <2> QED BY <1>1, <2>1, <2>2, <2>3
<1>7. ASSUME NEW p \in Live,
             Begin(t, [Idle EXCEPT !.op = "unpublish", !.pc = "flush",
                                   !.pubs = {p}])
      PROVE  IInv'
  <2> DEFINE r == [Idle EXCEPT !.op = "unpublish", !.pc = "flush", !.pubs = {p}]
  <2>1. GoodRow(r) /\ r.own = 0 /\ r.pc = "flush" /\ r.op = "unpublish"
        /\ r.found = {}
    BY <1>2, <1>5 DEF Idle, GoodRow, Request, PC
  <2> HIDE DEF r
  <2> QED BY <1>1, <1>7, <2>1 DEF r
<1>8. ASSUME NEW S \in SUBSET svcs,
             Begin(t, [Idle EXCEPT !.op = "site", !.pc = "flush", !.svcs = S,
                                   !.pubs = PubsOf(S)])
      PROVE  IInv'
  <2> DEFINE P == PubsOf(S)
  <2> DEFINE r == [Idle EXCEPT !.op = "site", !.pc = "flush", !.svcs = S,
                               !.pubs = P]
  <2>1. P \in SUBSET Pub /\ S \in SUBSET Svc
    BY <1>3, <1>5
  <2>2. Begin(t, r)
    BY <1>8
  <2> HIDE DEF P
  <2>3. GoodRow(r) /\ r.own = 0 /\ r.pc = "flush" /\ r.op = "site"
        /\ r.found = {}
    BY <1>2, <2>1 DEF Idle, GoodRow, Request, PC
  <2> HIDE DEF r
  <2> QED BY <1>1, <2>2, <2>3
<1> QED BY <1>6, <1>7, <1>8 DEF BeginDelete

\* A request that ends without a write.
LEMMA QuitInv ==
    ASSUME IInv, NEW t \in Req, req[t].pc # "idle", Finish(t),
           UNCHANGED <<clients, Tables>>
    PROVE  IInv'
<1>1. Data' /\ UNCHANGED <<clients, peers, svcs, pubs, domains, edited>>
  BY DataKept DEF IInv
<1> QED BY <1>1, FinishStep DEF Records

\* The client that wg-easy adds becomes the newest one.
LEMMA PostClientInv == ASSUME IInv, NEW t \in Req, PostClient(t) PROVE IInv'
<1> DEFINE r == [req[t] EXCEPT !.pc = "list", !.own = Len(clients) + 1]
<1>1. /\ req[t] \in Request /\ GoodReq(req[t]) /\ req[t].pc = "post"
      /\ req[t].op = "new" /\ req[t].label \in Label
      /\ clients \in Seq(Label) /\ clients' = Append(clients, req[t].label)
      /\ UNCHANGED <<peers, svcs, pubs, domains, edited>>
  BY DEF PostClient, Tables, IInv, Requests, GoodReq, GoodRow, Data, Types
<1> HIDE DEF r
<1>2. /\ r.pc = "list" /\ r.op = "new"
      /\ r.solo = req[t].solo /\ r.label = req[t].label
      /\ r.found = req[t].found /\ r.own = Len(clients) + 1 /\ r \in Request
  <2>1. Len(clients) + 1 \in Nat
    BY <1>1
  <2> QED BY <1>1, <2>1 DEF Request, PC, r
<1>3. /\ req' \in [Req -> Request]
      /\ \A u \in Req : req'[u] = IF u = t THEN r ELSE req[u]
  <2>1. r \in Request
    BY <1>2
  <2>2. req' = [req EXCEPT ![t] = r]
    BY <1>1 DEF PostClient, IInv, Requests, r
  <2> QED BY <2>1, <2>2 DEF IInv, Requests
<1>4. /\ clients' \in Seq(Label) /\ Len(clients') = Len(clients) + 1
      /\ \A c \in DOMAIN clients : c \in DOMAIN clients' /\ clients'[c] = clients[c]
      /\ Len(clients) + 1 \in DOMAIN clients'
      /\ clients'[Len(clients) + 1] = req[t].label
  BY <1>1
<1>5. GoodReq(req[t])'
  <2>1. GoodRow(r)
    BY <1>1, <1>2 DEF GoodReq, GoodRow, Creators, DeleteOps
  <2>2. Watched(r, domains', edited') /\ OwnClient(r, clients')
        /\ OwnPeer(r, peers')
    BY <1>2, <1>4 DEF Watched, OwnClient, OwnPeer
  <2> QED BY <1>3, <2>1, <2>2 DEF GoodReq
<1>6. ASSUME NEW u \in Req, u # t PROVE GoodReq(req[u])'
  <2>1. req'[u] = req[u] /\ GoodReq(req[u])
    BY <1>3, <1>6 DEF IInv, Requests
  <2>2. req[u].pc # "idle" => ~req[u].solo
    BY <1>1, <1>6 DEF IInv, Requests, SoloAlone
  <2>3. OwnClient(req[u], clients')
    BY <1>4, <2>1, <2>2 DEF GoodReq, OwnClient
  <2> QED BY <1>1, <2>1, <2>3 DEF GoodReq
<1>7. Data'
  BY <1>1, <1>4 DEF IInv, Data, Types, LinksResolve, OneRecord,
     RegistryMatchesServices, Live, Records
<1>8. SoloAlone'
  BY <1>1, <1>2, <1>3 DEF IInv, Requests, SoloAlone
<1> QED BY <1>3, <1>5, <1>6, <1>7, <1>8 DEF IInv, Requests

\* Of numbers up to N there is a greatest.
LEMMA MaxIn ==
    ASSUME NEW N \in Nat, NEW S \in SUBSET (1 .. N), S # {}
    PROVE  \E x \in S : \A y \in S : y <= x
<1> DEFINE R == {ss \in Nat \X Nat : ss[1] < ss[2]}
<1> DEFINE D == {N - x : x \in S}
<1>1. IsWellFoundedOn(R, Nat)
  BY NatLessThanWellFounded DEF OpToRel
<1>2. D \in SUBSET Nat /\ D # {}
  <2>1. \A x \in S : N - x \in Nat
    OBVIOUS
  <2>2. PICK x \in S : TRUE
    OBVIOUS
  <2>3. N - x \in D
    OBVIOUS
  <2> QED BY <2>1, <2>3
<1>3. PICK m \in D : \A y \in D : ~(<<y, m>> \in R)
  BY <1>1, <1>2, WFMin
<1>4. PICK x \in S : m = N - x
  OBVIOUS
<1>5. ASSUME NEW y \in S PROVE y <= x
  <2>1. N - y \in D /\ N - y \in Nat /\ m \in Nat
    BY <1>2
  <2>2. ~(<<N - y, m>> \in R)
    BY <1>3, <2>1
  <2>3. <<N - y, m>> \in Nat \X Nat
    BY <2>1
  <2>4. ~(<<N - y, m>>[1] < <<N - y, m>>[2])
    BY <2>2, <2>3
  <2>5. ~(N - y < m)
    BY <2>4
  <2> QED BY <1>4, <2>5
<1> QED BY <1>5

\* matches[-1] is a client of that name, and the newest client of all if that
\* one has the name.
LEMMA LocatedType ==
    ASSUME NEW l, NEW c \in DOMAIN clients, clients[c] = l, clients \in Seq(Label)
    PROVE  Located(l) \in DOMAIN clients /\ (c = Len(clients) => Located(l) = c)
<1>1. Matches(l) \in SUBSET (1 .. Len(clients)) /\ Matches(l) # {}
      /\ c \in Matches(l) /\ Len(clients) \in Nat
  BY DEF Matches
<1>2. \E x \in Matches(l) : \A y \in Matches(l) : y <= x
  BY <1>1, MaxIn
<1>3. Located(l) \in Matches(l) /\ \A y \in Matches(l) : y <= Located(l)
  BY <1>2 DEF Located
<1> QED BY <1>1, <1>3 DEF Matches

\* The request goes on with a client of its label, its own if it is alone.
LEMMA ListClientsInv == ASSUME IInv, NEW t \in Req, ListClients(t) PROVE IInv'
<1> DEFINE q == req[t]
<1> DEFINE c == Located(q.label)
<1> DEFINE r == [q EXCEPT !.pc = "peer", !.client = c]
<1>1. /\ q \in Request /\ GoodReq(q) /\ q.pc = "list" /\ req' = [req EXCEPT ![t] = r]
      /\ UNCHANGED <<clients, Tables>>
  BY DEF ListClients, IInv, Requests, GoodReq, GoodRow
<1>2. c \in DOMAIN clients /\ (q.own = Len(clients) => c = q.own)
  BY <1>1, LocatedType DEF GoodReq, OwnClient, IInv, Data, Types
<1>3. c \in Nat \ {0}
  BY <1>2 DEF IInv, Data, Types
<1>4. /\ r \in Request /\ r.pc = "peer" /\ r.op = q.op /\ r.name = q.name
      /\ r.solo = q.solo /\ r.own = q.own /\ r.client = c /\ r.found = q.found
  BY <1>1, <1>3 DEF Request, PC
<1> HIDE DEF r, c
<1>5. GoodRow(r) /\ Watched(r, domains, edited) /\ OwnPeer(r, peers)
  BY <1>1, <1>3, <1>4 DEF GoodReq, GoodRow, Watched, OwnPeer, Creators
<1>6. OwnClient(r, clients)
  BY <1>1, <1>2, <1>4 DEF GoodReq, OwnClient
<1> QED BY <1>1, <1>4, <1>5, <1>6, LocalStep DEF GoodReq

\* The client has a row in peers, or none as far as a request alone can see.
LEMMA SelectPeerInv == ASSUME IInv, NEW t \in Req, SelectPeer(t) PROVE IInv'
<1> DEFINE q == req[t]
<1>1. /\ q \in Request /\ GoodReq(q) /\ q.pc = "peer" /\ UNCHANGED <<clients, Tables>>
  BY DEF SelectPeer, IInv, Requests, GoodReq, GoodRow
<1>2. CASE PeersOf(q.client) = {} /\ req' = [req EXCEPT ![t].pc = "domain"]
  <2> DEFINE r == [q EXCEPT !.pc = "domain"]
  <2>1. /\ r \in Request /\ r.pc = "domain" /\ r.op = q.op /\ r.name = q.name
        /\ r.solo = q.solo /\ r.own = q.own /\ r.client = q.client
        /\ r.found = q.found /\ req' = [req EXCEPT ![t] = r]
    BY <1>1, <1>2 DEF Request, PC, IInv, Requests
  <2> HIDE DEF r
  <2>2. GoodRow(r) /\ Watched(r, domains, edited) /\ OwnClient(r, clients)
    BY <1>1, <2>1 DEF GoodReq, GoodRow, Watched, OwnClient, Creators, DeleteOps
  <2>3. OwnPeer(r, peers)
    BY <1>2, <2>1 DEF OwnPeer, PeersOf
  <2> QED BY <1>1, <2>1, <2>2, <2>3, LocalStep DEF GoodReq
<1>3. ASSUME NEW i \in PeersOf(q.client),
             req' = [req EXCEPT ![t].pc = "domain", ![t].peer = {i}]
      PROVE  IInv'
  <2> DEFINE r == [q EXCEPT !.pc = "domain", !.peer = {i}]
  <2>1. i \in Row
    BY DEF PeersOf, IInv, Data, Types
  <2>2. /\ r \in Request /\ r.pc = "domain" /\ r.op = q.op /\ r.name = q.name
        /\ r.solo = q.solo /\ r.own = q.own /\ r.client = q.client
        /\ r.found = q.found /\ r.peer = {i} /\ req' = [req EXCEPT ![t] = r]
    BY <1>1, <1>3, <2>1 DEF Request, PC, IInv, Requests
  <2> HIDE DEF r
  <2>3. GoodRow(r) /\ Watched(r, domains, edited) /\ OwnClient(r, clients)
        /\ OwnPeer(r, peers)
    BY <1>1, <2>1, <2>2 DEF GoodReq, GoodRow, Watched, OwnClient, OwnPeer,
       Creators, DeleteOps
  <2> QED BY <1>1, <2>2, <2>3, LocalStep DEF GoodReq
<1>4. CASE Finish(t)
  BY <1>1, <1>4, QuitInv
<1> QED BY <1>2, <1>3, <1>4 DEF SelectPeer

\* The checks for a registered name write nothing.
LEMMA CheckDomainInv ==
    ASSUME IInv, NEW t \in Req, CheckDomain(t) \/ Clash(t) PROVE IInv'
<1> DEFINE q == req[t]
<1>1. /\ q \in Request /\ GoodReq(q) /\ q.pc \in {"domain", "clash"}
      /\ UNCHANGED <<clients, Tables>>
  BY DEF CheckDomain, Clash, IInv, Requests
<1>2. CASE Finish(t)
  BY <1>1, <1>2, QuitInv
<1>3. CASE req' = [req EXCEPT ![t].pc = "commit"]
  <2> DEFINE r == [q EXCEPT !.pc = "commit"]
  <2>1. /\ r \in Request /\ r.pc = "commit" /\ r.op = q.op /\ r.found = q.found
        /\ r.solo = q.solo /\ r.own = q.own /\ r.client = q.client
        /\ r.peer = q.peer /\ r.name = q.name
    BY <1>1 DEF Request, PC
  <2>2. req' = [req EXCEPT ![t] = r]
    BY <1>3 DEF IInv, Requests
  <2> HIDE DEF r
  <2>3. r.op \notin DeleteOps
    BY <1>1, <2>1 DEF GoodReq, GoodRow, Creators, DeleteOps
  <2>4. GoodRow(r) /\ Watched(r, domains, edited) /\ OwnPeer(r, peers)
    BY <1>1, <2>1, <2>3 DEF GoodReq, GoodRow, Watched, OwnPeer, Creators
  <2>5. OwnClient(r, clients)
    BY <1>1, <2>1 DEF GoodReq, GoodRow, OwnClient, Creators
  <2> QED BY <1>1, <2>1, <2>2, <2>4, <2>5, LocalStep DEF GoodReq
<1> QED BY <1>2, <1>3 DEF CheckDomain, Clash

\* What is linked to the publications by now, and was not selected by
\* delete_published, has been edited.
LEMMA FlushDeleteInv == ASSUME IInv, NEW t \in Req, FlushDelete(t) PROVE IInv'
<1> DEFINE q == req[t]
<1> DEFINE held == LinkedTo(q.pubs) \ q.found
<1> DEFINE r == [q EXCEPT !.pc = "commit", !.held = held]
<1>1. /\ q \in Request /\ GoodReq(q) /\ q.pc = "flush" /\ UNCHANGED <<clients, Tables>>
      /\ q.op \in DeleteOps /\ req' = [req EXCEPT ![t] = r]
  BY DEF FlushDelete, IInv, Requests, GoodReq, GoodRow
<1>2. held \subseteq Rec
  BY DEF LinkedTo, IInv, Data, Types
<1>3. /\ r \in Request /\ r.pc = "commit" /\ r.op = q.op /\ r.pubs = q.pubs
      /\ r.solo = q.solo /\ r.own = q.own /\ r.found = q.found /\ r.held = held
  BY <1>1, <1>2 DEF Request, PC
<1> HIDE DEF r
<1>4. GoodRow(r) /\ OwnClient(r, clients) /\ OwnPeer(r, peers)
  BY <1>1, <1>3 DEF GoodReq, GoodRow, OwnClient, OwnPeer, Creators, DeleteOps
<1>5. Watched(r, domains, edited)
  <2>1. \A i \in held : domains[i].link \in q.pubs
    BY DEF LinkedTo
  <2>2. q.op = "delete" => \A i \in held : domains[i].fqdn \in edited
    BY <1>1 DEF GoodReq, Watched, LinkedTo, Records
  <2> HIDE DEF held
  <2> QED BY <1>1, <1>3, <2>1, <2>2 DEF GoodReq, Watched
<1> QED BY <1>1, <1>3, <1>4, <1>5, LocalStep DEF GoodReq

-----------------------------------------------------------------------------
(* Commits.                                                                *)

\* The parts of Data, of every record and every publication.
Linked(i) == domains[i].link \in Live \cup {NoLink}
Bears(i)  == domains[i].link \in Live /\ domains[i].fqdn \notin edited
               => pubs[domains[i].link].domain = domains[i].fqdn
Has(p)    == pubs[p].domain \notin edited \cup {NoName}
               => \E i \in Records : /\ domains[i].link = p
                                     /\ domains[i].fqdn = pubs[p].domain

Parts == /\ Types /\ OneRecord
         /\ \A i \in Records : Linked(i) /\ Bears(i)
         /\ \A p \in Live : Has(p)

\* Data is said of each record and each publication by itself, now and next.
LEMMA DataParts == (Data <=> Parts) /\ (Data' <=> Parts')
BY DEF Parts, Data, LinksResolve, RegistryMatchesServices, Linked, Bears, Has

\* What a record that is inserted changes.
LEMMA InsertedType ==
    ASSUME Types, NEW f \in Name, NEW l \in Link, Inserted(f, l)
    PROVE  \/ f = NoName /\ UNCHANGED domains
           \/ \E i \in Rec \ Records :
                /\ Fresh(i) /\ f \in Fqdn
                /\ Records' = Records \cup {i}
                /\ domains' \in [Records' -> Record]
                /\ domains'[i] = [fqdn |-> f, link |-> l]
                /\ \A j \in Records : domains'[j] = domains[j]
<1>1. CASE f # NoName
  <2>1. PICK i \in Rec : /\ Fresh(i)
                         /\ domains' = Put(domains, i, [fqdn |-> f, link |-> l])
    BY <1>1 DEF Inserted
  <2>2. f \in Fqdn /\ [fqdn |-> f, link |-> l] \in Record
    BY <1>1 DEF Name, Record
  <2>3. i \in Rec \ Records
    BY <2>1 DEF Fresh
  <2>4. domains \in [Records -> Record]
    BY DEF Types
  <2>5. /\ Records' = Records \cup {i} /\ domains' \in [Records' -> Record]
        /\ domains'[i] = [fqdn |-> f, link |-> l]
        /\ \A j \in Records : domains'[j] = domains[j]
    BY <2>1, <2>2, <2>3, <2>4 DEF Put, Records
  <2> QED BY <2>1, <2>2, <2>3, <2>5
<1> QED BY <1>1 DEF Inserted

\* A publication that is inserted is nobody's.
LEMMA PutType ==
    ASSUME Types, NEW p \in FreshPub, NEW row \in Publication,
           pubs' = Put(pubs, p, row)
    PROVE  /\ p \in Pub \ Live /\ p # NoLink
           /\ Live' = Live \cup {p} /\ Live' \subseteq Pub
           /\ pubs' \in [Live' -> Publication]
           /\ pubs'[p] = row /\ \A x \in Live : pubs'[x] = pubs[x]
<1>1. p \in Pub \ Live /\ Live \subseteq Pub /\ pubs \in [Live -> Publication]
  BY DEF FreshPub, Types
<1>2. Live' = Live \cup {p}
  BY DEF Put, Live
<1>3. /\ pubs' \in [Live' -> Publication]
      /\ pubs'[p] = row /\ \A x \in Live : pubs'[x] = pubs[x]
  BY <1>1, <1>2 DEF Put, Live
<1> QED BY <1>1, <1>2, <1>3, NameAssumption

\* The new publication gets the record of its name, which nobody has.
LEMMA CommitCreateInv == ASSUME IInv, NEW t \in Req, CommitCreate(t) PROVE IInv'
<1> DEFINE q == req[t]
<1>1. /\ q \in Request /\ GoodReq(q) /\ q.pc = "commit" /\ q.op \in Creators
      /\ Finish(t) /\ UNCHANGED clients /\ Types
      /\ q.client \in Nat \ {0} /\ q.name \in Name
  BY DEF CommitCreate, IInv, Requests, GoodReq, GoodRow, Creators, Data, Request
<1>2. CASE UNCHANGED Tables
  BY <1>1, <1>2, QuitInv
<1>3. CASE ~UNCHANGED Tables
  <2>1. PICK s \in FreshSvc, p \in FreshPub :
          /\ IF q.peer = {}
             THEN \E i \in FreshRow : peers' = Put(peers, i, q.client)
             ELSE UNCHANGED peers
          /\ svcs' = svcs \cup {s}
          /\ pubs' = Put(pubs, p, [svc |-> s, domain |-> q.name])
          /\ Inserted(q.name, p)
          /\ UNCHANGED edited
    BY <1>3 DEF CommitCreate
  <2>2. ~Taken(q.name)
    BY <1>3 DEF CommitCreate
  <2> DEFINE row == [svc |-> s, domain |-> q.name]
  <2>3. s \in Svc /\ row \in Publication /\ row.domain = q.name
    BY <1>1 DEF FreshSvc, Publication
  <2>4. pubs' = Put(pubs, p, row)
    BY <2>1
  <2> HIDE DEF row
  <2>5. /\ p \in Pub \ Live /\ p # NoLink
        /\ Live' = Live \cup {p} /\ Live' \subseteq Pub
        /\ pubs' \in [Live' -> Publication]
        /\ pubs'[p] = row /\ \A x \in Live : pubs'[x] = pubs[x]
    BY <1>1, <2>3, <2>4, PutType
  <2>6. DOMAIN peers' \subseteq Row /\ peers' \in [DOMAIN peers' -> Nat \ {0}]
    <3>1. DOMAIN peers \subseteq Row /\ peers \in [DOMAIN peers -> Nat \ {0}]
      BY <1>1 DEF Types
    <3>2. ASSUME NEW i \in FreshRow, peers' = Put(peers, i, q.client)
          PROVE  DOMAIN peers' \subseteq Row /\ peers' \in [DOMAIN peers' -> Nat \ {0}]
      BY <1>1, <3>1, <3>2 DEF FreshRow, Put
    <3> QED BY <2>1, <3>1, <3>2
  <2>7. \A i \in Records : domains[i].link # p /\ domains[i].fqdn # q.name
    BY <2>2, <2>5 DEF Taken, Registered, IInv, Data, LinksResolve
  <2>8. \A i \in Records : Linked(i) /\ Bears(i)
    BY DataParts DEF IInv, Parts
  <2>9. \A x \in Live : Has(x)
    BY DataParts DEF IInv, Parts
  <2>10. svcs' \subseteq Svc
    BY <1>1, <2>1, <2>3 DEF Types
  <2>11. CASE q.name = NoName /\ UNCHANGED domains
    <3>1. Records' = Records /\ edited' = edited
      BY <2>1, <2>11 DEF Records
    <3>2. Types' /\ OneRecord'
      BY <1>1, <2>5, <2>6, <2>10, <2>11, <3>1 DEF Types, IInv, Data, OneRecord
    <3>3. \A i \in Records' : Linked(i)' /\ Bears(i)'
      BY <2>5, <2>7, <2>8, <2>11, <3>1 DEF Linked, Bears
    <3>4. \A x \in Live' : Has(x)'
      <4>1. ASSUME NEW x, x = p PROVE Has(x)'
        BY <4>1, <2>3, <2>5, <2>11 DEF Has
      <4>2. ASSUME NEW x \in Live PROVE Has(x)'
        BY <2>5, <2>9, <2>11, <3>1 DEF Has
      <4> QED BY <2>5, <4>1, <4>2
    <3>5. Data'
      BY <3>2, <3>3, <3>4, DataParts DEF Parts
    <3> QED BY <1>1, <2>11, <3>1, <3>5, FinishStep
  <2>12. ASSUME NEW i \in Rec \ Records, Fresh(i), q.name \in Fqdn,
                Records' = Records \cup {i},
                domains' \in [Records' -> Record],
                domains'[i] = [fqdn |-> q.name, link |-> p],
                \A j \in Records : domains'[j] = domains[j]
         PROVE  IInv'
    <3>1. domains'[i].fqdn = q.name /\ domains'[i].link = p /\ edited' = edited
      BY <2>1, <2>12
    <3>2. Types'
      BY <1>1, <2>5, <2>6, <2>10, <2>12, <3>1 DEF Types
    <3>3. OneRecord'
      BY <2>7, <2>12, <3>1 DEF IInv, Data, OneRecord
    <3>4. \A j \in Records' : Linked(j)' /\ Bears(j)'
      BY <2>3, <2>5, <2>7, <2>8, <2>12, <3>1 DEF Linked, Bears
    <3>5. \A x \in Live' : Has(x)'
      <4>1. ASSUME NEW x, x = p PROVE Has(x)'
        BY <4>1, <2>3, <2>5, <2>12, <3>1 DEF Has
      <4>2. ASSUME NEW x \in Live PROVE Has(x)'
        BY <2>5, <2>9, <2>12, <3>1 DEF Has
      <4> QED BY <2>5, <4>1, <4>2
    <3>6. Data'
      BY <3>2, <3>3, <3>4, <3>5, DataParts DEF Parts
    <3> QED BY <1>1, <2>12, <3>1, <3>6, FinishStep
  <2> QED BY <1>1, <2>1, <2>5, <2>11, <2>12, InsertedType DEF Link
<1> QED BY <1>2, <1>3

\* A service that is created has no publication.
LEMMA CreateServiceInv == ASSUME IInv, CreateService PROVE IInv'
<1>1. UNCHANGED <<clients, peers, pubs, domains, edited, req>> /\ svcs' \subseteq Svc
  BY DEF CreateService, FreshSvc, IInv, Data, Types
<1> QED BY <1>1 DEF IInv, Data, Types, LinksResolve, OneRecord,
         RegistryMatchesServices, Live, Records, Requests, GoodReq, SoloAlone

\* A name that is given or taken by an edit counts as edited; a move changes
\* no name.
LEMMA CommitEditInv == ASSUME IInv, NEW t \in Req, CommitEdit(t) PROVE IInv'
<1> DEFINE q == req[t]
<1>1. /\ q \in Request /\ q.pc = "commit" /\ Finish(t) /\ Types
      /\ UNCHANGED <<clients, peers, svcs, domains>> /\ q.name \in Name
  BY DEF CommitEdit, IInv, Requests, Data, Request
<1>2. CASE UNCHANGED <<pubs, edited>>
  BY <1>1, <1>2, QuitInv DEF Tables
<1>3. CASE ~UNCHANGED <<pubs, edited>>
  <2>1. PICK p \in Live :
          \/ /\ pubs' = [pubs EXCEPT ![p].domain = q.name]
             /\ Touch({pubs[p].domain, q.name})
          \/ /\ \E s \in q.svcs : pubs' = [pubs EXCEPT ![p].svc = s]
             /\ edited' = edited
    BY <1>3 DEF CommitEdit
  <2>2. pubs \in [Live -> Publication] /\ q.svcs \subseteq Svc /\ edited \subseteq Fqdn
    BY <1>1 DEF Types, Request
  <2>3. /\ Live' = Live /\ pubs' \in [Live -> Publication]
        /\ \A x \in Live \ {p} : pubs'[x] = pubs[x]
    BY <1>1, <2>1, <2>2 DEF Live, Publication
  <2>4. /\ edited \subseteq edited' /\ edited' \subseteq Fqdn
        /\ pubs'[p].domain # pubs[p].domain =>
              {pubs[p].domain, pubs'[p].domain} \subseteq edited' \cup {NoName}
    <3>1. pubs[p] \in Publication
      BY <2>2
    <3>2. ASSUME pubs' = [pubs EXCEPT ![p].domain = q.name],
                 Touch({pubs[p].domain, q.name})
          PROVE  /\ edited \subseteq edited' /\ edited' \subseteq Fqdn
                 /\ {pubs[p].domain, pubs'[p].domain} \subseteq edited' \cup {NoName}
      BY <1>1, <2>2, <3>1, <3>2 DEF Touch, Publication, Name
    <3>3. ASSUME NEW s \in q.svcs, pubs' = [pubs EXCEPT ![p].svc = s],
                 edited' = edited
          PROVE  /\ edited \subseteq edited' /\ edited' \subseteq Fqdn
                 /\ pubs'[p].domain = pubs[p].domain
      BY <2>2, <3>1, <3>3 DEF Publication
    <3> QED BY <2>1, <3>2, <3>3
  <2>5. Records' = Records /\ domains' = domains
    BY <1>1 DEF Records
  <2>6. Types' /\ OneRecord'
    BY <1>1, <2>3, <2>4, <2>5 DEF Types, IInv, Data, OneRecord
  <2>7. \A i \in Records : Linked(i) /\ Bears(i) /\ domains[i].fqdn # NoName
    BY <1>1, DataParts, NameAssumption DEF IInv, Parts, Types, Record
  <2>8. \A i \in Records' : Linked(i)' /\ Bears(i)'
    BY <2>3, <2>4, <2>5, <2>7 DEF Linked, Bears
  <2>9. \A x \in Live : Has(x)
    BY DataParts DEF IInv, Parts
  <2>10. \A x \in Live' : Has(x)'
    <3>1. ASSUME NEW x \in Live, x = p PROVE Has(x)'
      BY <2>3, <2>4, <2>5, <2>9, <3>1 DEF Has
    <3>2. ASSUME NEW x \in Live \ {p} PROVE Has(x)'
      BY <2>3, <2>4, <2>5, <2>9 DEF Has
    <3> QED BY <2>3, <3>1, <3>2
  <2>11. Data'
    BY <2>6, <2>8, <2>10, DataParts DEF Parts
  <2> QED BY <1>1, <2>4, <2>5, <2>11, FinishStep
<1> QED BY <1>2, <1>3

\* So does the name of a publication that the granular router creates.
LEMMA CommitPublishInv == ASSUME IInv, NEW t \in Req, CommitPublish(t) PROVE IInv'
<1> DEFINE q == req[t]
<1>1. /\ q \in Request /\ q.pc = "commit" /\ Finish(t) /\ Types
      /\ UNCHANGED <<clients, peers, svcs, domains>> /\ q.name \in Name
  BY DEF CommitPublish, IInv, Requests, Data, Request
<1>2. CASE UNCHANGED <<pubs, edited>>
  BY <1>1, <1>2, QuitInv DEF Tables
<1>3. CASE ~UNCHANGED <<pubs, edited>>
  <2>1. PICK s \in svcs, p \in FreshPub :
          pubs' = Put(pubs, p, [svc |-> s, domain |-> q.name])
    BY <1>3 DEF CommitPublish
  <2>2. edited' = edited \cup ({q.name} \ {NoName})
    BY <1>3 DEF CommitPublish, Touch
  <2> DEFINE row == [svc |-> s, domain |-> q.name]
  <2>3. row \in Publication /\ row.domain = q.name /\ pubs' = Put(pubs, p, row)
    BY <1>1, <2>1 DEF Publication, Types
  <2> HIDE DEF row
  <2>4. /\ p \in Pub \ Live /\ p # NoLink
        /\ Live' = Live \cup {p} /\ Live' \subseteq Pub
        /\ pubs' \in [Live' -> Publication]
        /\ pubs'[p] = row /\ \A x \in Live : pubs'[x] = pubs[x]
    BY <1>1, <2>3, PutType
  <2>5. Records' = Records /\ domains' = domains
    BY <1>1 DEF Records
  <2>6. edited \subseteq edited' /\ edited' \subseteq Fqdn
        /\ q.name \in edited' \cup {NoName}
    BY <1>1, <2>2 DEF Types, Name
  <2>7. Types' /\ OneRecord'
    BY <1>1, <2>4, <2>5, <2>6 DEF Types, IInv, Data, OneRecord
  <2>8. /\ \A i \in Records : Linked(i) /\ Bears(i)
        /\ \A x \in Live : Has(x)
    BY DataParts DEF IInv, Parts
  <2>9. \A i \in Records' : Linked(i)' /\ Bears(i)'
    BY <2>4, <2>5, <2>6, <2>8 DEF Linked, Bears
  <2>10. \A x \in Live' : Has(x)'
    BY <2>3, <2>4, <2>5, <2>6, <2>8 DEF Has
  <2>11. Data'
    BY <2>7, <2>9, <2>10, DataParts DEF Parts
  <2> QED BY <1>1, <2>5, <2>6, <2>11, FinishStep
<1> QED BY <1>2, <1>3

\* What the step of a deletion leaves of the records, P being the publications
\* that go.
Left(q, P) ==
    /\ Records' = Records \ q.found
    /\ domains' \in [Records' -> Record]
    /\ \A i \in Records' :
          /\ domains'[i].fqdn = domains[i].fqdn
          /\ i \in q.held \/ domains[i].link \in P => domains'[i].link = NoLink
          /\ ~(i \in q.held \/ domains[i].link \in P) => domains'[i] = domains[i]

\* That is what the deletion, SET NULL and the flush of the links make of them.
LEMMA DeletedType ==
    ASSUME Types, NEW q, NEW P,
           LET kept == Without(domains, q.found)
           IN  domains' = Unlinked([i \in DOMAIN kept |->
                              IF i \in q.held THEN [kept[i] EXCEPT !.link = NoLink]
                              ELSE kept[i]], P)
    PROVE  Left(q, P)
<1> DEFINE K == q.found
<1> DEFINE held == q.held
<1> DEFINE kept == Without(domains, K)
<1> DEFINE mid == [i \in DOMAIN kept |->
                     IF i \in held THEN [kept[i] EXCEPT !.link = NoLink]
                     ELSE kept[i]]
<1>1. domains' = Unlinked(mid, P)
  OBVIOUS
<1> HIDE DEF K, held
<1>2. DOMAIN kept = Records \ K /\ \A i \in DOMAIN kept : kept[i] = domains[i]
  BY DEF Without, Records
<1>3. \A i \in Records : domains[i] \in Record
  BY DEF Types
<1>4. \A r \in Record : /\ [r EXCEPT !.link = NoLink] \in Record
                       /\ [r EXCEPT !.link = NoLink].fqdn = r.fqdn
                       /\ [r EXCEPT !.link = NoLink].link = NoLink
  BY DEF Record, Link
<1> HIDE DEF kept
<1>5. /\ DOMAIN mid = Records \ K
      /\ \A i \in Records \ K :
            /\ mid[i] \in Record /\ mid[i].fqdn = domains[i].fqdn
            /\ i \in held => mid[i].link = NoLink
            /\ i \notin held => mid[i] = domains[i]
  BY <1>2, <1>3, <1>4
<1> HIDE DEF mid
<1>6. domains' = [i \in DOMAIN mid |-> IF mid[i].link \in P
                                       THEN [mid[i] EXCEPT !.link = NoLink]
                                       ELSE mid[i]]
  BY <1>1 DEF Unlinked
<1>7. Records' = Records \ K
  BY <1>5, <1>6 DEF Records
<1>8. ASSUME NEW i \in Records \ K
      PROVE  /\ domains'[i] \in Record /\ domains'[i].fqdn = domains[i].fqdn
             /\ i \in held \/ domains[i].link \in P => domains'[i].link = NoLink
             /\ ~(i \in held \/ domains[i].link \in P) => domains'[i] = domains[i]
  <2>1. domains'[i] = IF mid[i].link \in P THEN [mid[i] EXCEPT !.link = NoLink]
                      ELSE mid[i]
    BY <1>5, <1>6
  <2>2. /\ mid[i] \in Record /\ mid[i].fqdn = domains[i].fqdn
        /\ i \in held => mid[i].link = NoLink
        /\ i \notin held => mid[i] = domains[i]
    BY <1>5
  <2>3. CASE mid[i].link \in P
    <3>1. /\ domains'[i] \in Record /\ domains'[i].fqdn = domains[i].fqdn
          /\ domains'[i].link = NoLink
      BY <1>4, <2>1, <2>2, <2>3
    <3>2. i \in held \/ domains[i].link \in P
      BY <2>2, <2>3
    <3> QED BY <3>1, <3>2
  <2>4. CASE mid[i].link \notin P
    <3>1. domains'[i] = mid[i]
      BY <2>1, <2>4
    <3>2. CASE i \in held
      BY <3>1, <3>2, <2>2
    <3>3. CASE i \notin held
      BY <3>1, <3>3, <2>2, <2>4
    <3> QED BY <3>2, <3>3
  <2> QED BY <2>3, <2>4
<1>9. domains' \in [Records' -> Record]
  BY <1>5, <1>6, <1>7, <1>8
<1> QED BY <1>7, <1>8, <1>9 DEF K, held, Left

\* A deletion that does not fail takes its publications and those of its
\* services.
LEMMA DeletionStep ==
    ASSUME IInv, NEW t \in Req, CommitDelete(t), ~UNCHANGED Tables
    PROVE  \E P \in SUBSET Live :
              /\ req[t].pubs \cap Live \subseteq P /\ Left(req[t], P)
              /\ svcs' \subseteq svcs /\ pubs' = Without(pubs, P)
              /\ \E rows \in SUBSET DOMAIN peers : peers' = Without(peers, rows)
              /\ edited' = edited
<1> DEFINE q == req[t]
<1> DEFINE kept == Without(domains, q.found)
<1> DEFINE mid == [i \in DOMAIN kept |->
                     IF i \in q.held THEN [kept[i] EXCEPT !.link = NoLink]
                     ELSE kept[i]]
<1>1. PICK more \in SUBSET svcs, rows \in SUBSET DOMAIN peers :
        LET S == q.svcs \cup more
            P == q.pubs \cup PubsOf(S)
        IN  /\ svcs' = svcs \ S /\ pubs' = Without(pubs, P)
            /\ domains' = Unlinked(mid, P)
            /\ peers' = Without(peers, rows) /\ edited' = edited
  BY DEF CommitDelete
<1> DEFINE Q == q.pubs \cup PubsOf(q.svcs \cup more)
<1> DEFINE P == Q \cap Live
<1>2. /\ svcs' \subseteq svcs /\ pubs' = Without(pubs, Q)
      /\ domains' = Unlinked(mid, Q)
      /\ peers' = Without(peers, rows) /\ edited' = edited /\ q.pubs \subseteq Q
  BY <1>1
<1>3. NoLink \notin Q
  <2>1. q.pubs \subseteq Pub /\ Live \subseteq Pub
    BY DEF IInv, Requests, Request, Data, Types
  <2> QED BY <2>1, NameAssumption DEF PubsOf
<1> HIDE DEF Q
<1>4. Left(q, Q)
  BY <1>2, DeletedType DEF IInv, Data
<1>5. Left(q, P)
  <2>1. \A i \in Records : domains[i].link \in Q <=> domains[i].link \in P
    BY <1>3 DEF IInv, Data, LinksResolve
  <2>2. Records' \subseteq Records
    BY <1>4 DEF Left
  <2> HIDE DEF P, q
  <2> QED BY <1>4, <2>1, <2>2 DEF Left
<1>6. pubs' = Without(pubs, P)
  <2>1. DOMAIN pubs \ Q = DOMAIN pubs \ P
    BY DEF Live
  <2> QED BY <1>2, <2>1 DEF Without
<1>7. P \in SUBSET Live /\ q.pubs \cap Live \subseteq P
  BY <1>2
<1> HIDE DEF P, q
<1>8. \E R \in SUBSET DOMAIN peers : peers' = Without(peers, R)
  BY <1>2
<1>9. /\ q.pubs \cap Live \subseteq P /\ Left(q, P)
      /\ svcs' \subseteq svcs /\ pubs' = Without(pubs, P)
      /\ \E R \in SUBSET DOMAIN peers : peers' = Without(peers, R)
      /\ edited' = edited
  BY <1>2, <1>5, <1>6, <1>7, <1>8
<1> QED BY <1>7, <1>9 DEF q

\* A deletion takes the record of no publication that stays.
LEMMA CommitDeleteInv == ASSUME IInv, NEW t \in Req, CommitDelete(t) PROVE IInv'
<1> DEFINE q == req[t]
<1>1. /\ q \in Request /\ GoodReq(q) /\ q.pc = "commit" /\ q.op \in DeleteOps
      /\ Finish(t) /\ UNCHANGED clients /\ Types
  BY DEF CommitDelete, IInv, Requests, GoodReq, GoodRow, Data
<1>2. CASE UNCHANGED Tables
  BY <1>1, <1>2, QuitInv
<1>3. CASE ~UNCHANGED Tables
  <2>1. PICK P \in SUBSET Live :
          /\ q.pubs \cap Live \subseteq P /\ Left(q, P)
          /\ svcs' \subseteq svcs /\ pubs' = Without(pubs, P)
          /\ \E rows \in SUBSET DOMAIN peers : peers' = Without(peers, rows)
          /\ edited' = edited
    BY <1>3, DeletionStep
  <2>2. /\ Records' = Records \ q.found
        /\ domains' \in [Records' -> Record]
        /\ \A i \in Records' :
             /\ domains'[i].fqdn = domains[i].fqdn
             /\ i \in q.held \/ domains[i].link \in P => domains'[i].link = NoLink
             /\ ~(i \in q.held \/ domains[i].link \in P) => domains'[i] = domains[i]
    BY <2>1 DEF Left
  <2>3. /\ Live' = Live \ P /\ pubs' \in [Live' -> Publication]
        /\ \A x \in Live' : pubs'[x] = pubs[x]
    BY <1>1, <2>1 DEF Without, Live, Types
  <2>4. DOMAIN peers' \subseteq Row /\ peers' \in [DOMAIN peers' -> Nat \ {0}]
    BY <1>1, <2>1 DEF Without, Types
  <2>5. \A i \in Records \cap (q.found \cup q.held) :
           domains[i].link \in q.pubs \cup {NoLink} \/ domains[i].fqdn \in edited
    BY <1>1 DEF GoodReq, Watched, Records
  <2>6. \A i \in Records : Linked(i) /\ Bears(i)
    BY DataParts DEF IInv, Parts
  <2>7. \A x \in Live : Has(x)
    BY DataParts DEF IInv, Parts
  <2>8. Types' /\ OneRecord'
    <3>1. Types'
      BY <1>1, <2>1, <2>2, <2>3, <2>4 DEF Types
    <3>2. OneRecord'
      BY <2>2 DEF IInv, Data, OneRecord
    <3> QED BY <3>1, <3>2
  <2>9. ASSUME NEW i \in Records'
        PROVE  Linked(i)' /\ Bears(i)'
    <3>1. NoLink \notin Live
      BY <1>1, NameAssumption DEF Types
    <3>2. CASE i \in q.held \/ domains[i].link \in P
      BY <2>2, <2>3, <3>1, <3>2 DEF Linked, Bears
    <3>3. CASE ~(i \in q.held \/ domains[i].link \in P)
      BY <2>1, <2>2, <2>3, <2>6, <3>3 DEF Linked, Bears
    <3> QED BY <3>2, <3>3
  <2>10. ASSUME NEW x \in Live' PROVE Has(x)'
    <3> SUFFICES ASSUME pubs'[x].domain \notin edited' \cup {NoName}
                 PROVE  \E i \in Records' : /\ domains'[i].link = x
                                            /\ domains'[i].fqdn = pubs'[x].domain
      BY DEF Has
    <3>1. x \in Live /\ x \notin P /\ pubs'[x] = pubs[x] /\ edited' = edited
      BY <2>1, <2>3
    <3>2. x \notin q.pubs \cup {NoLink}
      BY <1>1, <2>1, <3>1, NameAssumption DEF Types
    <3>3. PICK i \in Records : /\ domains[i].link = x
                               /\ domains[i].fqdn = pubs[x].domain
      BY <2>7, <3>1 DEF Has
    <3>4. i \notin q.found \cup q.held
      BY <2>5, <3>1, <3>2, <3>3
    <3>5. i \in Records' /\ domains'[i] = domains[i]
      BY <2>2, <3>1, <3>3, <3>4
    <3> QED BY <3>1, <3>3, <3>5
  <2>11. Data'
    BY <2>8, <2>9, <2>10, DataParts DEF Parts
  <2>12. /\ Records' \subseteq Records /\ edited \subseteq edited'
         /\ \A i \in Records' \cap Records :
               \/ domains'[i] = domains[i] \/ domains'[i].fqdn \in edited'
               \/ domains'[i].fqdn = domains[i].fqdn /\ domains'[i].link = NoLink
    BY <2>1, <2>2
  <2> QED BY <1>1, <2>11, <2>12, FinishStep
<1> QED BY <1>2, <1>3

\* A record inserted by hand has an edited name.
LEMMA CommitDnsCreateInv ==
    ASSUME IInv, NEW t \in Req, CommitDnsCreate(t) PROVE IInv'
<1> DEFINE q == req[t]
<1>1. /\ q \in Request /\ q.pc = "commit" /\ q.name \in Fqdn /\ q.link \in Link
      /\ Finish(t) /\ UNCHANGED <<clients, peers, svcs, pubs>> /\ Types
  BY DEF CommitDnsCreate, IInv, Requests, GoodReq, GoodRow, Data, Request
<1>2. CASE Taken(q.name) \/ ~LinkExists(q.link)
  BY <1>1, <1>2, QuitInv DEF CommitDnsCreate, Tables
<1>3. CASE ~(Taken(q.name) \/ ~LinkExists(q.link))
  <2>1. Inserted(q.name, q.link) /\ edited' = edited \cup {q.name}
    BY <1>1, <1>3, NameAssumption DEF CommitDnsCreate, Touch
  <2>2. PICK i \in Rec \ Records :
          /\ Fresh(i) /\ Records' = Records \cup {i}
          /\ domains' \in [Records' -> Record]
          /\ domains'[i] = [fqdn |-> q.name, link |-> q.link]
          /\ \A j \in Records : domains'[j] = domains[j]
    BY <1>1, <2>1, InsertedType, NameAssumption DEF Name
  <2>3. domains'[i].fqdn = q.name /\ domains'[i].link = q.link
    BY <2>2
  <2>4. Live' = Live /\ pubs' = pubs
    BY <1>1 DEF Live
  <2>5. \A j \in Records : domains[j].fqdn # q.name
    BY <1>3 DEF Taken, Registered
  <2>6. q.link \in Live \cup {NoLink}
    BY <1>3 DEF LinkExists
  <2>7. /\ \A j \in Records : Linked(j) /\ Bears(j)
        /\ \A p \in Live : Has(p)
    BY DataParts DEF IInv, Parts
  <2>8. Types' /\ OneRecord'
    BY <1>1, <2>1, <2>2, <2>3, <2>4, <2>5 DEF Types, IInv, Data, OneRecord
  <2>9. \A j \in Records' : Linked(j)' /\ Bears(j)'
    BY <2>1, <2>2, <2>3, <2>4, <2>6, <2>7 DEF Linked, Bears
  <2>10. \A p \in Live' : Has(p)'
    BY <2>1, <2>2, <2>4, <2>7 DEF Has
  <2>11. Data'
    BY <2>8, <2>9, <2>10, DataParts DEF Parts
  <2> QED BY <1>1, <2>1, <2>2, <2>3, <2>4, <2>11, FinishStep
<1> QED BY <1>2, <1>3

\* So have both names of a record that is changed by hand.
LEMMA CommitDnsUpdateInv ==
    ASSUME IInv, NEW t \in Req, CommitDnsUpdate(t) PROVE IInv'
<1> DEFINE q == req[t]
<1>1. /\ q \in Request /\ q.pc = "commit" /\ q.name \in Fqdn /\ q.link \in Link
      /\ Finish(t) /\ UNCHANGED <<clients, peers, svcs, pubs>> /\ Types
  BY DEF CommitDnsUpdate, IInv, Requests, GoodReq, GoodRow, Data, Request
<1>2. CASE UNCHANGED <<domains, edited>>
  BY <1>1, <1>2, QuitInv DEF Tables
<1>3. CASE ~UNCHANGED <<domains, edited>>
  <2>1. PICK i \in q.rec :
          /\ i \in Records
          /\ q.name # q.old => \A j \in Records \ {i} : domains[j].fqdn # q.name
          /\ q.link # q.tied => LinkExists(q.link)
          /\ domains' = [domains EXCEPT ![i] = Redirected(q, domains[i])]
          /\ Touch(IF domains' = domains THEN {}
                   ELSE {domains[i].fqdn, domains'[i].fqdn})
    BY <1>3 DEF CommitDnsUpdate
  <2> DEFINE new == Redirected(q, domains[i])
  <2>2. domains[i] \in Record
    BY <1>1, <2>1 DEF Types
  <2>3. /\ new \in Record
        /\ new.fqdn = IF q.name = q.old THEN domains[i].fqdn ELSE q.name
        /\ new.link = IF q.link = q.tied THEN domains[i].link ELSE q.link
    BY <1>1, <2>2 DEF Redirected, Record
  <2> HIDE DEF new
  <2>4. /\ Records' = Records /\ domains' \in [Records -> Record]
        /\ domains'[i] = new /\ \A j \in Records \ {i} : domains'[j] = domains[j]
    BY <1>1, <2>1, <2>3 DEF Types, Records, new
  <2>5. domains' # domains
    BY <1>3, <2>1 DEF Touch
  <2>6. edited' = edited \cup {domains[i].fqdn, new.fqdn}
        /\ {domains[i].fqdn, new.fqdn} \subseteq Fqdn
    BY <2>1, <2>2, <2>3, <2>4, <2>5, NameAssumption DEF Touch, Record
  <2>7. Live' = Live /\ pubs' = pubs
    BY <1>1 DEF Live
  <2>8. /\ \A j \in Records : Linked(j) /\ Bears(j)
        /\ \A p \in Live : Has(p)
    BY DataParts DEF IInv, Parts
  <2>9. new.link \in Live \cup {NoLink}
    BY <2>1, <2>3, <2>8 DEF LinkExists, Linked
  <2>10. Types'
    BY <1>1, <2>4, <2>6, <2>7 DEF Types
  <2>11. OneRecord'
    BY <2>1, <2>3, <2>4 DEF IInv, Data, OneRecord
  <2>12. \A j \in Records' : Linked(j)' /\ Bears(j)'
    BY <2>4, <2>6, <2>7, <2>8, <2>9 DEF Linked, Bears
  <2>13. \A p \in Live' : Has(p)'
    BY <2>4, <2>6, <2>7, <2>8 DEF Has
  <2>14. Data'
    BY <2>10, <2>11, <2>12, <2>13, DataParts DEF Parts
  <2> QED BY <1>1, <2>4, <2>6, <2>7, <2>14, FinishStep
<1> QED BY <1>2, <1>3

\* So has a record that is deleted by hand.
LEMMA CommitDnsDeleteInv ==
    ASSUME IInv, NEW t \in Req, CommitDnsDelete(t) PROVE IInv'
<1> DEFINE q == req[t]
<1> DEFINE N == {domains[i].fqdn : i \in q.rec \cap Records}
<1>1. /\ q.pc = "commit" /\ Finish(t) /\ UNCHANGED <<clients, peers, svcs, pubs>> /\ Types
      /\ domains' = Without(domains, q.rec) /\ Touch(N)
  BY DEF CommitDnsDelete, IInv, Data
<1>2. /\ Records' = Records \ q.rec /\ domains' \in [Records' -> Record]
      /\ \A i \in Records' : domains'[i] = domains[i]
  BY <1>1 DEF Without, Records, Types
<1>3. N \subseteq Fqdn /\ edited' = edited \cup N
  <2>1. \A i \in Records : domains[i].fqdn \in Fqdn
    BY <1>1 DEF Types, Record
  <2> QED BY <1>1, <2>1, NameAssumption DEF Touch
<1>4. Live' = Live /\ pubs' = pubs
  BY <1>1 DEF Live
<1>5. /\ \A j \in Records : Linked(j) /\ Bears(j)
      /\ \A p \in Live : Has(p)
  BY DataParts DEF IInv, Parts
<1>6. Types' /\ OneRecord'
  BY <1>1, <1>2, <1>3, <1>4 DEF Types, IInv, Data, OneRecord
<1>7. \A j \in Records' : Linked(j)' /\ Bears(j)'
  BY <1>2, <1>3, <1>4, <1>5 DEF Linked, Bears
<1>8. \A i \in Records \ Records' : domains[i].fqdn \in edited'
  BY <1>2, <1>3
<1> HIDE DEF N
<1>9. \A p \in Live' : Has(p)'
  BY <1>2, <1>3, <1>4, <1>5, <1>8 DEF Has
<1>10. Data'
  BY <1>6, <1>7, <1>9, DataParts DEF Parts
<1> QED BY <1>1, <1>2, <1>3, <1>4, <1>10, FinishStep

-----------------------------------------------------------------------------
(* The invariant.                                                          *)

\* The initial state: no rows and idle requests.
LEMMA InitInv == Init => IInv
<1> SUFFICES ASSUME Init PROVE IInv
  OBVIOUS
<1>1. /\ clients \in Seq(Label) /\ Live = {} /\ Records = {} /\ svcs = {}
      /\ DOMAIN peers = {} /\ peers = [i \in {} |-> i]
      /\ pubs = [p \in {} |-> p] /\ domains = [i \in {} |-> i] /\ edited = {}
  BY ClientsAssumption DEF Init, Live, Records
<1>2. Types
  BY <1>1 DEF Types
<1>3. Data
  BY <1>1, <1>2 DEF Data, LinksResolve, OneRecord, RegistryMatchesServices
<1>4. \A t \in Req : req[t] = Idle
  BY DEF Init
<1>5. \A t \in Req : GoodReq(req[t])
  BY <1>4, IdleGood DEF GoodReq
<1>6. req \in [Req -> Request]
  BY IdleGood DEF Init, GoodRow
<1>7. SoloAlone
  BY <1>4, IdleGood DEF SoloAlone
<1> QED BY <1>3, <1>5, <1>6, <1>7 DEF IInv, Requests

\* Every step is an arrival, a read, a commit or an abort.
LEMMA NextInv == IInv /\ [Next]_vars => IInv'
<1> SUFFICES ASSUME IInv, [Next]_vars PROVE IInv'
  OBVIOUS
<1>1. ASSUME NEW t \in Req,
             \/ BeginNew(t) \/ BeginExisting(t) \/ BeginUpdate(t) \/ BeginEdit(t)
             \/ BeginPublish(t) \/ BeginDelete(t) \/ BeginDns(t)
      PROVE  IInv'
  BY <1>1, ArrivalsInv, BeginDeleteInv
<1>2. ASSUME NEW t \in Req,
             \/ PostClient(t) \/ ListClients(t) \/ SelectPeer(t)
             \/ CheckDomain(t) \/ Clash(t) \/ FlushDelete(t)
      PROVE  IInv'
  BY <1>2, PostClientInv, ListClientsInv, SelectPeerInv, CheckDomainInv,
     FlushDeleteInv
<1>3. ASSUME NEW t \in Req,
             \/ CommitCreate(t) \/ CommitEdit(t) \/ CommitPublish(t)
             \/ CommitDelete(t) \/ CommitDnsCreate(t) \/ CommitDnsUpdate(t)
             \/ CommitDnsDelete(t)
      PROVE  IInv'
  BY <1>3, CommitCreateInv, CommitEditInv, CommitPublishInv, CommitDeleteInv,
     CommitDnsCreateInv, CommitDnsUpdateInv, CommitDnsDeleteInv
<1>4. ASSUME NEW t \in Req, Abort(t) PROVE IInv'
  BY <1>4, QuitInv DEF Abort
<1>5. CASE UNCHANGED vars
  <2>1. UNCHANGED <<clients, peers, svcs, pubs, domains, edited, req>>
    BY <1>5 DEF vars
  <2> QED BY <2>1 DEF IInv, Data, Types, LinksResolve, OneRecord,
          RegistryMatchesServices, Live, Records, Requests, GoodReq, SoloAlone
<1> QED BY <1>1, <1>2, <1>3, <1>4, <1>5, CreateServiceInv DEF Next

-----------------------------------------------------------------------------
(* What leaves a record without publication.                               *)

\* A step leaves the record of a name that nobody has edited behind.
Leaves(i) == /\ i \in Records'
             /\ domains'[i].link \notin Live' /\ domains'[i].fqdn \notin edited'
             /\ i \in Records => domains[i].link \in Live

Excused(t, i) == /\ CommitDelete(t)
                 /\ req[t].op # "delete" \/ domains[i].link \notin req[t].pubs

\* A step that changes no record and takes no publication leaves none behind.
LEMMA LeavesNone ==
    ASSUME NEW i, Leaves(i), UNCHANGED domains, Live \subseteq Live'
    PROVE  FALSE
BY DEF Leaves, Records

\* DELETE /published-services deletes the records of what it has read.
LEMMA CommitDeleteLeaves ==
    ASSUME IInv, NEW t \in Req, CommitDelete(t), NEW i, Leaves(i)
    PROVE  Excused(t, i)
<1> DEFINE q == req[t]
<1> SUFFICES ASSUME q.op = "delete" PROVE domains[i].link \notin q.pubs
  BY DEF Excused
<1>1. ~UNCHANGED Tables
  BY LeavesNone DEF Tables, Live
<1>2. PICK P \in SUBSET Live : Left(q, P) /\ edited' = edited
  BY <1>1, DeletionStep
<1>3. i \in Records \ q.found /\ domains'[i].fqdn = domains[i].fqdn
  BY <1>2 DEF Leaves, Left
<1>4. Watched(q, domains, edited) /\ q.pc = "commit"
  BY DEF CommitDelete, IInv, Requests, GoodReq
<1> QED BY <1>2, <1>3, <1>4 DEF Leaves, Watched, DeleteOps, Records

\* A record that is inserted has a publication, or an edited name.
LEMMA CommitCreateLeaves ==
    ASSUME IInv, NEW t \in Req, CommitCreate(t), NEW i, Leaves(i)
    PROVE  FALSE
<1> DEFINE q == req[t]
<1>1. Types /\ q.name \in Name
  BY DEF IInv, Data, Requests, Request
<1>2. CASE UNCHANGED Tables
  BY <1>2, LeavesNone DEF Tables, Live
<1>3. CASE ~UNCHANGED Tables
  <2>1. PICK s \in FreshSvc, p \in FreshPub :
          /\ pubs' = Put(pubs, p, [svc |-> s, domain |-> q.name])
          /\ Inserted(q.name, p)
    BY <1>3 DEF CommitCreate
  <2>2. p \in Link /\ Live' = Live \cup {p}
    BY <2>1 DEF FreshPub, Link, Put, Live
  <2>3. \/ UNCHANGED domains
        \/ \E j \in Rec \ Records :
             /\ Records' = Records \cup {j}
             /\ domains'[j] = [fqdn |-> q.name, link |-> p]
             /\ \A k \in Records : domains'[k] = domains[k]
    BY <1>1, <2>1, <2>2, InsertedType
  <2>4. CASE UNCHANGED domains
    BY <2>2, <2>4, LeavesNone
  <2>5. ASSUME NEW j \in Rec \ Records, Records' = Records \cup {j},
               domains'[j] = [fqdn |-> q.name, link |-> p],
               \A k \in Records : domains'[k] = domains[k]
        PROVE  FALSE
    <3>1. domains'[j].link = p
      BY <2>5
    <3> QED BY <2>2, <2>5, <3>1 DEF Leaves
  <2> QED BY <2>3, <2>4, <2>5
<1> QED BY <1>2, <1>3

\* What POST and PATCH /dns change has an edited name.
LEMMA CommitDnsLeaves ==
    ASSUME IInv, NEW t \in Req, NEW i, Leaves(i),
           CommitDnsCreate(t) \/ CommitDnsUpdate(t) \/ CommitDnsDelete(t)
    PROVE  FALSE
<1> DEFINE q == req[t]
<1>1. Types /\ Live' = Live /\ q.name \in Name /\ q.link \in Link
  BY DEF IInv, Data, Requests, Request, CommitDnsCreate, CommitDnsUpdate,
     CommitDnsDelete, Live
<1>2. CASE UNCHANGED domains
  BY <1>1, <1>2, LeavesNone
<1>3. CASE CommitDnsCreate(t) /\ ~UNCHANGED domains
  <2>1. Inserted(q.name, q.link) /\ Touch({q.name})
    BY <1>3 DEF CommitDnsCreate
  <2>2. PICK j \in Rec \ Records :
          /\ q.name \in Fqdn /\ Records' = Records \cup {j}
          /\ domains'[j] = [fqdn |-> q.name, link |-> q.link]
          /\ \A k \in Records : domains'[k] = domains[k]
    BY <1>1, <1>3, <2>1, InsertedType
  <2>3. domains'[j].fqdn = q.name /\ q.name \in edited'
    BY <2>1, <2>2, NameAssumption DEF Touch
  <2> QED BY <1>1, <2>2, <2>3 DEF Leaves
<1>4. CASE CommitDnsUpdate(t) /\ ~UNCHANGED domains
  <2>1. PICK j \in Records :
          /\ domains' = [domains EXCEPT ![j] = Redirected(q, domains[j])]
          /\ Touch({domains[j].fqdn, domains'[j].fqdn})
    BY <1>4 DEF CommitDnsUpdate
  <2>2. Records' = Records /\ \A k \in Records \ {j} : domains'[k] = domains[k]
    BY <1>1, <2>1 DEF Types, Records
  <2>3. domains'[j].fqdn # NoName
    <3>1. IInv'
      BY <1>4, CommitDnsUpdateInv
    <3>2. domains'[j].fqdn \in Fqdn
      BY <2>2, <3>1 DEF IInv, Data, Types, Record
    <3> QED BY <3>2, NameAssumption
  <2>4. domains'[j].fqdn \in edited'
    BY <2>1, <2>3 DEF Touch
  <2> QED BY <1>1, <2>2, <2>4 DEF Leaves
<1>5. CASE CommitDnsDelete(t)
  <2>1. Records' \subseteq Records /\ \A k \in Records' : domains'[k] = domains[k]
    BY <1>5 DEF CommitDnsDelete, Without, Records
  <2> QED BY <1>1, <2>1 DEF Leaves
<1> QED BY <1>2, <1>3, <1>4, <1>5

\* Every step.
LEMMA StepLeaves ==
    ASSUME IInv, [Next]_vars, NEW i, Leaves(i)
    PROVE  \E t \in Req : Excused(t, i)
<1>1. ASSUME NEW t \in Req,
             \/ BeginNew(t) \/ BeginExisting(t) \/ BeginUpdate(t) \/ BeginEdit(t)
             \/ BeginPublish(t) \/ BeginDelete(t) \/ BeginDns(t)
             \/ PostClient(t) \/ ListClients(t) \/ SelectPeer(t)
             \/ CheckDomain(t) \/ Clash(t) \/ FlushDelete(t) \/ Abort(t)
      PROVE  UNCHANGED <<pubs, domains>>
  BY <1>1 DEF BeginNew, BeginExisting, BeginUpdate, BeginEdit, BeginPublish,
     BeginDelete, BeginDns, Begin, PostClient, ListClients, SelectPeer,
     CheckDomain, Clash, FlushDelete, Abort, Tables
<1>2. UNCHANGED vars \/ CreateService => UNCHANGED <<pubs, domains>>
  BY DEF vars, CreateService
<1>3. UNCHANGED <<pubs, domains>> => FALSE
  BY LeavesNone DEF Live
<1>4. ASSUME NEW t \in Req, CommitEdit(t) \/ CommitPublish(t) PROVE FALSE
  <2>1. UNCHANGED domains
    BY <1>4 DEF CommitEdit, CommitPublish
  <2>2. Live \subseteq Live'
    <3>1. CASE CommitEdit(t)
      BY <3>1 DEF CommitEdit, Live
    <3>2. CASE CommitPublish(t)
      BY <3>2 DEF CommitPublish, Live, Put
    <3> QED BY <1>4, <3>1, <3>2
  <2> QED BY <2>1, <2>2, LeavesNone
<1>5. ASSUME NEW t \in Req,
             \/ CommitCreate(t) \/ CommitDnsCreate(t) \/ CommitDnsUpdate(t)
             \/ CommitDnsDelete(t)
      PROVE  FALSE
  BY <1>5, CommitCreateLeaves, CommitDnsLeaves
<1>6. ASSUME NEW t \in Req, CommitDelete(t) PROVE Excused(t, i)
  BY <1>6, CommitDeleteLeaves
<1> QED BY <1>1, <1>2, <1>3, <1>4, <1>5, <1>6 DEF Next

-----------------------------------------------------------------------------
(* The theorems.                                                           *)

\* What is known of the services, the registry and the requests holds in every
\* state.
THEOREM Invariance == Spec => []IInv
BY InitInv, NextInv, PTL DEF Spec

\* Every variable keeps its type, whatever requests interleave.
THEOREM TypeCorrect == Spec => []TypeOK
<1>1. IInv => TypeOK
  BY DEF IInv, Data, Types, Requests, TypeOK
<1> QED BY <1>1, Invariance, PTL

\* A DNS record never points at a publication that has gone.
THEOREM Resolve == Spec => []LinksResolve
<1>1. IInv => LinksResolve
  BY DEF IInv, Data
<1> QED BY <1>1, Invariance, PTL

\* The registry and the publications agree on every name that only POST and
\* DELETE /published-services have had to do with, whatever other services,
\* publications and sites are created and deleted.
THEOREM RegistryAgrees == Spec => []RegistryMatchesServices
<1>1. IInv => RegistryMatchesServices
  BY DEF IInv, Data
<1> QED BY <1>1, Invariance, PTL

\* No two services are published under one name that only POST
\* /published-services has given: each has the record of that name, and there
\* is one.
THEOREM Distinct == Spec => []NamesDistinct
<1>1. IInv => NamesDistinct
  <2> SUFFICES ASSUME IInv, NEW d \in Fqdn \ edited,
                      NEW p \in Under(d), NEW q \in Under(d)
               PROVE  p = q
    BY DEF NamesDistinct
  <2>1. \A x \in Under(d) : \E i \in Records : /\ domains[i].link = x
                                               /\ domains[i].fqdn = d
    BY NameAssumption DEF IInv, Data, RegistryMatchesServices, Under
  <2>2. PICK i \in Records : domains[i].link = p /\ domains[i].fqdn = d
    BY <2>1
  <2>3. PICK j \in Records : domains[j].link = q /\ domains[j].fqdn = d
    BY <2>1
  <2>4. i = j
    BY <2>2, <2>3 DEF IInv, Data, OneRecord
  <2> QED BY <2>2, <2>3, <2>4
<1> QED BY <1>1, Invariance, PTL

\* DELETE /published-services leaves behind no record, of a name that nobody has
\* edited, of a publication it has read: what does is a deletion by one of the
\* granular routers, or the move of a publication into the service that goes.
THEOREM Released == Spec => NamesReleased
<1> DEFINE Step ==
       \A i \in Records' :
          /\ domains'[i].link \notin Live' /\ domains'[i].fqdn \notin edited'
          /\ i \in Records => domains[i].link \in Live
          => \E t \in Req :
                /\ CommitDelete(t)
                /\ req[t].op # "delete" \/ domains[i].link \notin req[t].pubs
<1>1. IInv /\ [Next]_vars => Step
  <2> SUFFICES ASSUME IInv, [Next]_vars, NEW i, Leaves(i)
               PROVE  \E t \in Req : Excused(t, i)
    BY DEF Leaves, Excused
  <2> QED BY StepLeaves
<1> QED BY <1>1, Invariance, PTL DEF Spec, NamesReleased

\* A request that has created a client, and met no other, goes on with it.
THEOREM ClientIsOwn == Spec => []SoloClientIsOwn
<1>1. IInv => SoloClientIsOwn
  BY DEF IInv, Requests, GoodReq, OwnClient, SoloClientIsOwn
<1> QED BY <1>1, Invariance, PTL

\* A request that has met no other gives no client a second peer.
THEOREM PeerIsUnique == Spec => SoloPeerIsUnique
<1>1. IInv /\ [Next]_vars =>
        [\A t \in Req :
            CommitCreate(t) /\ req[t].solo /\ PeersOf(req[t].client) # {}
              => peers' = peers]_vars
  <2> SUFFICES ASSUME IInv, NEW t \in Req, CommitCreate(t), req[t].solo,
                      PeersOf(req[t].client) # {}
               PROVE  peers' = peers
    OBVIOUS
  <2>1. OwnPeer(req[t], peers) /\ req[t].pc = "commit" /\ req[t].op \in Creators
    BY DEF IInv, Requests, GoodReq, CommitCreate, Creators
  <2>2. req[t].peer # {}
    BY <2>1 DEF OwnPeer, PeersOf
  <2> QED BY <2>2 DEF CommitCreate, Tables
<1> QED BY <1>1, Invariance, PTL DEF Spec, SoloPeerIsUnique
================================================================================
