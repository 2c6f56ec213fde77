--------------------------- MODULE InventoryProofs ---------------------------
(***************************************************************************)
(* Theorems about Inventory, for any number of rows and of deletions.      *)
(***************************************************************************)
EXTENDS Inventory, TLAPS

IInv == TypeOK /\ ReferencesResolve

\* No deletion has read anything at first.
LEMMA NoDeletionType == NoDeletion \in Deletion
BY DEF NoDeletion, Deletion

\* What a deletion reads has its type.
LEMMA ReadType ==
  ASSUME TypeOK
  PROVE  /\ \A s \in sites : ReadSite(s) \in Deletion
         /\ \A n \in DOMAIN nodes : ReadNode(n) \in Deletion
         /\ \A v \in DOMAIN services : ReadService(v) \in Deletion
         /\ \A p \in DOMAIN pubs : ReadPub(p) \in Deletion
<1> USE DEF TypeOK
<1>1. ASSUME NEW S PROVE NodesAt(S) \in SUBSET Node
  BY DEF NodesAt
<1>2. ASSUME NEW S PROVE ServicesAt(S) \in SUBSET Service
  BY DEF ServicesAt
<1>3. ASSUME NEW N PROVE ServicesOn(N) \in SUBSET Service
  BY DEF ServicesOn
<1>4. ASSUME NEW V PROVE PubsOf(V) \in SUBSET Pub
  BY DEF PubsOf
<1>5. ASSUME NEW s \in sites PROVE ReadSite(s) \in Deletion
  <2> DEFINE V == ServicesAt({s})
             N == NodesAt({s})
  <2>1. /\ {s} \in SUBSET Site /\ N \in SUBSET Node /\ V \in SUBSET Service
        /\ PubsOf(V) \in SUBSET Pub /\ ServicesOn(N) \ V \in SUBSET Service
    BY <1>1, <1>2, <1>3, <1>4
  <2> HIDE DEF V, N
  <2> QED BY <2>1 DEF ReadSite, Deletion, V, N
<1>6. ASSUME NEW n \in DOMAIN nodes PROVE ReadNode(n) \in Deletion
  <2>1. {n} \in SUBSET Node /\ ServicesOn({n}) \in SUBSET Service
    BY <1>3
  <2> QED BY <2>1, NoDeletionType DEF ReadNode, Deletion
<1>7. ASSUME NEW v \in DOMAIN services PROVE ReadService(v) \in Deletion
  <2>1. {v} \in SUBSET Service /\ PubsOf({v}) \in SUBSET Pub
    BY <1>4
  <2> QED BY <2>1, NoDeletionType DEF ReadService, Deletion
<1>8. ASSUME NEW p \in DOMAIN pubs PROVE ReadPub(p) \in Deletion
  <2>1. {p} \in SUBSET Pub
    OBVIOUS
  <2> QED BY <2>1, NoDeletionType DEF ReadPub, Deletion
<1> QED BY <1>5, <1>6, <1>7, <1>8

\* Empty tables, nothing in flight.
LEMMA InitInv == Init => IInv
<1> SUFFICES ASSUME Init PROVE IInv
  OBVIOUS
<1>1. DOMAIN Empty = {}
  BY DEF Empty
<1>2. del \in [Req -> Deletion]
  BY NoDeletionType DEF Init
<1> QED BY <1>1, <1>2 DEF Init, IInv, TypeOK, ReferencesResolve

\* A service is written whose keys exist.
LEMMA WriteServiceInv ==
  ASSUME IInv, NEW v \in Service, NEW row \in Row, Placed(row),
         DOMAIN services' = DOMAIN services \cup {v},
         services'[v] = row,
         \A x \in DOMAIN services : x # v => services'[x] = services[x],
         services' \in [DOMAIN services' -> Row],
         UNCHANGED <<sites, nodes, pubs, del>>
  PROVE  IInv'
<1>1. TypeOK'
  BY DEF IInv, TypeOK
<1>2. ReferencesResolve'
  BY DEF IInv, ReferencesResolve, Placed, NodeExists
<1> QED BY <1>1, <1>2 DEF IInv

\* Every request that writes one row keeps IInv.
LEMMA EditInv == IInv /\ Edit => IInv'
<1> SUFFICES ASSUME IInv, Edit PROVE IInv'
  OBVIOUS
<1>1. CASE CreateSite
  BY <1>1 DEF CreateSite, IInv, TypeOK, ReferencesResolve, NodeExists
<1>2. CASE WriteNode
  <2>1. PICK n \in Node, s \in sites : nodes' = Put(nodes, n, s)
    BY <1>2 DEF WriteNode
  <2>2. s \in Site /\ nodes \in [DOMAIN nodes -> Site] /\ DOMAIN nodes \subseteq Node
    BY DEF IInv, TypeOK
  <2>3. /\ DOMAIN nodes' = DOMAIN nodes \cup {n}
        /\ DOMAIN nodes' \subseteq Node /\ nodes' \in [DOMAIN nodes' -> Site]
        /\ nodes'[n] = s
        /\ \A x \in DOMAIN nodes : x # n => nodes'[x] = nodes[x]
    BY <2>1, <2>2 DEF Put
  <2>4. UNCHANGED <<sites, services, pubs, del>>
    BY <1>2 DEF WriteNode
  <2> QED BY <2>3, <2>4 DEF IInv, TypeOK, ReferencesResolve, NodeExists
<1>3. CASE CreateService
  <2>1. PICK v \in Service, row \in Row :
          Placed(row) /\ services' = Put(services, v, row)
    BY <1>3 DEF CreateService
  <2>2. services \in [DOMAIN services -> Row]
    BY DEF IInv, TypeOK
  <2>3. /\ DOMAIN services' = DOMAIN services \cup {v}
        /\ services'[v] = row
        /\ \A x \in DOMAIN services : x # v => services'[x] = services[x]
        /\ services' \in [DOMAIN services' -> Row]
    BY <2>1, <2>2 DEF Put
  <2> QED BY <1>3, <2>1, <2>3, WriteServiceInv DEF CreateService
<1>4. CASE UpdateService
  <2>1. PICK v \in DOMAIN services, row \in Row :
          Placed(row) /\ services' = [services EXCEPT ![v] = row]
    BY <1>4 DEF UpdateService
  <2>2. services \in [DOMAIN services -> Row] /\ v \in Service
    BY DEF IInv, TypeOK
  <2>3. /\ DOMAIN services' = DOMAIN services \cup {v}
        /\ services'[v] = row
        /\ \A x \in DOMAIN services : x # v => services'[x] = services[x]
        /\ services' \in [DOMAIN services' -> Row]
    BY <2>1, <2>2
  <2> QED BY <1>4, <2>1, <2>2, <2>3, WriteServiceInv DEF UpdateService
<1>5. CASE CloneService
  <2>1. PICK v \in DOMAIN services, w \in Service :
          services' = Put(services, w, services[v])
    BY <1>5 DEF CloneService
  <2>2. services \in [DOMAIN services -> Row] /\ services[v] \in Row
    BY DEF IInv, TypeOK
  <2>3. /\ DOMAIN services' = DOMAIN services \cup {w}
        /\ services'[w] = services[v]
        /\ \A x \in DOMAIN services : x # w => services'[x] = services[x]
        /\ services' \in [DOMAIN services' -> Row]
    BY <2>1, <2>2 DEF Put
  <2>4. Placed(services[v])
    BY DEF IInv, ReferencesResolve, Placed
  <2> QED BY <1>5, <2>2, <2>3, <2>4, WriteServiceInv DEF CloneService
<1>6. CASE WritePub
  <2>1. PICK p \in Pub, v \in DOMAIN services : pubs' = Put(pubs, p, v)
    BY <1>6 DEF WritePub
  <2>2. v \in Service /\ pubs \in [DOMAIN pubs -> Service] /\ DOMAIN pubs \subseteq Pub
    BY DEF IInv, TypeOK
  <2>3. /\ DOMAIN pubs' = DOMAIN pubs \cup {p}
        /\ DOMAIN pubs' \subseteq Pub /\ pubs' \in [DOMAIN pubs' -> Service]
        /\ pubs'[p] = v
        /\ \A x \in DOMAIN pubs : x # p => pubs'[x] = pubs[x]
    BY <2>1, <2>2 DEF Put
  <2>4. UNCHANGED <<sites, nodes, services, del>>
    BY <1>6 DEF WritePub
  <2> QED BY <2>3, <2>4 DEF IInv, TypeOK, ReferencesResolve, NodeExists
<1> QED BY <1>1, <1>2, <1>3, <1>4, <1>5, <1>6 DEF Edit

\* The tables after a deletion that does not fail.
LEMMA DeletedFacts ==
  ASSUME IInv, NEW r \in Req, CommitDelete(r), del[r].unlink \subseteq DOMAIN services,
         NEW N, N = NodesGone(del[r]), NEW V, V = ServicesGone(del[r])
  PROVE  /\ sites' = sites \ del[r].site
         /\ DOMAIN nodes' = DOMAIN nodes \ N
         /\ \A n \in DOMAIN nodes' : nodes'[n] = nodes[n]
         /\ DOMAIN services' = DOMAIN services \ V
         /\ \A v \in DOMAIN services' :
              /\ services'[v] \in Row
              /\ services'[v].site = services[v].site
              /\ services'[v].node = IF services[v].node \in N \/ v \in del[r].unlink
                                     THEN NoNode ELSE services[v].node
         /\ DOMAIN pubs' = DOMAIN pubs \ PubsGone(del[r], V)
         /\ \A p \in DOMAIN pubs' : pubs'[p] = pubs[p]
<1>1. /\ sites' = sites \ del[r].site
      /\ nodes' = Without(nodes, N)
      /\ services' = [v \in DOMAIN services \ V |->
             [services[v] EXCEPT
                !.node = IF services[v].node \in N \/ v \in del[r].unlink
                         THEN NoNode ELSE services[v].node]]
      /\ pubs' = Without(pubs, PubsGone(del[r], V))
  <2>1. \A v \in DOMAIN services :
          services[v] \in Row
    BY DEF IInv, TypeOK
  <2> QED BY <2>1 DEF CommitDelete, Row
<1>2. \A v \in DOMAIN services : services[v] \in Row
  BY DEF IInv, TypeOK
<1>3. \A v \in DOMAIN services' :
         /\ services'[v] \in Row
         /\ services'[v].site = services[v].site
         /\ services'[v].node = IF services[v].node \in N \/ v \in del[r].unlink
                                THEN NoNode ELSE services[v].node
  BY <1>1, <1>2 DEF Row
<1> QED BY <1>1, <1>3 DEF Without

\* A deletion keeps IInv.
LEMMA CommitDeleteInv == ASSUME IInv, NEW r \in Req, CommitDelete(r) PROVE IInv'
<1>1. del' \in [Req -> Deletion]
  BY NoDeletionType DEF IInv, TypeOK, CommitDelete
<1>2. CASE ~(del[r].unlink \subseteq DOMAIN services)
  <2>1. UNCHANGED <<sites, nodes, services, pubs>>
    BY <1>2 DEF CommitDelete, tables
  <2> QED BY <1>1, <2>1 DEF IInv, TypeOK, ReferencesResolve, NodeExists
<1>3. CASE del[r].unlink \subseteq DOMAIN services
  <2> DEFINE N == NodesGone(del[r])
             V == ServicesGone(del[r])
             P == PubsGone(del[r], V)
  <2>1. /\ sites' = sites \ del[r].site
        /\ DOMAIN nodes' = DOMAIN nodes \ N
        /\ \A n \in DOMAIN nodes' : nodes'[n] = nodes[n]
        /\ DOMAIN services' = DOMAIN services \ V
        /\ \A v \in DOMAIN services' :
             /\ services'[v] \in Row
             /\ services'[v].site = services[v].site
             /\ services'[v].node = IF services[v].node \in N \/ v \in del[r].unlink
                                    THEN NoNode ELSE services[v].node
        /\ DOMAIN pubs' = DOMAIN pubs \ P
        /\ \A p \in DOMAIN pubs' : pubs'[p] = pubs[p]
    BY <1>3, DeletedFacts
  <2>2. /\ nodes' = [n \in DOMAIN nodes' |-> nodes'[n]]
        /\ services' = [v \in DOMAIN services' |-> services'[v]]
        /\ pubs' = [p \in DOMAIN pubs' |-> pubs'[p]]
    BY <1>3 DEF CommitDelete, Without
  <2>3. \A n \in DOMAIN nodes : nodes[n] \in del[r].site => n \in N
    BY DEF NodesGone, NodesAt
  <2>4. \A v \in DOMAIN services : services[v].site \in del[r].site => v \in V
    BY DEF ServicesGone, ServicesAt
  <2>5. \A p \in DOMAIN pubs : pubs[p] \in V => p \in P
    BY DEF PubsGone, PubsOf
  <2> HIDE DEF N, V, P
  <2>6. TypeOK'
    BY <1>1, <2>1, <2>2 DEF IInv, TypeOK
  <2>7. ReferencesResolve'
    BY <2>1, <2>3, <2>4, <2>5 DEF IInv, ReferencesResolve, NodeExists
  <2> QED BY <2>6, <2>7 DEF IInv
<1> QED BY <1>2, <1>3

\* Every step keeps IInv.
LEMMA NextInv == IInv /\ [Next]_vars => IInv'
<1> SUFFICES ASSUME IInv, [Next]_vars PROVE IInv'
  OBVIOUS
<1>1. ASSUME del' \in [Req -> Deletion], UNCHANGED <<sites, nodes, services, pubs>>
      PROVE  IInv'
  BY <1>1 DEF IInv, TypeOK, ReferencesResolve, NodeExists
<1>2. CASE Edit
  BY <1>2, EditInv
<1>3. ASSUME NEW r \in Req, BeginDelete(r) PROVE IInv'
  <2>1. PICK d \in Deletion : del' = [del EXCEPT ![r] = d]
    BY <1>3, ReadType DEF IInv, BeginDelete
  <2>2. del' \in [Req -> Deletion]
    BY <2>1 DEF IInv, TypeOK
  <2> QED BY <1>1, <1>3, <2>2 DEF BeginDelete
<1>4. ASSUME NEW r \in Req, CommitDelete(r) PROVE IInv'
  BY <1>4, CommitDeleteInv
<1>5. ASSUME NEW r \in Req, AbortDelete(r) PROVE IInv'
  <2>1. del' \in [Req -> Deletion]
    BY <1>5, NoDeletionType DEF IInv, TypeOK, AbortDelete
  <2> QED BY <1>1, <1>5, <2>1 DEF AbortDelete
<1>6. CASE UNCHANGED vars
  BY <1>1, <1>6 DEF vars, IInv, TypeOK
<1> QED BY <1>2, <1>3, <1>4, <1>5, <1>6 DEF Next

-----------------------------------------------------------------------------
(* The theorems.                                                           *)

\* The inductive invariant holds for ever.
THEOREM Invariance == Spec => []IInv
<1> QED BY InitInv, NextInv, PTL DEF Spec

\* Every variable keeps its type.
THEOREM TypeCorrect == Spec => []TypeOK
<1>1. IInv => TypeOK
  BY DEF IInv
<1> QED BY <1>1, Invariance, PTL

\* No row refers to one that has gone.
THEOREM Resolve == Spec => []ReferencesResolve
<1>1. IInv => ReferencesResolve
  BY DEF IInv
<1> QED BY <1>1, Invariance, PTL

\* No row is lost, and no service loses its node, without a cause.
THEOREM Losses == Spec => LossHasCause
<1> DEFINE Caused ==
      /\ \A v \in DOMAIN services \ DOMAIN services' :
            \/ services[v].site \notin sites'
            \/ \E r \in Req : CommitDelete(r) /\ v \in del[r].services
      /\ \A p \in DOMAIN pubs \ DOMAIN pubs' :
            \/ pubs[p] \notin DOMAIN services'
            \/ \E r \in Req : CommitDelete(r) /\ p \in del[r].pubs
      /\ \A v \in DOMAIN services \cap DOMAIN services' :
            services'[v].node = NoNode /\ services[v].node # NoNode =>
               \/ services[v].node \notin DOMAIN nodes'
               \/ UpdateService
               \/ \E r \in Req : CommitDelete(r) /\ v \in del[r].unlink
<1>1. IInv /\ [Next]_vars => [Caused]_vars
  <2> SUFFICES ASSUME IInv, Next PROVE Caused
    OBVIOUS
  <2>1. ASSUME DOMAIN services \subseteq DOMAIN services',
               DOMAIN pubs \subseteq DOMAIN pubs',
               \A v \in DOMAIN services : UpdateService \/ services'[v] = services[v]
        PROVE  Caused
    BY <2>1
  <2>2. CASE UpdateService
    BY <2>1, <2>2 DEF UpdateService
  <2>3. CASE CreateSite \/ WriteNode \/ WritePub
    BY <2>1, <2>3 DEF CreateSite, WriteNode, WritePub, Put
  <2>4. CASE CreateService \/ CloneService
    BY <2>1, <2>4 DEF CreateService, CloneService, FreshService, Put
  <2>5. ASSUME NEW r \in Req, BeginDelete(r) \/ AbortDelete(r) PROVE Caused
    BY <2>1, <2>5 DEF BeginDelete, AbortDelete
  <2>6. ASSUME NEW r \in Req, CommitDelete(r) PROVE Caused
    <3>1. CASE ~(del[r].unlink \subseteq DOMAIN services)
      BY <2>1, <2>6, <3>1 DEF CommitDelete, tables
    <3>2. CASE del[r].unlink \subseteq DOMAIN services
      <4> DEFINE N == NodesGone(del[r])
                 V == ServicesGone(del[r])
                 P == PubsGone(del[r], V)
      <4>1. /\ sites' = sites \ del[r].site
            /\ DOMAIN nodes' = DOMAIN nodes \ N
            /\ DOMAIN services' = DOMAIN services \ V
            /\ \A v \in DOMAIN services' :
                 services'[v].node = IF services[v].node \in N \/ v \in del[r].unlink
                                     THEN NoNode ELSE services[v].node
            /\ DOMAIN pubs' = DOMAIN pubs \ P
        BY <2>6, <3>2, DeletedFacts
      <4>2. \A v \in V : v \in del[r].services \/ services[v].site \in del[r].site
        BY DEF ServicesGone, ServicesAt
      <4>3. \A p \in P : p \in del[r].pubs \/ pubs[p] \in V
        BY DEF PubsGone, PubsOf
      <4> HIDE DEF N, V, P
      <4> QED BY <2>6, <4>1, <4>2, <4>3
    <3> QED BY <3>1, <3>2
  <2> HIDE DEF Caused
  <2> QED BY <2>2, <2>3, <2>4, <2>5, <2>6 DEF Next, Edit
<1> QED BY <1>1, Invariance, PTL DEF Spec, LossHasCause
==============================================================================
