------------------------------- MODULE Inventory -------------------------------
(***************************************************************************)
(* Sites, the nodes and services at them and the publications of services  *)
(* (api/v1/sites.py, nodes.py, services.py, publications.py), with the     *)
(* keys between their tables (models/*.py).                                *)
(*                                                                         *)
(* A request that writes one row is one step: what it has read cannot be   *)
(* told from what it finds at its commit, where a row or a key that has    *)
(* gone meanwhile makes it fail without effect.  A deletion is two: the    *)
(* ORM first reads the children, and later writes to what it has read.     *)
(* The other columns are left out; those of peers, routes and probes are   *)
(* in PeerFleet, ConfigRevisions and HealthSweep.                          *)
(***************************************************************************)
EXTENDS Naturals

CONSTANTS
    Req,      \* the deletions that may be in flight at once
    Site,     \* identities of sites
    Node,     \* identities of nodes
    Service,  \* identities of services
    Pub,      \* identities of publications
    NoNode    \* services.node_id is NULL

ASSUME NoNodeAssumption == NoNode \notin Node

VARIABLES
    sites,     \* the committed sites
    nodes,     \* the committed nodes: their site
    services,  \* the committed services: their site and node
    pubs,      \* the committed publications: their service
    del        \* the transactions that delete

tables == <<sites, nodes, services, pubs>>
vars   == <<sites, nodes, services, pubs, del>>

Row == [site : Site, node : Node \cup {NoNode}]

(* What a deletion has read: the rows to delete by their keys, and the      *)
(* services whose node_id is to be set to NULL.                             *)
Deletion == [busy : BOOLEAN, site : SUBSET Site, nodes : SUBSET Node,
             services : SUBSET Service, pubs : SUBSET Pub,
             unlink : SUBSET Service]

NoDeletion == [busy |-> FALSE, site |-> {}, nodes |-> {}, services |-> {},
               pubs |-> {}, unlink |-> {}]

Empty == [x \in {} |-> x]

Init == /\ sites = {}
        /\ nodes = Empty /\ services = Empty /\ pubs = Empty
        /\ del = [r \in Req |-> NoDeletion]

Put(f, k, v)  == [x \in DOMAIN f \cup {k} |-> IF x = k THEN v ELSE f[x]]
Without(f, K) == [x \in DOMAIN f \ K |-> f[x]]

\* Mutant: the keys of services are taken for those of their publications.
PubsOfKeys(V) == V \cap DOMAIN services

\* The rows that refer to one of the given rows.
NodesAt(S)    == {n \in DOMAIN nodes : nodes[n] \in S}
ServicesAt(S) == {v \in DOMAIN services : services[v].site \in S}
ServicesOn(N) == {v \in DOMAIN services : services[v].node \in N}
PubsOf(V)     == {p \in DOMAIN pubs : pubs[p] \in V}

-----------------------------------------------------------------------------
(* Requests that write one row.                                            *)

CreateSite ==
    /\ \E s \in Site \ sites :
         /\ \A r \in Req : s \notin del[r].site
         /\ sites' = sites \cup {s}
    /\ UNCHANGED <<nodes, services, pubs, del>>

\* POST and PATCH: a node is created at a site, or moved to another one.
WriteNode ==
    /\ \E n \in Node, s \in sites :
         /\ n \notin DOMAIN nodes => \A r \in Req : n \notin del[r].nodes
         /\ nodes' = Put(nodes, n, s)
    /\ UNCHANGED <<sites, services, pubs, del>>

FreshService(v) ==
    /\ v \notin DOMAIN services
    /\ \A r \in Req : v \notin del[r].services \cup del[r].unlink

\* The foreign key services.node_id; nothing asks for a node of the same site.
NodeExists(n) == n \in DOMAIN nodes \cup {NoNode}

\* A row that the database accepts.
Placed(row) == row.site \in sites /\ NodeExists(row.node)

CreateService ==
    /\ \E v \in Service, row \in Row :
         /\ FreshService(v) /\ Placed(row)
         /\ services' = Put(services, v, row)
    /\ UNCHANGED <<sites, nodes, pubs, del>>

\* PATCH of the site, of the node, or of both.
UpdateService ==
    /\ \E v \in DOMAIN services, row \in Row :
         /\ Placed(row)
         /\ services' = [services EXCEPT ![v] = row]
    /\ UNCHANGED <<sites, nodes, pubs, del>>

\* The copy is at the site and on the node of its source.
CloneService ==
    /\ \E v \in DOMAIN services, w \in Service :
         /\ FreshService(w)
         /\ services' = Put(services, w, services[v])
    /\ UNCHANGED <<sites, nodes, pubs, del>>

\* POST /publications, and switch-backend of an existing one.
WritePub ==
    /\ \E p \in Pub, v \in DOMAIN services :
         /\ p \notin DOMAIN pubs => \A r \in Req : p \notin del[r].pubs
         /\ pubs' = Put(pubs, p, v)
    /\ UNCHANGED <<sites, nodes, services, del>>

-----------------------------------------------------------------------------
(* Deletions.                                                              *)

\* session.delete reads the children that are deleted with their parent.
ReadSite(s) ==
    LET V == ServicesAt({s})
        N == NodesAt({s})
    IN  [busy |-> TRUE, site |-> {s}, nodes |-> N, services |-> V,
         pubs |-> PubsOf(V), unlink |-> ServicesOn(N) \ V]

\* A node's services are not deleted with it: the flush reads them.
ReadNode(n) == [NoDeletion EXCEPT !.busy = TRUE, !.nodes = {n},
                                  !.unlink = ServicesOn({n})]

ReadService(v) == [NoDeletion EXCEPT !.busy = TRUE, !.services = {v},
                                     !.pubs = PubsOf({v})]

ReadPub(p) == [NoDeletion EXCEPT !.busy = TRUE, !.pubs = {p}]

\* delete_site, delete_node, delete_service, delete_publication.
BeginDelete(r) ==
    /\ ~del[r].busy
    /\ \E d \in {ReadSite(s) : s \in sites}
                \cup {ReadNode(n) : n \in DOMAIN nodes}
                \cup {ReadService(v) : v \in DOMAIN services}
                \cup {ReadPub(p) : p \in DOMAIN pubs} :
         del' = [del EXCEPT ![r] = d]
    /\ UNCHANGED <<sites, nodes, services, pubs>>

\* Mutant: publications.service_id without ON DELETE CASCADE.
PubsGoneRead(d, V) == d.pubs

\* Mutant: services.node_id with ON DELETE CASCADE.
ServicesGoneOnNodes(d) ==
    d.services \cup ServicesAt(d.site) \cup ServicesOn(d.nodes \cup NodesAt(d.site))

\* The rows that go: those that were read, and by ON DELETE CASCADE those
\* that refer to a row deleted by now.
NodesGone(d)    == d.nodes \cup NodesAt(d.site)
ServicesGone(d) == d.services \cup ServicesAt(d.site)
PubsGone(d, V)  == d.pubs \cup PubsOf(V)

\* Flush and commit.  An UPDATE to NULL of a service that has gone fails the
\* whole request (StaleDataError); a DELETE of one only warns.
CommitDelete(r) ==
    /\ del[r].busy
    /\ LET d == del[r]
           N == NodesGone(d)
           V == ServicesGone(d)
       IN  IF ~(d.unlink \subseteq DOMAIN services)
           THEN UNCHANGED tables
           ELSE /\ sites' = sites \ d.site
                /\ nodes' = Without(nodes, N)
                /\ services' = [v \in DOMAIN services \ V |->
                       [services[v] EXCEPT
                          !.node = IF @ \in N \/ v \in d.unlink
                                   THEN NoNode ELSE @]]
                /\ pubs' = Without(pubs, PubsGone(d, V))
    /\ del' = [del EXCEPT ![r] = NoDeletion]

\* An exception, a lost connection, a deadlock of row locks, a crash.
AbortDelete(r) ==
    /\ del[r].busy
    /\ del' = [del EXCEPT ![r] = NoDeletion]
    /\ UNCHANGED <<sites, nodes, services, pubs>>

Edit == \/ CreateSite \/ WriteNode \/ CreateService \/ UpdateService
        \/ CloneService \/ WritePub

Next == \/ Edit
        \/ \E r \in Req : BeginDelete(r) \/ CommitDelete(r) \/ AbortDelete(r)

Spec == Init /\ [][Next]_vars

-----------------------------------------------------------------------------
(* Properties.                                                             *)

\* Every variable has its type.
TypeOK == /\ sites \subseteq Site
          /\ DOMAIN nodes \subseteq Node /\ nodes \in [DOMAIN nodes -> Site]
          /\ DOMAIN services \subseteq Service
          /\ services \in [DOMAIN services -> Row]
          /\ DOMAIN pubs \subseteq Pub /\ pubs \in [DOMAIN pubs -> Service]
          /\ del \in [Req -> Deletion]

\* No row refers to one that has gone, although the deletions write to what
\* they have read before, and rows are created and moved meanwhile.
ReferencesResolve ==
    /\ \A n \in DOMAIN nodes : nodes[n] \in sites
    /\ \A v \in DOMAIN services :
         services[v].site \in sites /\ NodeExists(services[v].node)
    /\ \A p \in DOMAIN pubs : pubs[p] \in DOMAIN services

\* A service is lost only when it is deleted itself or its site is, a
\* publication only when it is or its service is lost, and a service loses its
\* node only when that node is lost or by its own PATCH: except that what is
\* moved away while a deletion is in flight may still be hit by it.
LossHasCause ==
    [][/\ \A v \in DOMAIN services \ DOMAIN services' :
            \/ services[v].site \notin sites'
            \/ \E r \in Req : CommitDelete(r) /\ v \in del[r].services
       /\ \A p \in DOMAIN pubs \ DOMAIN pubs' :
            \/ pubs[p] \notin DOMAIN services'
            \/ \E r \in Req : CommitDelete(r) /\ p \in del[r].pubs
       /\ \A v \in DOMAIN services \cap DOMAIN services' :
            services'[v].node = NoNode /\ services[v].node # NoNode =>
               \/ services[v].node \notin DOMAIN nodes'
               \/ UpdateService
               \/ \E r \in Req : CommitDelete(r) /\ v \in del[r].unlink]_vars
================================================================================
