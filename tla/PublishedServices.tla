--------------------------- MODULE PublishedServices ---------------------------
(***************************************************************************)
(* The published-service API (api/v1/published.py) and its neighbours: the *)
(* granular publication and service routers, the deletion of a site, the   *)
(* DNS registry (api/v1/dns.py) and wg-easy (services/wgeasy.py), which    *)
(* owns the WireGuard clients and takes no part in the transaction.        *)
(*                                                                         *)
(* Sites are not told apart: the deletion of one takes any services and    *)
(* peers with it; without services it is also DELETE /peers.  A PATCH of   *)
(* publications writes one of the two columns.  A request begins with its first query (which may answer *)
(* 404: then it is none) and requests interleave between awaits.  The last *)
(* flush and the commit are one step: a row lock or a pending unique key   *)
(* makes the others wait for the commit and then see its result.           *)
(***************************************************************************)
EXTENDS Naturals, Sequences, FiniteSets

CONSTANTS
    Req,        \* the requests that may be in flight at once
    Svc,        \* identities of services; each is used at most once at a time
    Pub,        \* identities of publications, likewise
    Fqdn,       \* domain names
    Rec,        \* identities of DNS records: enough for an insert to find one
    Row,        \* identities of peer rows
    NoName,     \* no domain
    NoLink,     \* a domain record linked to no publication
    Label,      \* names of wg-easy clients
    Ops,        \* the operations this instance exercises
    Clients,    \* wg-easy clients there are to begin with
    MaxClients  \* bound on the clients, in the guard of PostClient

DeleteOps == {"delete", "drop", "unpublish", "site"}
AllOps == {"new", "existing", "update", "service", "publish", "edit", "switch",
           "dnsCreate", "dnsUpdate", "dnsDelete"} \cup DeleteOps

ASSUME OpsAssumption  == Ops \subseteq AllOps
ASSUME NameAssumption == NoName \notin Fqdn /\ NoLink \notin Pub
ASSUME ClientsAssumption == Clients \in Seq(Label) /\ MaxClients \in Nat

VARIABLES
    clients,    \* wg-easy: names of its clients, oldest first
    peers,      \* committed peer rows: the client each refers to
    svcs,       \* committed services
    pubs,       \* committed publications: the service and the name of each
    domains,    \* committed DNS records, by identity
    edited,     \* history: names given, changed or relinked by a request
                \* other than POST and DELETE /published-services
    req         \* the requests

vars == <<clients, peers, svcs, pubs, domains, edited, req>>

Name        == Fqdn \cup {NoName}
Link        == Pub \cup {NoLink}
Publication == [svc : Svc, domain : Name]
Record      == [fqdn : Fqdn, link : Link]

PC == {"idle", "post", "list", "peer", "domain", "clash", "flush", "commit"}

(* svcs, pubs, rec: the service, publication, record edited, or those a    *)
(* deletion has read; name, link: the values asked for; old, tied: those   *)
(* of the record as loaded; label: of the client to create; own: the       *)
(* client this request created (history); client: the one it uses; peer:   *)
(* its row; found: the records selected for deletion; held: those the      *)
(* flush will unlink; solo (history): no other request was in flight since *)
(* this one began.                                                         *)
Request == [pc : PC, op : AllOps, svcs : SUBSET Svc, pubs : SUBSET Pub,
            rec : SUBSET Rec, name : Name, link : Link, old : Name, tied : Link,
            label : Label \cup {NoName}, own : Nat, client : Nat,
            peer : SUBSET Row, found : SUBSET Rec, held : SUBSET Rec,
            solo : BOOLEAN]

Idle == [pc |-> "idle", op |-> "new", svcs |-> {}, pubs |-> {}, rec |-> {},
         name |-> NoName, link |-> NoLink, old |-> NoName, tied |-> NoLink,
         label |-> NoName, own |-> 0, client |-> 0, peer |-> {}, found |-> {},
         held |-> {}, solo |-> FALSE]

Live       == DOMAIN pubs
Records    == DOMAIN domains
Registered == {domains[i].fqdn : i \in Records}

\* Identities that no row has and no request refers to.
Fresh(i) == /\ i \notin Records
            /\ \A t \in Req : i \notin req[t].rec \cup req[t].found
                                      \cup req[t].held
FreshSvc == {s \in Svc \ svcs : \A t \in Req : s \notin req[t].svcs}
FreshPub == {p \in Pub \ Live :
               \A t \in Req : p \notin req[t].pubs \cup {req[t].link}}
FreshRow == {i \in Row \ DOMAIN peers : \A t \in Req : i \notin req[t].peer}

Init == /\ clients = Clients
        /\ peers = [i \in {} |-> i]
        /\ svcs = {}
        /\ pubs = [p \in {} |-> p]
        /\ domains = [i \in {} |-> i]
        /\ edited = {}
        /\ req = [t \in Req |-> Idle]

Put(f, k, v) == [x \in DOMAIN f \cup {k} |-> IF x = k THEN v ELSE f[x]]
Without(f, K) == [x \in DOMAIN f \ K |-> f[x]]

Finish(t) == req' = [req EXCEPT ![t] = Idle]
Tables    == <<peers, svcs, pubs, domains, edited>>

\* Names given, taken or relinked by hand from now on.
Touch(N) == edited' = edited \cup (N \ {NoName})

InFlight == {t \in Req : req[t].pc # "idle"}

Begin(t, r) ==
    /\ req[t].pc = "idle"
    /\ r.op \in Ops
    /\ req' = [u \in Req |-> IF u = t THEN [r EXCEPT !.solo = (InFlight = {})]
                             ELSE [req[u] EXCEPT !.solo = FALSE]]
    /\ UNCHANGED <<clients, Tables>>

-----------------------------------------------------------------------------
(* POST /published-services.                                               *)

BeginNew(t) ==
    \E d \in Name, l \in Label :
      Begin(t, [Idle EXCEPT !.op = "new", !.pc = "post", !.name = d, !.label = l])

BeginExisting(t) ==
    \E d \in Name, c \in DOMAIN clients :
      Begin(t, [Idle EXCEPT !.op = "existing", !.pc = "peer", !.name = d,
                            !.client = c])

\* create_client, first call: wg-easy adds a client.
PostClient(t) ==
    /\ req[t].pc = "post"
    /\ Len(clients) < MaxClients
    /\ clients' = Append(clients, req[t].label)
    /\ req' = [req EXCEPT ![t].pc = "list", ![t].own = Len(clients) + 1]
    /\ UNCHANGED <<Tables>>

Matches(l) == {c \in DOMAIN clients : clients[c] = l}

\* Mutant: the first client of that name is taken, not the newest.
LocatedFirst(l) == CHOOSE c \in Matches(l) : \A d \in Matches(l) : c <= d

\* matches[-1]: the newest client of that name.
Located(l) == CHOOSE c \in Matches(l) : \A d \in Matches(l) : d <= c

\* create_client, second call: find the new client in the list by name.
ListClients(t) ==
    /\ req[t].pc = "list"
    /\ req' = [req EXCEPT ![t].pc = "peer", ![t].client = Located(req[t].label)]
    /\ UNCHANGED <<clients, Tables>>

PeersOf(c) == {i \in DOMAIN peers : peers[i] = c}

\* Mutant: the peer of the client is not looked for.
SelectPeerAlways(t) ==
    /\ req[t].pc = "peer"
    /\ req' = [req EXCEPT ![t].pc = "domain"]
    /\ UNCHANGED <<clients, Tables>>

\* _upsert_peer: scalar_one_or_none raises if the client has two rows.
SelectPeer(t) ==
    /\ req[t].pc = "peer"
    /\ \/ /\ PeersOf(req[t].client) = {}
          /\ req' = [req EXCEPT ![t].pc = "domain"]
       \/ \E i \in PeersOf(req[t].client) :
            IF PeersOf(req[t].client) = {i}
            THEN req' = [req EXCEPT ![t].pc = "domain", ![t].peer = {i}]
            ELSE Finish(t)                                 \* 500
    /\ UNCHANGED <<clients, Tables>>

\* The check for a registered name; also of POST /dns.
CheckDomain(t) ==
    /\ req[t].pc = "domain"
    /\ IF req[t].name \in Registered
       THEN Finish(t)                                      \* 409
       ELSE req' = [req EXCEPT ![t].pc = "commit"]
    /\ UNCHANGED <<clients, Tables>>

\* Mutant: the database does not enforce the unique key of domains.
TakenNever(f) == FALSE

\* The unique key of domains.fqdn, when the INSERT is flushed.
Taken(f) == f \in Registered

\* Mutants: a record is inserted without a name; it is not linked.
InsertedNameless(f, l) ==
    \E i \in Rec : /\ Fresh(i)
                  /\ domains' = Put(domains, i, [fqdn |-> f, link |-> l])
InsertedUnlinked(f, l) ==
    IF f = NoName THEN UNCHANGED domains
    ELSE InsertedNameless(f, NoLink)

\* INSERT INTO domains, if there is a name.
Inserted(f, l) ==
    IF f = NoName THEN UNCHANGED domains
    ELSE \E i \in Rec : /\ Fresh(i)
                        /\ domains' = Put(domains, i, [fqdn |-> f, link |-> l])

\* The rows of the peer (if new), the service, its publication and domain.
\* The unique key of domains, or the foreign key of a peer that has gone,
\* makes it fail.
CommitCreate(t) ==
    /\ req[t].pc = "commit"
    /\ req[t].op \in {"new", "existing"}
    /\ LET r == req[t]
       IN  IF Taken(r.name) \/ ~(r.peer \subseteq DOMAIN peers)
           THEN UNCHANGED Tables                           \* IntegrityError
           ELSE \E s \in FreshSvc, p \in FreshPub :
                  /\ IF r.peer = {}
                     THEN \E i \in FreshRow : peers' = Put(peers, i, r.client)
                     ELSE UNCHANGED peers
                  /\ svcs' = svcs \cup {s}
                  /\ pubs' = Put(pubs, p, [svc |-> s, domain |-> r.name])
                  /\ Inserted(r.name, p)
                  /\ UNCHANGED edited
    /\ Finish(t)
    /\ UNCHANGED clients

-----------------------------------------------------------------------------
(* PATCH /published-services, and the granular routers.                    *)

\* PATCH /published-services gives the first publication of a service, in
\* whatever order they come, another name.  The other columns it and toggle
\* write are those of ConfigRevisions.
BeginUpdate(t) ==
    \E p \in Live : \E d \in Name \ {pubs[p].domain} :
      Begin(t, [Idle EXCEPT !.op = "update", !.pc = "clash", !.pubs = {p},
                            !.name = d])

\* PATCH /publications, of the name or the service; switch-backend.
BeginEdit(t) ==
    \E p \in Live :
       \/ \E d \in Name \ {pubs[p].domain} :
            Begin(t, [Idle EXCEPT !.op = "edit", !.pc = "commit", !.pubs = {p},
                                  !.name = d])
       \/ \E s \in Svc \ {pubs[p].svc} :
            Begin(t, [Idle EXCEPT !.op = "switch", !.pc = "commit",
                                  !.pubs = {p}, !.svcs = {s}])

\* POST /publications, of a service that is there.
BeginPublish(t) ==
    \E s \in svcs, d \in Name :
      Begin(t, [Idle EXCEPT !.op = "publish", !.pc = "commit", !.svcs = {s},
                            !.name = d])

\* POST /services, and the clone of one: no publication.
CreateService ==
    /\ "service" \in Ops
    /\ \E s \in FreshSvc : svcs' = svcs \cup {s}
    /\ UNCHANGED <<clients, peers, pubs, domains, edited, req>>

\* update_published: a new name must not be registered.
Clash(t) ==
    /\ req[t].pc = "clash"
    /\ IF req[t].name \in Registered
       THEN Finish(t)                                      \* 409
       ELSE req' = [req EXCEPT ![t].pc = "commit"]
    /\ UNCHANGED <<clients, Tables>>

\* The columns that changed; nothing if the row has gone meanwhile (500), or
\* the service it moves to.  The DNS record is left as it was.
CommitEdit(t) ==
    /\ req[t].pc = "commit"
    /\ req[t].op \in {"update", "edit", "switch"}
    /\ \E p \in req[t].pubs :
         \/ /\ p \notin Live \/ ~(req[t].svcs \subseteq svcs)
            /\ UNCHANGED <<pubs, edited>>
         \/ /\ p \in Live /\ req[t].op # "switch"
            /\ pubs' = [pubs EXCEPT ![p].domain = req[t].name]
            /\ Touch({pubs[p].domain, req[t].name})
         \/ /\ p \in Live /\ req[t].op = "switch"
            /\ \E s \in req[t].svcs \cap svcs :
                 pubs' = [pubs EXCEPT ![p].svc = s]
            /\ UNCHANGED edited
    /\ Finish(t)
    /\ UNCHANGED <<clients, peers, svcs, domains>>

\* POST /publications gives a name with no look at domains.
CommitPublish(t) ==
    /\ req[t].pc = "commit"
    /\ req[t].op = "publish"
    /\ \E s \in req[t].svcs :
         IF s \notin svcs
         THEN UNCHANGED <<pubs, edited>>                   \* IntegrityError
         ELSE /\ \E p \in FreshPub :
                   pubs' = Put(pubs, p, [svc |-> s, domain |-> req[t].name])
              /\ Touch({req[t].name})
    /\ Finish(t)
    /\ UNCHANGED <<clients, peers, svcs, domains>>

-----------------------------------------------------------------------------
(* DELETE of /published-services, /services, /publications and /sites.     *)

PubsOf(S) == {p \in Live : pubs[p].svc \in S}

\* Mutant: the DNS records of the publications are not looked for.
LinkedNone(P) == {}

\* The records of these publications.
LinkedTo(P) == {i \in Records : domains[i].link \in P}

\* What goes is read first: the services and their publications;
\* delete_published reads the DNS records of these as well, to delete them.
BeginDelete(t) ==
    \/ \E op \in {"delete", "drop"}, s \in svcs :
         Begin(t, [Idle EXCEPT !.op = op, !.pc = "flush", !.svcs = {s},
                     !.pubs = PubsOf({s}),
                     !.found = IF op = "delete" THEN LinkedTo(PubsOf({s}))
                               ELSE {}])
    \/ \E p \in Live :
         Begin(t, [Idle EXCEPT !.op = "unpublish", !.pc = "flush", !.pubs = {p}])
    \/ \E S \in SUBSET svcs :
         Begin(t, [Idle EXCEPT !.op = "site", !.pc = "flush", !.svcs = S,
                               !.pubs = PubsOf(S)])

\* The flush loads the records still linked to the publications it deletes,
\* but for those it deletes as well.
FlushDelete(t) ==
    /\ req[t].pc = "flush"
    /\ req' = [req EXCEPT ![t].pc = "commit",
                          ![t].held = LinkedTo(req[t].pubs) \ req[t].found]
    /\ UNCHANGED <<clients, Tables>>

\* Mutant: the database keeps the link of a publication that is deleted.
UnlinkedKeep(d, P) == d

\* ON DELETE SET NULL of domains.publication_id.
Unlinked(d, P) == [i \in DOMAIN d |->
                     IF d[i].link \in P THEN [d[i] EXCEPT !.link = NoLink]
                     ELSE d[i]]

\* The services read go, with a site those that have come since as well, and
\* some peers; the publications read go wherever they are by now (the ORM),
\* and those of the services that go (the foreign key).  Of the records, only
\* delete_published deletes those it selected; the link of one held is cleared
\* whatever it is by now, and one that has gone makes the request fail
\* (StaleDataError).
CommitDelete(t) ==
    /\ req[t].pc = "commit"
    /\ req[t].op \in DeleteOps
    /\ LET r == req[t]
           kept == Without(domains, r.found)
       IN  IF ~(r.held \subseteq Records)
           THEN UNCHANGED Tables
           ELSE \E more \in SUBSET svcs, rows \in SUBSET DOMAIN peers :
                  LET S == r.svcs \cup more
                      P == r.pubs \cup PubsOf(S)
                  IN  /\ r.op = "site" \/ (more = {} /\ rows = {})
                      /\ svcs' = svcs \ S
                      /\ pubs' = Without(pubs, P)
                      /\ domains' = Unlinked([i \in DOMAIN kept |->
                                       IF i \in r.held
                                       THEN [kept[i] EXCEPT !.link = NoLink]
                                       ELSE kept[i]], P)
                      /\ peers' = Without(peers, rows)
                      /\ UNCHANGED edited
    /\ Finish(t)
    /\ UNCHANGED clients

-----------------------------------------------------------------------------
(* The DNS registry.                                                       *)

\* POST, PATCH and DELETE of /dns.
BeginDns(t) ==
    \/ \E f \in Fqdn, l \in Link :
         Begin(t, [Idle EXCEPT !.op = "dnsCreate", !.pc = "domain", !.name = f,
                               !.link = l])
    \/ \E i \in Records, f \in Fqdn, l \in Link :
         Begin(t, [Idle EXCEPT !.op = "dnsUpdate", !.pc = "commit", !.rec = {i},
                     !.name = f, !.link = l, !.old = domains[i].fqdn,
                     !.tied = domains[i].link])
    \/ \E i \in Records :
         Begin(t, [Idle EXCEPT !.op = "dnsDelete", !.pc = "commit", !.rec = {i}])

\* The foreign key of domains.publication_id.
LinkExists(l) == l = NoLink \/ l \in Live

CommitDnsCreate(t) ==
    /\ req[t].pc = "commit"
    /\ req[t].op = "dnsCreate"
    /\ IF Taken(req[t].name) \/ ~LinkExists(req[t].link)
       THEN UNCHANGED <<domains, edited>>                  \* IntegrityError
       ELSE Inserted(req[t].name, req[t].link) /\ Touch({req[t].name})
    /\ Finish(t)
    /\ UNCHANGED <<clients, peers, svcs, pubs>>

\* The record after update_domain: only what differs from the loaded record
\* is written.
Redirected(r, d) ==
    [d EXCEPT !.fqdn = IF r.name = r.old THEN @ ELSE r.name,
              !.link = IF r.link = r.tied THEN @ ELSE r.link]

\* update_domain renames and relinks without a check of its own; the unique
\* key, the foreign key or a record gone meanwhile make it fail.
CommitDnsUpdate(t) ==
    /\ req[t].pc = "commit"
    /\ req[t].op = "dnsUpdate"
    /\ \E i \in req[t].rec :
         LET r == req[t]
             fails == \/ i \notin Records
                      \/ /\ r.name # r.old
                         /\ \E j \in Records \ {i} : domains[j].fqdn = r.name
                      \/ r.link # r.tied /\ ~LinkExists(r.link)
         IN  IF fails
             THEN UNCHANGED <<domains, edited>>
             ELSE /\ domains' = [domains EXCEPT ![i] = Redirected(r, @)]
                  /\ Touch(IF domains' = domains THEN {}
                           ELSE {domains[i].fqdn, domains'[i].fqdn})
    /\ Finish(t)
    /\ UNCHANGED <<clients, peers, svcs, pubs>>

CommitDnsDelete(t) ==
    /\ req[t].pc = "commit"
    /\ req[t].op = "dnsDelete"
    /\ domains' = Without(domains, req[t].rec)
    /\ Touch({domains[i].fqdn : i \in req[t].rec \cap Records})
    /\ Finish(t)
    /\ UNCHANGED <<clients, peers, svcs, pubs>>

\* WgEasyError, HTTPException, a lost connection, a crash: the transaction is
\* rolled back, wg-easy keeps its client.
Abort(t) ==
    /\ req[t].pc # "idle"
    /\ Finish(t)
    /\ UNCHANGED <<clients, Tables>>

Next == \/ CreateService
        \/ \E t \in Req :
             \/ BeginNew(t) \/ BeginExisting(t) \/ BeginUpdate(t) \/ BeginEdit(t)
             \/ BeginPublish(t) \/ BeginDelete(t) \/ BeginDns(t)
             \/ PostClient(t) \/ ListClients(t) \/ SelectPeer(t) \/ CheckDomain(t)
             \/ CommitCreate(t) \/ Clash(t) \/ CommitEdit(t) \/ CommitPublish(t)
             \/ FlushDelete(t) \/ CommitDelete(t) \/ CommitDnsCreate(t)
             \/ CommitDnsUpdate(t) \/ CommitDnsDelete(t) \/ Abort(t)

Spec == Init /\ [][Next]_vars

-----------------------------------------------------------------------------
(* Properties.                                                             *)

\* Every variable has its type.
TypeOK == /\ clients \in Seq(Label)
          /\ DOMAIN peers \subseteq Row /\ peers \in [DOMAIN peers -> Nat \ {0}]
          /\ svcs \subseteq Svc
          /\ Live \subseteq Pub /\ pubs \in [Live -> Publication]
          /\ Records \subseteq Rec /\ domains \in [Records -> Record]
          /\ edited \subseteq Fqdn
          /\ req \in [Req -> Request]

\* The foreign key and its SET NULL hold the two tables together: a DNS
\* record never points at a publication that has been deleted, even when the
\* record is linked while the publication, its service or site is deleted.
LinksResolve == \A i \in Records : domains[i].link \in Live \cup {NoLink}

\* As far as only POST and DELETE /published-services have to do with a name,
\* the DNS registry and the publications agree on it in both directions,
\* whatever is in flight and whatever services and sites are deleted: a record
\* linked to a publication bears its name, and a publication with that name
\* has the record.  A name from POST or PATCH /publications has no record.
RegistryMatchesServices ==
    /\ \A i \in Records :
          domains[i].link \in Live /\ domains[i].fqdn \notin edited
             => pubs[domains[i].link].domain = domains[i].fqdn
    /\ \A p \in Live :
          pubs[p].domain \notin edited \cup {NoName}
             => \E i \in Records : /\ domains[i].link = p
                                   /\ domains[i].fqdn = pubs[p].domain

\* The publications that bear a name.
Under(d) == {p \in Live : pubs[p].domain = d}

\* No two services are published under one name that only POST
\* /published-services has given, although it is checked in one statement and
\* inserted in another.  The other requests that give a name, POST and PATCH of
\* /publications, do not look whether it is in use.
NamesDistinct == \A d \in Fqdn \ edited : \A p, q \in Under(d) : p = q

\* Claimed by `Domain already in use': no two services share a name.
NamesNeverShared == \A d \in Fqdn : \A p, q \in Under(d) : p = q

\* DELETE /published-services releases the names of the publications it has
\* read, whatever else is in flight: only the deletions of the granular
\* routers (a service, a publication, a site) leave a record that nobody has
\* edited without publication, where it blocks its name for good; or the
\* publication was moved to the service while that was being deleted.
NamesReleased ==
    [][\A i \in Records' :
          /\ domains'[i].link \notin Live' /\ domains'[i].fqdn \notin edited'
          /\ (i \in Records => domains[i].link \in Live)
          => \E t \in Req :
                /\ CommitDelete(t)
                /\ req[t].op # "delete" \/ domains[i].link \notin req[t].pubs]_vars

\* A request that creates a wg-easy client goes on with that very client,
\* whatever clients of that name earlier requests have left behind.  Only a
\* concurrent request may make it take another's.
SoloClientIsOwn ==
    \A t \in Req :
        req[t].solo /\ req[t].own # 0 /\ req[t].pc \in {"peer", "domain", "commit"}
            => req[t].client = req[t].own

\* A client that has a row in peers gets no second one, which would make
\* every later request for that client fail; again but for a concurrent one.
SoloPeerIsUnique ==
    [][\A t \in Req :
          CommitCreate(t) /\ req[t].solo /\ PeersOf(req[t].client) # {}
              => peers' = peers]_vars

==============================================================================
