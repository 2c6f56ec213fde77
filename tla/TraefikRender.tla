----------------------------- MODULE TraefikRender -----------------------------
(***************************************************************************)
(* services/config_renderer/traefik.py: render_traefik_dynamic builds the  *)
(* routers and services of the edge document from the publications, and    *)
(* find_domain_conflicts looks for web publications that claim the same    *)
(* name.  Both are loops over rows that the database returns in any order  *)
(* (build_render_input has no ORDER BY); each iteration is an action here, *)
(* and the same rows may be rendered again in another order.               *)
(*                                                                         *)
(* A publication is one record together with its service, whose exposure   *)
(* (public, private or disabled) no definition reads: no code does.  The   *)
(* text of the YAML is left out; safe_dump(sort_keys=True) makes it a      *)
(* function of the document.                                               *)
(***************************************************************************)
EXTENDS Integers, Sequences, FiniteSets, SequencesExt

CONSTANTS
    Registries,  \* the sets of publications to render
    None         \* a nullable column or setting without value

\* The table has a primary key, and integers in the columns it is sorted by.
ASSUME RegistriesAssumption ==
    \A S \in Registries :
        /\ IsFiniteSet(S)
        /\ \A p \in S : p.id \in Nat /\ p.prio \in Int
        /\ \A p, q \in S : p.id = q.id => p = q

\* No value of a setting is the missing one.
ASSUME NoneAssumption == None # "resolver"

VARIABLES
    rows,        \* the publications, as the query returned them
    phase,       \* the loop that is running
    order,       \* publications still to be routed
    doc,         \* the document so far
    next,        \* index of the next row of find_domain_conflicts
    seen,        \* its dictionary: key to publication id
    conflicts,   \* its messages: <<key, first id, second id>>
    last         \* the document of the previous rendering of these rows

vars == <<rows, phase, order, doc, next, seen, conflicts, last>>

EmptyPath == "empty"     \* path_prefix = '': not NULL, but falsy

\* f with v under key n: assignment to a dictionary.
Put(f, n, v) == [x \in DOMAIN f \cup {n} |-> IF x = n THEN v ELSE f[x]]
Nothing      == [n \in {} |-> n]

-----------------------------------------------------------------------------
\* id[:8]: here the first digits of the number that stands for the uuid.
Short(id) == id \div 10

Name(p) == <<p.slug, Short(p.id)>>

\* Host(domain) && PathPrefix(path), the second part only if path is truthy.
WebRule(p) == <<p.domain, IF p.path = EmptyPath THEN None ELSE p.path>>

\* The rows that are routed at all, and the sort key.
Kept(p) == p.public /\ p.enabled
Before(p, q) == p.prio < q.prio \/ (p.prio = q.prio /\ p.id < q.id)

\* Mutant: the rows are rendered in the order of the query.
ArrangeUnsorted(s) == SelectSeq(s, Kept)

Arrange(s) == CHOOSE a \in SetToSeqs({p \in Range(s) : Kept(p)}) :
                  \A i, j \in DOMAIN a : i < j => Before(a[i], a[j])

\* Mutant: maintenance replaces the profile instead of joining it.
MiddlewaresReplaced(p) == IF p.maint THEN {"cp-maintenance"}
                          ELSE {p.mw} \ {None}

Middlewares(p) == ({p.mw} \ {None})
                  \cup (IF p.maint THEN {"cp-maintenance"} ELSE {})

WebRouter(p) ==
    [rule |-> WebRule(p),
     entry |-> IF p.tls THEN "websecure" ELSE "web",
     prio |-> p.prio,
     middlewares |-> Middlewares(p),
     tls |-> IF ~p.tls THEN None
             ELSE IF p.mode = "letsencrypt" THEN "resolver" ELSE "plain"]

TcpRouter(p) ==
    [rule |-> IF p.domain = None THEN "*" ELSE p.domain,
     port |-> p.port,
     tls |-> IF ~p.tls THEN None
             ELSE IF p.mode = "passthrough" THEN "passthrough" ELSE "plain"]

UdpRouter(p) == [port |-> p.port]

\* cp-maintenance-service, whose server is the discard port 127.0.0.1:9.
MaintenanceService == <<"cp-maintenance-service", 0>>
Discard            == 0

Section   == [routers |-> Nothing, services |-> Nothing]
EmptyDoc  == [http |-> [Section EXCEPT !.services =
                            Put(Nothing, MaintenanceService, Discard)],
              tcp |-> Section, udp |-> Section]

Routed(d, kind, p, router) ==
    [d EXCEPT ![kind] = [routers  |-> Put(@.routers, Name(p), router),
                         services |-> Put(@.services, Name(p), p.backend)]]

-----------------------------------------------------------------------------
Init == /\ \E S \in Registries : rows \in SetToSeqs(S)
        /\ phase = "filter"
        /\ order = << >>
        /\ doc = EmptyDoc
        /\ next = 1
        /\ seen = Nothing
        /\ conflicts = << >>
        /\ last = None

\* Drop what is not routed and sort by (priority, id).
Filter == /\ phase = "filter"
          /\ order' = Arrange(rows)
          /\ phase' = "routes"
          /\ UNCHANGED <<rows, doc, next, seen, conflicts, last>>

\* One iteration of the routing loop.
Route(kind, d) ==
    /\ phase = "routes"
    /\ order # << >>
    /\ Head(order).entry = kind
    /\ doc' = d
    /\ order' = Tail(order)
    /\ UNCHANGED <<rows, phase, next, seen, conflicts, last>>

\* A web publication without a domain has no route.
RouteWeb ==
    LET p == Head(order)
    IN  Route("http", IF p.domain = None THEN doc
                      ELSE Routed(doc, "http", p, WebRouter(p)))

RouteTcp ==
    LET p == Head(order) IN Route("tcp", Routed(doc, "tcp", p, TcpRouter(p)))

RouteUdp ==
    LET p == Head(order) IN Route("udp", Routed(doc, "udp", p, UdpRouter(p)))

\* The document is complete; the conflicts are looked for in all rows.
Emit == /\ phase = "routes"
        /\ order = << >>
        /\ phase' = "conflicts"
        /\ UNCHANGED <<rows, order, doc, next, seen, conflicts, last>>

ConflictKey(p) == <<p.domain, p.path>>

\* Mutant: only the rows that are routed are compared.
ComparedRouted(p) == p.entry = "http" /\ p.domain # None /\ Kept(p)

Compared(p) == p.entry = "http" /\ p.domain # None

\* Mutant: every publication is remembered, the first claim is forgotten.
ClashLast(p) == /\ ConflictKey(p) \in DOMAIN seen
                /\ seen[ConflictKey(p)] < p.id

\* A key that another publication has claimed.
Clash(p) == /\ ConflictKey(p) \in DOMAIN seen
            /\ seen[ConflictKey(p)] # p.id

\* One iteration of the conflict loop.
Compare == /\ phase = "conflicts"
           /\ next \in DOMAIN rows
           /\ next' = next + 1
           /\ LET p == rows[next]
                  k == ConflictKey(p)
              IN  \/ /\ ~Compared(p)
                     /\ UNCHANGED <<seen, conflicts>>
                  \/ /\ Compared(p) /\ Clash(p)
                     /\ conflicts' = Append(conflicts, <<k, seen[k], p.id>>)
                     /\ UNCHANGED seen
                  \/ /\ Compared(p) /\ ~Clash(p)
                     /\ seen' = Put(seen, k, p.id)
                     /\ UNCHANGED conflicts
           /\ UNCHANGED <<rows, phase, order, doc, last>>

Return == /\ phase = "conflicts"
          /\ next \notin DOMAIN rows
          /\ phase' = "done"
          /\ UNCHANGED <<rows, order, doc, next, seen, conflicts, last>>

\* render_current is called again on the same rows, in any order.
Again == /\ phase = "done"
         /\ last' = doc
         /\ rows' \in SetToSeqs(Range(rows))
         /\ phase' = "filter"
         /\ doc' = EmptyDoc
         /\ next' = 1
         /\ seen' = Nothing
         /\ conflicts' = << >>
         /\ UNCHANGED order

Next == Filter \/ RouteWeb \/ RouteTcp \/ RouteUdp \/ Emit \/ Compare
        \/ Return \/ Again

Spec == Init /\ [][Next]_vars

-----------------------------------------------------------------------------
(* Properties.                                                             *)

Kinds    == {"http", "tcp", "udp"}
Complete == phase \in {"conflicts", "done"}

\* The publications that reach the section `kind', and of several with one
\* name the one that is routed last.
Reaching(kind) == {p \in Range(rows) : /\ Kept(p) /\ p.entry = kind
                                       /\ kind = "http" => p.domain # None}
Winner(kind, n) == CHOOSE p \in Reaching(kind) :
                      /\ Name(p) = n
                      /\ \A q \in Reaching(kind) \ {p} :
                            Name(q) = n => Before(q, p)

\* The loops build what the table says: in every section exactly the enabled
\* publications of that kind, under their names, pointing at their backends,
\* in maintenance behind cp-maintenance and behind the resolver only if they
\* ask for it.  That includes the publications of a service whose exposure is
\* private or disabled: docs/architecture.md:69-70 says that private services
\* `are not given a public route', and the code does not look.
DocumentIsExact ==
    Complete =>
      /\ \A kind \in Kinds :
            /\ DOMAIN doc[kind].routers = {Name(p) : p \in Reaching(kind)}
            /\ \A n \in DOMAIN doc[kind].routers :
                  doc[kind].services[n] = Winner(kind, n).backend
      /\ \A n \in DOMAIN doc.http.routers :
            LET p == Winner("http", n)
                r == doc.http.routers[n]
            IN  /\ r.rule[1] = p.domain
                /\ "cp-maintenance" \in r.middlewares <=> p.maint
                /\ p.mw # None => p.mw \in r.middlewares
                /\ r.tls = "resolver" <=> p.tls /\ p.mode = "letsencrypt"
                /\ r.entry = "websecure" <=> p.tls

\* Whatever order the query returns the rows in, even when names collide,
\* the same registry renders to the same document: without it the checksum
\* would change without a change, and a revision would be stored each hour.
Deterministic == Complete /\ last # None => doc = last

\* The number of messages does not depend on the order either: each web
\* publication beyond the first to claim a domain and path is reported once,
\* disabled ones included.
ConflictsCounted ==
    phase = "done" =>
      LET web == {p \in Range(rows) : p.entry = "http" /\ p.domain # None}
      IN  Len(conflicts) =
            Cardinality(web) - Cardinality({ConflictKey(p) : p \in web})

\* No message means that no two routers of the document match the same
\* requests, among rows whose prefix is NULL or a path: the empty prefix has
\* the rule of NULL but not its key.
NoConflictNoOverlap ==
    phase = "done" /\ conflicts = << >> =>
      \A m, n \in DOMAIN doc.http.routers :
          doc.http.routers[m].rule = doc.http.routers[n].rule => m = n
===============================================================================
