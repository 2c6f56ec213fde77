--------------------------- MODULE MCTraefikRender ---------------------------
(* Model-checking instances of TraefikRender: registries of up to three    *)
(* publications, each varying the columns one branch of the renderer reads *)
EXTENDS TraefikRender

Base == [id |-> 11, slug |-> "s1", enabled |-> TRUE, exposure |-> "private",
         entry |-> "http", domain |-> "d1", path |-> None, tls |-> TRUE,
         mode |-> "letsencrypt", port |-> None, public |-> TRUE,
         maint |-> FALSE, prio |-> 0, mw |-> None, backend |-> 11]

\* 11 and 12 share the first eight characters of their ids, 21 does not.
Ids == {11, 12, 21}

Names(paths) ==
    {[Base EXCEPT !.id = i, !.domain = d, !.path = x, !.public = b,
                  !.backend = i] :
        i \in Ids, d \in {None, "d1", "d2"}, x \in paths, b \in BOOLEAN}

Ports ==
    {[Base EXCEPT !.id = i, !.entry = e, !.domain = d, !.port = n,
                  !.mode = m, !.tls = t, !.backend = i] :
        i \in {12, 21}, e \in {"tcp", "udp"}, d \in {None, "d1"},
        n \in {None, 9000}, m \in {"off", "passthrough"}, t \in BOOLEAN}

Looks ==
    {[Base EXCEPT !.id = i, !.slug = s, !.maint = m, !.mw = w, !.tls = t,
                  !.mode = o, !.prio = n, !.enabled = b, !.exposure = x] :
        i \in {11, 12}, s \in {"s1", "s2"}, m \in BOOLEAN,
        w \in {None, "auth"}, t \in BOOLEAN, o \in {"letsencrypt", "custom"},
        n \in {0, 1}, b \in BOOLEAN, x \in {"public", "private"}}

DistinctIds(S) == \A p, q \in S : p.id = q.id => p = q

PairsOf(A, B) == {S \in {{p, q} : p \in A, q \in B} : DistinctIds(S)}

Plain == Names({None, "/x"})

AllRegistries ==
    {{}} \cup PairsOf(Looks, {Base, [Base EXCEPT !.id = 21, !.prio = 1]})
    \cup PairsOf(Ports, Ports \cup {Base})
    \cup {S \in {{p, q, r} : p \in {x \in Plain : x.id = 11},
                             q \in {x \in Plain : x.id = 12},
                             r \in {x \in Plain : x.id = 21}} : TRUE}
==============================================================================
