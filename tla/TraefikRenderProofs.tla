------------------------- MODULE TraefikRenderProofs -------------------------
(***************************************************************************)
(* Theorems about TraefikRender: the document is a function of the set of  *)
(* publications, whatever their number and the order the query returns     *)
(* them in, and the conflicts are counted and none is overlooked.          *)
(***************************************************************************)
EXTENDS TraefikRender, TLAPS, FiniteSetTheorems

(* The document as a function of the publications D routed so far.         *)

\* The publications of D that reach the section `kind'.
Sel(kind, D) == {p \in D : p.entry = kind /\ (kind = "http" => p.domain # None)}

Names(P) == {Name(p) : p \in P}

\* p is the last of P, in the order of the loop, that is named n.
LastNamed(P, p, n) == /\ Name(p) = n
                      /\ \A q \in P \ {p} : Name(q) = n => Before(q, p)
LastOf(P, n) == CHOOSE p \in P : LastNamed(P, p, n)
HasLast(P)   == \A n \in Names(P) : \E p \in P : LastNamed(P, p, n)

RouterOf(kind, p) == IF kind = "http" THEN WebRouter(p)
                     ELSE IF kind = "tcp" THEN TcpRouter(p) ELSE UdpRouter(p)

\* What a section holds before any publication is routed.
Fixed(kind) == IF kind = "http" THEN {MaintenanceService} ELSE {}

SectionOf(kind, P) ==
    [routers  |-> [n \in Names(P) |-> RouterOf(kind, LastOf(P, n))],
     services |-> [n \in Names(P) \cup Fixed(kind) |->
                      IF n \in Names(P) THEN LastOf(P, n).backend ELSE Discard]]

DocOf(D) == [http |-> SectionOf("http", Sel("http", D)),
             tcp  |-> SectionOf("tcp", Sel("tcp", D)),
             udp  |-> SectionOf("udp", Sel("udp", D))]

-----------------------------------------------------------------------------
(* The inductive invariant.                                                *)

All    == Range(rows)
Wanted == {p \in All : Kept(p)}
Left   == Range(order)
Routes == Wanted \ Left

\* A finite table with a primary key.
Table(R) == /\ IsFiniteSet(R)
            /\ \A p \in R : p.id \in Nat /\ p.prio \in Int
            /\ \A p, q \in R : p.id = q.id => p = q

\* The query returns each publication once.
RowsOnce == /\ All \in Registries
            /\ rows \in [1 .. Cardinality(All) -> All]
            /\ IsInjective(rows)

\* In the routing loop the rest is sorted, and nothing of it comes before
\* what has been routed.
InOrder ==
    phase = "routes" =>
       /\ order \in Seq(Wanted)
       /\ \A i, j \in DOMAIN order : i < j => Before(order[i], order[j])
       /\ \A p \in Routes, i \in DOMAIN order : Before(p, order[i])

\* The document is that of the publications routed so far.
DocSoFar ==
    /\ phase = "filter" => doc = DocOf({})
    /\ phase = "routes" => /\ doc = DocOf(Routes)
                           /\ \A kind \in Kinds : HasLast(Sel(kind, Routes))
    /\ Complete => /\ doc = DocOf(Wanted)
                   /\ \A kind \in Kinds : HasLast(Sel(kind, Wanted))
    /\ last \in {None, DocOf(Wanted)}

\* The publications compared before row n.
Web(n) == {p \in {rows[i] : i \in 1 .. n - 1} : Compared(p)}

Messages == {ConflictKey(p) : p \in All} \X Nat \X Nat

\* The dictionary holds each key that was met, and who claimed it; there is
\* one message for each publication that met its key there.
Counted ==
    /\ next \in 1 .. Cardinality(All) + 1
    /\ phase = "done" => next = Cardinality(All) + 1
    /\ DOMAIN seen = {ConflictKey(p) : p \in Web(next)}
    /\ IsFiniteSet(DOMAIN seen)
    /\ \A k \in DOMAIN seen :
          \E p \in Web(next) : ConflictKey(p) = k /\ seen[k] = p.id
    /\ conflicts \in Seq(Messages)
    /\ Len(conflicts) = Cardinality(Web(next)) - Cardinality(DOMAIN seen)
    /\ conflicts = << >> =>
          \A p, q \in Web(next) : ConflictKey(p) = ConflictKey(q) => p = q

PhaseOK == /\ phase \in {"filter", "routes", "conflicts", "done"}
           /\ phase \in {"filter", "routes"} =>
                 next = 1 /\ seen = Nothing /\ conflicts = << >>

IInv == RowsOnce /\ PhaseOK /\ InOrder /\ DocSoFar /\ Counted

-----------------------------------------------------------------------------
(* Enumerations and sorting.                                               *)

\* A sequence that enumerates a finite set without repetition has them all.
LEMMA EnumOnto ==
  ASSUME NEW S, IsFiniteSet(S), NEW f \in SetToSeqs(S)
  PROVE  /\ f \in [1 .. Cardinality(S) -> S]
         /\ IsInjective(f)
         /\ Range(f) = S
<1> DEFINE D == 1 .. Cardinality(S)
<1>1. Cardinality(S) \in Nat
  BY FS_CardinalityType
<1>2. f \in [D -> S] /\ \A i, j \in D : i # j => f[i] # f[j]
  BY DEF SetToSeqs
<1>3. f \in Injection(D, S)
  BY <1>2 DEF Injection, IsInjective
<1>4. Cardinality(D) = Cardinality(S)
  BY <1>1, FS_Interval
<1>5. f \in Surjection(D, S)
  BY <1>3, <1>4, FS_Injection
<1>6. Range(f) = S
  BY <1>2, <1>5 DEF Surjection, Range
<1> QED BY <1>2, <1>3, <1>6 DEF Injection

\* The order of the loop is a strict total order.
LEMMA BeforeOrders ==
  ASSUME NEW R, Table(R)
  PROVE  /\ \A p, q \in R : Before(p, q) => ~Before(q, p) /\ p # q
         /\ \A p, q \in R : p # q => Before(p, q) \/ Before(q, p)
         /\ \A p, q, r \in R : Before(p, q) /\ Before(q, r) => Before(p, r)
BY DEF Table, Before

\* A finite table can be sorted: give each publication the place after those
\* that come before it.
LEMMA SortedExists ==
  ASSUME NEW R, Table(R)
  PROVE  \E a \in SetToSeqs(R) :
            \A i, j \in DOMAIN a : i < j => Before(a[i], a[j])
<1> DEFINE n == Cardinality(R)
           below(x) == {y \in R : Before(y, x)}
           rank == [x \in R |-> Cardinality(below(x)) + 1]
<1>1. IsFiniteSet(R) /\ n \in Nat
  BY FS_CardinalityType DEF Table
<1>2. ASSUME NEW x \in R
      PROVE  IsFiniteSet(below(x)) /\ Cardinality(below(x)) \in Nat
  BY <1>1, FS_Subset, FS_CardinalityType
<1>3. ASSUME NEW x \in R, NEW y \in R, Before(x, y)
      PROVE  rank[x] < rank[y]
  <2>1. x \notin below(x) /\ below(x) \cup {x} \subseteq below(y)
    BY <1>3, BeforeOrders
  <2>2. Cardinality(below(x) \cup {x}) = Cardinality(below(x)) + 1
    BY <1>2, <2>1, FS_AddElement
  <2>3. Cardinality(below(x) \cup {x}) <= Cardinality(below(y))
    BY <1>2, <2>1, FS_Subset
  <2> HIDE DEF below
  <2> QED BY <1>2, <2>2, <2>3
<1>4. ASSUME NEW x \in R PROVE rank[x] \in 1 .. n
  <2>1. x \notin below(x) /\ below(x) \cup {x} \subseteq R
    BY BeforeOrders
  <2>2. Cardinality(below(x) \cup {x}) = Cardinality(below(x)) + 1
    BY <1>2, <2>1, FS_AddElement
  <2>3. Cardinality(below(x) \cup {x}) <= n
    BY <1>1, <2>1, FS_Subset
  <2> HIDE DEF below
  <2> QED BY <1>1, <1>2, <2>2, <2>3
<1>5. rank \in [R -> 1 .. n]
  BY <1>4
<1> HIDE DEF rank
<1>6. \A x, y \in R : rank[x] = rank[y] => x = y
  <2> SUFFICES ASSUME NEW x \in R, NEW y \in R, rank[x] = rank[y], x # y
               PROVE  FALSE
    OBVIOUS
  <2>1. Before(x, y) \/ Before(y, x)
    BY BeforeOrders
  <2>2. rank[x] \in Nat /\ rank[y] \in Nat
    BY <1>4
  <2> QED BY <1>3, <2>1, <2>2
<1>7. rank \in Surjection(R, 1 .. n)
  <2>1. rank \in Injection(R, 1 .. n)
    BY <1>5, <1>6 DEF Injection, IsInjective
  <2>2. IsFiniteSet(1 .. n) /\ Cardinality(1 .. n) = n
    BY <1>1, FS_Interval
  <2> QED BY <2>1, <2>2, FS_Injection
<1>8. \A i \in 1 .. n : \E x \in R : rank[x] = i
  BY <1>7 DEF Surjection
<1> DEFINE a == [i \in 1 .. n |-> CHOOSE x \in R : rank[x] = i]
<1>9. \A i \in 1 .. n : a[i] \in R /\ rank[a[i]] = i
  BY <1>8
<1>10. a \in [1 .. n -> R] /\ DOMAIN a = 1 .. n
  BY <1>9
<1> HIDE DEF a
<1>11. a \in SetToSeqs(R)
  BY <1>9, <1>10 DEF SetToSeqs
<1>12. ASSUME NEW i \in 1 .. n, NEW j \in 1 .. n, i < j
       PROVE  Before(a[i], a[j])
  <2>1. /\ a[i] \in R /\ a[j] \in R /\ rank[a[i]] = i /\ rank[a[j]] = j
        /\ i \in Nat /\ j \in Nat
    BY <1>1, <1>9
  <2>2. a[i] # a[j]
    BY <1>12, <2>1
  <2>3. ~Before(a[j], a[i])
    BY <1>3, <1>12, <2>1
  <2> QED BY <2>1, <2>2, <2>3, BeforeOrders
<1> QED BY <1>10, <1>11, <1>12

\* What sorted() returns.
LEMMA Arranged ==
  ASSUME NEW s, Table(Range(s)), NEW R, R = {p \in Range(s) : Kept(p)}
  PROVE  /\ Arrange(s) \in Seq(R)
         /\ Range(Arrange(s)) = R
         /\ \A i, j \in DOMAIN Arrange(s) :
               i < j => Before(Arrange(s)[i], Arrange(s)[j])
<1> DEFINE a == Arrange(s)
<1>1. Table(R)
  BY FS_Subset DEF Table
<1>2. /\ a \in SetToSeqs(R)
      /\ \A i, j \in DOMAIN a : i < j => Before(a[i], a[j])
  BY <1>1, SortedExists DEF Arrange
<1>3. /\ a \in [1 .. Cardinality(R) -> R] /\ Range(a) = R
      /\ Cardinality(R) \in Nat
  BY <1>1, <1>2, EnumOnto, FS_CardinalityType DEF Table
<1> HIDE DEF a
<1>4. a \in Seq(R)
  <2>1. a = [i \in 1 .. Cardinality(R) |-> a[i]]
    BY <1>3
  <2>2. \A i \in 1 .. Cardinality(R) : a[i] \in R
    BY <1>3
  <2> QED BY <1>3, <2>1, <2>2
<1> QED BY <1>2, <1>3, <1>4 DEF a

-----------------------------------------------------------------------------
(* The document grows by one publication at a time.                        *)

\* The last publication of a name is the one CHOOSE finds.
LEMMA LastIs ==
  ASSUME NEW R, Table(R), NEW P \in SUBSET R, NEW n, NEW p \in P, LastNamed(P, p, n)
  PROVE  LastOf(P, n) = p
<1>1. \A q \in P : LastNamed(P, q, n) => q = p
  BY BeforeOrders DEF LastNamed
<1>2. LastOf(P, n) \in P /\ LastNamed(P, LastOf(P, n), n)
  BY DEF LastOf
<1> QED BY <1>1, <1>2

\* p comes after P in the table R.
Follows(R, P, p) == /\ Table(R) /\ P \subseteq R /\ p \in R \ P
                    /\ \A q \in P : Before(q, p)
                    /\ HasLast(P)

\* A publication that comes after all others is the last of its name, and
\* the other names keep theirs.
LEMMA LastGrows ==
  ASSUME NEW R, NEW P, NEW p, Follows(R, P, p)
  PROVE  /\ HasLast(P \cup {p})
         /\ LastOf(P \cup {p}, Name(p)) = p
         /\ \A n \in Names(P) \ {Name(p)} : LastOf(P \cup {p}, n) = LastOf(P, n)
         /\ Names(P \cup {p}) = Names(P) \cup {Name(p)}
<1> DEFINE Q == P \cup {p}
<1>1. Table(R) /\ Q \in SUBSET R /\ P \in SUBSET R /\ p \in Q
  BY DEF Follows
<1>2. LastNamed(Q, p, Name(p))
  BY DEF LastNamed, Follows
<1>3. \A n \in Names(P) \ {Name(p)}, q \in P :
         LastNamed(P, q, n) => LastNamed(Q, q, n)
  BY DEF LastNamed
<1>4. Names(Q) = Names(P) \cup {Name(p)}
  BY DEF Names
<1>5. HasLast(Q)
  BY <1>1, <1>2, <1>3, <1>4 DEF HasLast, Follows
<1>6. LastOf(Q, Name(p)) = p
  BY <1>1, <1>2, LastIs
<1>7. ASSUME NEW n \in Names(P) \ {Name(p)} PROVE LastOf(Q, n) = LastOf(P, n)
  <2>1. PICK q \in P : LastNamed(P, q, n)
    BY DEF HasLast, Follows
  <2>2. LastOf(P, n) = q
    BY <1>1, <2>1, LastIs
  <2>3. q \in Q /\ LastNamed(Q, q, n)
    BY <1>3, <2>1
  <2>4. LastOf(Q, n) = q
    BY <1>1, <2>3, LastIs
  <2> QED BY <2>2, <2>4
<1> QED BY <1>4, <1>5, <1>6, <1>7

\* A section after one more publication: two assignments to dictionaries.
LEMMA SectionGrows ==
  ASSUME NEW R, NEW P, NEW p, NEW kind \in Kinds, Follows(R, P, p)
  PROVE  SectionOf(kind, P \cup {p}) =
            [routers  |-> Put(SectionOf(kind, P).routers, Name(p), RouterOf(kind, p)),
             services |-> Put(SectionOf(kind, P).services, Name(p), p.backend)]
<1> DEFINE Q == P \cup {p}
           r == [n \in Names(P) |-> RouterOf(kind, LastOf(P, n))]
           s == [n \in Names(P) \cup Fixed(kind) |->
                    IF n \in Names(P) THEN LastOf(P, n).backend ELSE Discard]
<1>1. /\ LastOf(Q, Name(p)) = p
      /\ \A n \in Names(P) \ {Name(p)} : LastOf(Q, n) = LastOf(P, n)
      /\ Names(Q) = Names(P) \cup {Name(p)}
  BY LastGrows
<1> HIDE DEF Q
<1>2. [n \in Names(Q) |-> RouterOf(kind, LastOf(Q, n))] = Put(r, Name(p), RouterOf(kind, p))
  BY <1>1 DEF Put
<1>3. [n \in Names(Q) \cup Fixed(kind) |->
          IF n \in Names(Q) THEN LastOf(Q, n).backend ELSE Discard]
      = Put(s, Name(p), p.backend)
  <2> DEFINE D == Names(P) \cup Fixed(kind)
  <2>1. DOMAIN s = D /\ Names(Q) \cup Fixed(kind) = D \cup {Name(p)}
    BY <1>1
  <2>2. \A n \in D : s[n] = IF n \in Names(P) THEN LastOf(P, n).backend ELSE Discard
    OBVIOUS
  <2> HIDE DEF s, D
  <2>3. \A n \in D \cup {Name(p)} :
           (IF n \in Names(Q) THEN LastOf(Q, n).backend ELSE Discard)
           = IF n = Name(p) THEN p.backend ELSE s[n]
    BY <1>1, <2>2
  <2> QED BY <2>1, <2>3 DEF Put
<1>4. SectionOf(kind, P).routers = r /\ SectionOf(kind, P).services = s
  BY DEF SectionOf
<1>5. SectionOf(kind, Q) = [routers |-> Put(r, Name(p), RouterOf(kind, p)),
                            services |-> Put(s, Name(p), p.backend)]
  BY <1>2, <1>3 DEF SectionOf
<1> QED BY <1>4, <1>5 DEF Q

\* p comes after D in the table R, in whatever section.
FollowsAll(R, D, p) == /\ Table(R) /\ D \subseteq R /\ p \in R \ D
                       /\ \A q \in D : Before(q, p)
                       /\ \A kind \in Kinds : HasLast(Sel(kind, D))

\* One more publication changes one section, if it reaches it.
LEMMA DocGrows ==
  ASSUME NEW R, NEW D, NEW p, NEW kind \in Kinds, FollowsAll(R, D, p),
         p.entry = kind
  PROVE  /\ \A k \in Kinds : HasLast(Sel(k, D \cup {p}))
         /\ kind = "http" /\ p.domain = None => DocOf(D \cup {p}) = DocOf(D)
         /\ ~(kind = "http" /\ p.domain = None) =>
               DocOf(D \cup {p}) = Routed(DocOf(D), kind, p, RouterOf(kind, p))
<1> DEFINE E == D \cup {p}
<1>1. \A k \in Kinds \ {kind} : Sel(k, E) = Sel(k, D)
  BY DEF Sel
<1>2. CASE kind = "http" /\ p.domain = None
  <2>1. Sel(kind, E) = Sel(kind, D)
    BY <1>2 DEF Sel
  <2>2. \A k \in Kinds : Sel(k, E) = Sel(k, D)
    BY <1>1, <2>1
  <2>3. Sel("http", E) = Sel("http", D) /\ Sel("tcp", E) = Sel("tcp", D)
        /\ Sel("udp", E) = Sel("udp", D)
    BY <2>2 DEF Kinds
  <2>4. DocOf(E) = DocOf(D)
    BY <2>3 DEF DocOf
  <2> QED BY <1>2, <2>2, <2>4 DEF FollowsAll
<1>3. CASE ~(kind = "http" /\ p.domain = None)
  <2> DEFINE P == Sel(kind, D)
             old == SectionOf(kind, P)
             new == [routers  |-> Put(old.routers, Name(p), RouterOf(kind, p)),
                     services |-> Put(old.services, Name(p), p.backend)]
  <2>1. Sel(kind, E) = P \cup {p}
    BY <1>3 DEF Sel
  <2>2. Follows(R, P, p)
    BY DEF FollowsAll, Follows, Sel
  <2>3. HasLast(P \cup {p}) /\ SectionOf(kind, P \cup {p}) = new
    <3>1. HasLast(P \cup {p})
      BY <2>2, LastGrows
    <3> QED BY <2>2, <3>1, SectionGrows
  <2>4. \A k \in Kinds : HasLast(Sel(k, E))
    BY <1>1, <2>1, <2>3 DEF FollowsAll
  <2>5. \A k \in Kinds : SectionOf(k, Sel(k, E)) =
                            IF k = kind THEN new ELSE SectionOf(k, Sel(k, D))
    BY <1>1, <2>1, <2>3
  <2>6. /\ old = [routers |-> old.routers, services |-> old.services]
        /\ new.routers = Put(old.routers, Name(p), RouterOf(kind, p))
        /\ new.services = Put(old.services, Name(p), p.backend)
        /\ new = [routers |-> new.routers, services |-> new.services]
    BY DEF SectionOf
  <2> HIDE DEF E, P, new, old
  <2> DEFINE http == SectionOf("http", Sel("http", D))
             tcp  == SectionOf("tcp", Sel("tcp", D))
             udp  == SectionOf("udp", Sel("udp", D))
             d    == [http |-> http, tcp |-> tcp, udp |-> udp]
  <2>7. DocOf(D) = d
    BY DEF DocOf
  <2>8. DocOf(E) = [http |-> IF kind = "http" THEN new ELSE http,
                    tcp  |-> IF kind = "tcp" THEN new ELSE tcp,
                    udp  |-> IF kind = "udp" THEN new ELSE udp]
    BY <2>5 DEF DocOf, Kinds
  <2>9. d[kind] = old
    BY DEF Kinds, old, P
  <2>10. Routed(d, kind, p, RouterOf(kind, p)) = [d EXCEPT ![kind] = new]
    <3> HIDE DEF d
    <3> QED BY <2>6, <2>9 DEF Routed
  <2>11. [d EXCEPT ![kind] = new] = DocOf(E)
    BY <2>8 DEF Kinds
  <2> QED BY <1>3, <2>4, <2>7, <2>10, <2>11 DEF E
<1> QED BY <1>2, <1>3

\* Before the loop, the document is that of no publication.
LEMMA DocEmpty == EmptyDoc = DocOf({}) /\ \A kind \in Kinds : HasLast(Sel(kind, {}))
<1>1. \A kind : Sel(kind, {}) = {} /\ Names({}) = {}
  BY DEF Sel, Names
<1>2. HasLast({})
  BY <1>1 DEF HasLast
<1>3. \A kind : SectionOf(kind, {}) =
          [routers |-> Nothing,
           services |-> [n \in Fixed(kind) |-> Discard]]
  BY <1>1 DEF SectionOf, Nothing
<1>4. /\ [n \in Fixed("tcp") |-> Discard] = Nothing
      /\ [n \in Fixed("udp") |-> Discard] = Nothing
      /\ [n \in Fixed("http") |-> Discard] = Put(Nothing, MaintenanceService, Discard)
  BY DEF Fixed, Nothing, Put
<1>5. SectionOf("tcp", {}) = Section /\ SectionOf("udp", {}) = Section
      /\ SectionOf("http", {}) = [Section EXCEPT !.services =
                                     Put(Nothing, MaintenanceService, Discard)]
  BY <1>3, <1>4 DEF Section
<1> QED BY <1>1, <1>2, <1>5 DEF DocOf, EmptyDoc

\* The head of a sorted sequence is one element, the tail all others.
LEMMA HeadAndTail ==
  ASSUME NEW R, Table(R), NEW S \in SUBSET R, NEW s \in Seq(S), s # << >>,
         \A i, j \in DOMAIN s : i < j => Before(s[i], s[j])
  PROVE  /\ Head(s) \in Range(s) /\ Range(s) \subseteq S
         /\ Tail(s) \in Seq(S)
         /\ Range(Tail(s)) = Range(s) \ {Head(s)}
         /\ \A i, j \in DOMAIN Tail(s) : i < j => Before(Tail(s)[i], Tail(s)[j])
         /\ \A i \in DOMAIN Tail(s) : Before(Head(s), Tail(s)[i])
<1>1. /\ Len(s) \in Nat \ {0} /\ DOMAIN s = 1 .. Len(s)
      /\ \A i \in 1 .. Len(s) : s[i] \in S
      /\ Head(s) = s[1]
  OBVIOUS
<1>2. /\ Tail(s) \in Seq(S) /\ DOMAIN Tail(s) = 1 .. Len(s) - 1
      /\ \A i \in 1 .. Len(s) - 1 : Tail(s)[i] = s[i + 1]
  BY <1>1
<1>3. \A i \in 2 .. Len(s) : s[i] # s[1]
  <2>1. \A i \in 2 .. Len(s) : Before(s[1], s[i])
    BY <1>1
  <2> QED BY <1>1, <2>1, BeforeOrders
<1>4. Range(Tail(s)) = {s[i] : i \in 2 .. Len(s)}
  <2>1. \A i \in 2 .. Len(s) : i - 1 \in 1 .. Len(s) - 1 /\ (i - 1) + 1 = i
    BY <1>1
  <2>2. \A i \in 2 .. Len(s) : Tail(s)[i - 1] = s[i]
    BY <1>2, <2>1
  <2>3. \A i \in 1 .. Len(s) - 1 : i + 1 \in 2 .. Len(s)
    BY <1>1
  <2> QED BY <1>2, <2>1, <2>2, <2>3 DEF Range
<1>5. Range(Tail(s)) = Range(s) \ {Head(s)}
  <2>1. \A i \in 1 .. Len(s) : i = 1 \/ i \in 2 .. Len(s)
    BY <1>1
  <2>2. \A i \in 2 .. Len(s) : i \in 1 .. Len(s)
    BY <1>1
  <2>3. Range(s) = {s[i] : i \in 1 .. Len(s)}
    BY <1>1 DEF Range
  <2> QED BY <1>1, <1>3, <1>4, <2>1, <2>2, <2>3
<1>6. \A i, j \in DOMAIN Tail(s) : i < j => Before(Tail(s)[i], Tail(s)[j])
  BY <1>1, <1>2
<1>7. \A i \in DOMAIN Tail(s) : Before(Head(s), Tail(s)[i])
  BY <1>1, <1>2
<1>8. Head(s) \in Range(s) /\ Range(s) \subseteq S
  BY <1>1 DEF Range
<1> QED BY <1>2, <1>5, <1>6, <1>7, <1>8

-----------------------------------------------------------------------------
(* IInv is inductive.                                                      *)

\* The publications are a table, and so are those that are routed.
LEMMA AllTable == RowsOnce => /\ Table(All) /\ Table(Wanted) /\ Wanted \subseteq All
                              /\ Cardinality(All) \in Nat
                              /\ DOMAIN rows = 1 .. Cardinality(All)
<1> SUFFICES ASSUME RowsOnce PROVE Table(All) /\ Table(Wanted) /\ Wanted \subseteq All
                              /\ Cardinality(All) \in Nat
                              /\ DOMAIN rows = 1 .. Cardinality(All)
  OBVIOUS
<1>1. Table(All)
  BY RegistriesAssumption DEF RowsOnce, Table
<1>2. Wanted \subseteq All
  BY DEF Wanted
<1>3. IsFiniteSet(All) /\ IsFiniteSet(Wanted)
  BY <1>1, <1>2, FS_Subset DEF Table
<1>4. Table(Wanted)
  BY <1>1, <1>2, <1>3 DEF Table
<1> QED BY <1>1, <1>2, <1>3, <1>4, FS_CardinalityType DEF RowsOnce

\* A query returns each publication of a registry once, in some order.
LEMMA Queried ==
  ASSUME NEW S \in Registries, NEW s \in SetToSeqs(S)
  PROVE  Range(s) = S /\ s \in [1 .. Cardinality(S) -> S] /\ IsInjective(s)
<1>1. IsFiniteSet(S)
  BY RegistriesAssumption
<1> QED BY <1>1, EnumOnto

\* Before the first row.
Fresh == /\ RowsOnce
         /\ phase # "done" /\ next = 1 /\ seen = Nothing /\ conflicts = << >>

\* Before the first row nothing has been compared and nothing counted.
LEMMA NothingCounted == Fresh => Counted
<1> SUFFICES ASSUME Fresh PROVE Counted
  OBVIOUS
<1>0. /\ Cardinality(All) \in Nat /\ phase # "done"
      /\ next = 1 /\ seen = Nothing /\ conflicts = << >>
  BY AllTable DEF Fresh
<1>1. Web(next) = {}
  BY <1>0 DEF Web
<1>2. DOMAIN seen = {}
  BY <1>0 DEF Nothing
<1>3. Cardinality({}) = 0 /\ IsFiniteSet({})
  BY FS_EmptySet
<1>4. Len(conflicts) = Cardinality(Web(next)) - Cardinality(DOMAIN seen)
  <2>1. Cardinality(Web(next)) = 0 /\ Cardinality(DOMAIN seen) = 0
    BY <1>1, <1>2, <1>3
  <2>2. Len(conflicts) = 0
    BY <1>0
  <2> QED BY <2>1, <2>2
<1>5. conflicts \in Seq(Messages)
  BY <1>0
<1> QED BY <1>0, <1>1, <1>2, <1>3, <1>4, <1>5 DEF Counted

\* The first rendering.
LEMMA InitInv == Init => IInv
<1> SUFFICES ASSUME Init PROVE IInv
  OBVIOUS
<1>1. PICK S \in Registries : rows \in SetToSeqs(S)
  BY DEF Init
<1>2. RowsOnce
  BY <1>1, Queried DEF RowsOnce, All
<1>3. PhaseOK /\ InOrder
  BY DEF Init, PhaseOK, InOrder
<1>4. DocSoFar
  BY DocEmpty DEF Init, DocSoFar, Complete
<1>5. Counted
  BY <1>2, NothingCounted DEF Init, Fresh
<1> QED BY <1>2, <1>3, <1>4, <1>5 DEF IInv

\* A step that leaves the rows and the conflicts alone.
LEMMA RowsKept ==
  ASSUME IInv, UNCHANGED <<rows, next, seen, conflicts>>,
         phase' = "done" => next = Cardinality(All) + 1
  PROVE  RowsOnce' /\ Counted' /\ All' = All /\ Wanted' = Wanted
<1>1. All' = All /\ Wanted' = Wanted /\ Messages' = Messages
  BY DEF All, Wanted, Messages
<1>2. RowsOnce'
  BY <1>1 DEF IInv, RowsOnce
<1>3. Web(next)' = Web(next)
  BY DEF Web
<1>4. Counted'
  BY <1>1, <1>3 DEF IInv, Counted
<1> QED BY <1>1, <1>2, <1>4

\* Filtering and sorting: nothing is routed yet.
LEMMA FilterInv == ASSUME IInv, Filter PROVE IInv'
<1>1. /\ phase = "filter" /\ phase' = "routes" /\ order' = Arrange(rows)
      /\ UNCHANGED <<rows, doc, next, seen, conflicts, last>>
  BY DEF Filter
<1>2. RowsOnce' /\ Counted' /\ Wanted' = Wanted
  BY <1>1, RowsKept
<1>3. Wanted = {p \in Range(rows) : Kept(p)} /\ Table(Range(rows))
  BY AllTable DEF Wanted, All, IInv
<1>4. /\ order' \in Seq(Wanted) /\ Range(order') = Wanted
      /\ \A i, j \in DOMAIN order' : i < j => Before(order'[i], order'[j])
  BY <1>1, <1>3, Arranged
<1>5. Routes' = {}
  BY <1>2, <1>4 DEF Routes, Left
<1>6. InOrder'
  BY <1>2, <1>4, <1>5 DEF InOrder
<1>7. DocSoFar'
  BY <1>1, <1>2, <1>5, DocEmpty DEF DocSoFar, Complete, IInv
<1>8. PhaseOK'
  BY <1>1 DEF PhaseOK, IInv
<1> QED BY <1>2, <1>6, <1>7, <1>8 DEF IInv

\* One iteration of the routing loop, whatever the section.
LEMMA RouteInv ==
  ASSUME IInv, NEW kind \in Kinds, NEW d, Route(kind, d),
         d = IF kind = "http" /\ Head(order).domain = None THEN doc
             ELSE Routed(doc, kind, Head(order), RouterOf(kind, Head(order)))
  PROVE  IInv'
<1> DEFINE p == Head(order)
<1>1. /\ phase = "routes" /\ order # << >> /\ p.entry = kind /\ doc' = d
      /\ order' = Tail(order) /\ UNCHANGED <<rows, phase, next, seen, conflicts, last>>
  BY DEF Route
<1>2. RowsOnce' /\ Counted' /\ Wanted' = Wanted
  BY <1>1, RowsKept
<1>3. Table(Wanted)
  BY AllTable DEF IInv
<1>4. /\ order \in Seq(Wanted)
      /\ \A i, j \in DOMAIN order : i < j => Before(order[i], order[j])
      /\ \A q \in Routes, i \in DOMAIN order : Before(q, order[i])
  BY <1>1 DEF IInv, InOrder
<1>5. /\ p \in Left /\ Left \subseteq Wanted
      /\ order' \in Seq(Wanted) /\ Range(order') = Left \ {p}
      /\ \A i, j \in DOMAIN order' : i < j => Before(order'[i], order'[j])
      /\ \A i \in DOMAIN order' : Before(p, order'[i])
  BY <1>1, <1>3, <1>4, HeadAndTail DEF Left
<1>6. Routes' = Routes \cup {p} /\ p \notin Routes
  BY <1>2, <1>5 DEF Routes, Left
<1>7. \A q \in Routes : Before(q, p)
  <2>1. PICK i \in DOMAIN order : order[i] = p
    BY <1>5 DEF Left, Range
  <2> QED BY <1>4, <2>1
<1>8. InOrder'
  <2>1. \A i \in DOMAIN order' : order'[i] \in Left
    BY <1>5 DEF Range
  <2>2. \A q \in Routes, x \in Left : Before(q, x)
    BY <1>4 DEF Left, Range
  <2>3. \A q \in Routes', i \in DOMAIN order' : Before(q, order'[i])
    BY <1>5, <1>6, <2>1, <2>2
  <2> QED BY <1>2, <1>5, <2>3 DEF InOrder
<1>9. doc = DocOf(Routes) /\ \A k \in Kinds : HasLast(Sel(k, Routes))
  BY <1>1 DEF IInv, DocSoFar
<1>10. FollowsAll(Wanted, Routes, p)
  BY <1>3, <1>5, <1>6, <1>7, <1>9 DEF FollowsAll, Routes
<1>11. /\ \A k \in Kinds : HasLast(Sel(k, Routes \cup {p}))
       /\ kind = "http" /\ p.domain = None
             => DocOf(Routes \cup {p}) = DocOf(Routes)
       /\ ~(kind = "http" /\ p.domain = None)
             => DocOf(Routes \cup {p}) = Routed(DocOf(Routes), kind, p, RouterOf(kind, p))
  BY <1>1, <1>10, DocGrows
<1> HIDE DEF p
<1>12. doc' = DocOf(Routes')
  BY <1>1, <1>6, <1>9, <1>11 DEF p
<1>13. DocSoFar'
  BY <1>1, <1>2, <1>6, <1>11, <1>12 DEF DocSoFar, Complete, IInv
<1>14. PhaseOK'
  BY <1>1 DEF PhaseOK, IInv
<1> QED BY <1>2, <1>8, <1>13, <1>14 DEF IInv

\* The loops over the three sections.
LEMMA RoutesInv == ASSUME IInv, RouteWeb \/ RouteTcp \/ RouteUdp PROVE IInv'
<1>1. CASE RouteWeb
  BY <1>1, RouteInv DEF RouteWeb, RouterOf, Kinds
<1>2. CASE RouteTcp
  BY <1>2, RouteInv DEF RouteTcp, RouterOf, Kinds
<1>3. CASE RouteUdp
  BY <1>3, RouteInv DEF RouteUdp, RouterOf, Kinds
<1> QED BY <1>1, <1>2, <1>3

\* All publications are routed: the document is complete.
LEMMA EmitInv == ASSUME IInv, Emit PROVE IInv'
<1>1. /\ phase = "routes" /\ order = << >> /\ phase' = "conflicts"
      /\ UNCHANGED <<rows, order, doc, next, seen, conflicts, last>>
  BY DEF Emit
<1>2. RowsOnce' /\ Counted' /\ Wanted' = Wanted
  BY <1>1, RowsKept
<1>3. Routes = Wanted
  BY <1>1 DEF Routes, Left, Range
<1>4. DocSoFar'
  BY <1>1, <1>2, <1>3 DEF DocSoFar, Complete, IInv
<1>5. InOrder' /\ PhaseOK'
  BY <1>1 DEF InOrder, PhaseOK, IInv
<1> QED BY <1>2, <1>4, <1>5 DEF IInv

\* What the loops leave alone while the conflicts are looked for.
LEMMA CompareKeeps ==
  ASSUME IInv, Compare
  PROVE  RowsOnce' /\ PhaseOK' /\ InOrder' /\ DocSoFar' /\ All' = All /\ Messages' = Messages
<1>1. phase = "conflicts" /\ UNCHANGED <<rows, phase, order, doc, last>>
  BY DEF Compare
<1>2. All' = All /\ Wanted' = Wanted /\ Messages' = Messages
  BY <1>1 DEF All, Wanted, Messages
<1>3. RowsOnce' /\ PhaseOK' /\ InOrder'
  BY <1>1, <1>2 DEF IInv, RowsOnce, PhaseOK, InOrder
<1>4. DocSoFar'
  BY <1>1, <1>2 DEF IInv, DocSoFar, Complete
<1> QED BY <1>2, <1>3, <1>4

\* The rows compared are finitely many publications; the next one is new.
LEMMA WebGrows ==
  ASSUME RowsOnce, next \in DOMAIN rows
  PROVE  /\ rows[next] \in All /\ rows[next] \notin Web(next)
         /\ Web(next) \subseteq All /\ IsFiniteSet(Web(next))
         /\ Web(next + 1) = Web(next) \cup {p \in {rows[next]} : Compared(p)}
<1>1. /\ Table(All) /\ Cardinality(All) \in Nat /\ DOMAIN rows = 1 .. Cardinality(All)
      /\ \A i \in DOMAIN rows : rows[i] \in All
      /\ \A i, j \in DOMAIN rows : rows[i] = rows[j] => i = j
  BY AllTable DEF RowsOnce, IsInjective
<1>2. 1 .. next - 1 \subseteq DOMAIN rows /\ next \notin 1 .. next - 1
      /\ 1 .. next = (1 .. next - 1) \cup {next} /\ (next + 1) - 1 = next
  BY <1>1
<1>3. rows[next] \notin Web(next) /\ Web(next) \subseteq All
  BY <1>1, <1>2 DEF Web
<1>4. IsFiniteSet(Web(next))
  BY <1>1, <1>3, FS_Subset DEF Table
<1>5. Web(next + 1) = Web(next) \cup {p \in {rows[next]} : Compared(p)}
  BY <1>2 DEF Web
<1> QED BY <1>1, <1>3, <1>4, <1>5

\* One row of the conflict loop.
LEMMA CompareInv == ASSUME IInv, Compare PROVE IInv'
<1> DEFINE p == rows[next]
           k == ConflictKey(p)
<1>1. /\ phase = "conflicts" /\ next \in DOMAIN rows /\ next' = next + 1
      /\ UNCHANGED <<rows, phase, order, doc, last>>
  BY DEF Compare
<1>2. RowsOnce' /\ PhaseOK' /\ InOrder' /\ DocSoFar' /\ All' = All /\ Messages' = Messages
  BY CompareKeeps
<1>3. /\ p \in All /\ p \notin Web(next) /\ Web(next) \subseteq All
      /\ IsFiniteSet(Web(next))
      /\ Web(next)' = Web(next) \cup {q \in {p} : Compared(q)}
  BY <1>1, WebGrows DEF IInv, Web
<1>4. Table(All) /\ Cardinality(All) \in Nat /\ DOMAIN rows = 1 .. Cardinality(All)
  BY AllTable DEF IInv
<1>5. next' \in 1 .. Cardinality(All) + 1
  BY <1>1, <1>4
<1>6. /\ DOMAIN seen = {ConflictKey(q) : q \in Web(next)} /\ IsFiniteSet(DOMAIN seen)
      /\ \A x \in DOMAIN seen : \E q \in Web(next) : ConflictKey(q) = x /\ seen[x] = q.id
      /\ conflicts \in Seq(Messages)
      /\ Len(conflicts) = Cardinality(Web(next)) - Cardinality(DOMAIN seen)
      /\ conflicts = << >> =>
            \A q, r \in Web(next) : ConflictKey(q) = ConflictKey(r) => q = r
  BY DEF IInv, Counted
<1>7. Cardinality(Web(next)) \in Nat /\ Cardinality(DOMAIN seen) \in Nat
  BY <1>3, <1>6, FS_CardinalityType
<1>8. CASE ~Compared(p) /\ UNCHANGED <<seen, conflicts>>
  <2>1. Web(next)' = Web(next)
    BY <1>3, <1>8
  <2>2. Counted'
    BY <1>1, <1>2, <1>5, <1>6, <1>8, <2>1 DEF Counted
  <2> QED BY <1>2, <2>2 DEF IInv
<1> DEFINE W == Web(next)
<1>9. ASSUME Compared(p)
      PROVE  /\ Web(next)' = W \cup {p}
             /\ Cardinality(Web(next)') = Cardinality(W) + 1
  <2>1. Web(next)' = W \cup {p}
    BY <1>3, <1>9
  <2>2. Cardinality(W \cup {p}) = Cardinality(W) + 1
    BY <1>3, FS_AddElement
  <2>3. Cardinality(Web(next)') = Cardinality(W \cup {p})
    BY ONLY <2>1, Zenon
  <2> QED BY <2>1, <2>2, <2>3
<1>10. CASE /\ Compared(p) /\ Clash(p) /\ UNCHANGED seen
            /\ conflicts' = Append(conflicts, <<k, seen[k], p.id>>)
  <2>1. k \in DOMAIN seen
    BY <1>10 DEF Clash
  <2>2. <<k, seen[k], p.id>> \in Messages
    BY <1>3, <1>4, <1>6, <2>1 DEF Messages, Table
  <2>3. conflicts' \in Seq(Messages) /\ Len(conflicts') = Len(conflicts) + 1
        /\ conflicts' # << >>
    BY <1>6, <1>10, <2>2
  <2>4. DOMAIN seen' = {ConflictKey(q) : q \in Web(next)'}
    BY <1>6, <1>9, <1>10, <2>1
  <2>5. \A x \in DOMAIN seen' :
           \E q \in Web(next)' : ConflictKey(q) = x /\ seen'[x] = q.id
    BY <1>6, <1>9, <1>10
  <2>6. Len(conflicts') = Cardinality(Web(next)') - Cardinality(DOMAIN seen')
    <3>1. Cardinality(DOMAIN seen') = Cardinality(DOMAIN seen)
      BY <1>10
    <3>2. Cardinality(Web(next)') = Cardinality(W) + 1
      BY <1>9, <1>10
    <3>3. Len(conflicts) = Cardinality(W) - Cardinality(DOMAIN seen)
      BY <1>6
    <3> QED BY <1>7, <2>3, <3>1, <3>2, <3>3
  <2>7. Counted'
    BY <1>1, <1>2, <1>5, <1>6, <1>10, <2>3, <2>4, <2>5, <2>6 DEF Counted
  <2> QED BY <1>2, <2>7 DEF IInv
<1>11. CASE Compared(p) /\ ~Clash(p) /\ seen' = Put(seen, k, p.id) /\ UNCHANGED conflicts
  <2>1. k \notin DOMAIN seen
    <3>1. SUFFICES ASSUME k \in DOMAIN seen PROVE FALSE
      OBVIOUS
    <3>2. seen[k] = p.id
      BY <1>11, <3>1 DEF Clash
    <3>3. PICK q \in W : seen[k] = q.id
      BY <1>6, <3>1
    <3>4. q = p
      BY <1>3, <1>4, <3>2, <3>3 DEF Table
    <3> QED BY <1>3, <3>3, <3>4
  <2>2. /\ DOMAIN seen' = DOMAIN seen \cup {k} /\ seen'[k] = p.id
        /\ \A x \in DOMAIN seen : seen'[x] = seen[x]
    BY <1>11, <2>1 DEF Put
  <2>3. IsFiniteSet(DOMAIN seen') /\ Cardinality(DOMAIN seen') = Cardinality(DOMAIN seen) + 1
    <3> DEFINE K == DOMAIN seen
    <3>1. IsFiniteSet(K \cup {k}) /\ Cardinality(K \cup {k}) = Cardinality(K) + 1
      BY <1>6, <2>1, FS_AddElement
    <3>2. DOMAIN seen' = K \cup {k}
      BY <2>2
    <3> QED BY <3>1, <3>2, Zenon
  <2>4. DOMAIN seen' = {ConflictKey(q) : q \in Web(next)'}
    BY <1>6, <1>9, <1>11, <2>2
  <2>5. \A x \in DOMAIN seen' :
           \E q \in Web(next)' : ConflictKey(q) = x /\ seen'[x] = q.id
    BY <1>6, <1>9, <1>11, <2>2
  <2>6. Len(conflicts') = Cardinality(Web(next)') - Cardinality(DOMAIN seen')
    <3>1. Len(conflicts') = Len(conflicts)
      BY <1>11
    <3>2. Cardinality(Web(next)') = Cardinality(W) + 1
      BY <1>9, <1>11
    <3>3. Len(conflicts) = Cardinality(W) - Cardinality(DOMAIN seen)
      BY <1>6
    <3> QED BY <1>7, <2>3, <3>1, <3>2, <3>3
  <2>7. \A q \in W : ConflictKey(q) # ConflictKey(p)
    BY <1>6, <2>1
  <2>8. conflicts' = << >> =>
           \A q, r \in Web(next)' : ConflictKey(q) = ConflictKey(r) => q = r
    BY <1>6, <1>9, <1>11, <2>7
  <2>9. Counted'
    BY <1>1, <1>2, <1>5, <1>6, <1>11, <2>3, <2>4, <2>5, <2>6, <2>8 DEF Counted
  <2> QED BY <1>2, <2>9 DEF IInv
<1> QED BY <1>8, <1>10, <1>11 DEF Compare

\* The loop over the rows ends behind the last one.
LEMMA ReturnInv == ASSUME IInv, Return PROVE IInv'
<1>1. /\ phase = "conflicts" /\ phase' = "done" /\ next \notin DOMAIN rows
      /\ UNCHANGED <<rows, order, doc, next, seen, conflicts, last>>
  BY DEF Return
<1>2. next = Cardinality(All) + 1
  BY <1>1, AllTable DEF IInv, Counted
<1>3. RowsOnce' /\ Counted' /\ Wanted' = Wanted
  BY <1>1, <1>2, RowsKept
<1>4. DocSoFar'
  BY <1>1, <1>3 DEF DocSoFar, Complete, IInv
<1>5. InOrder' /\ PhaseOK'
  BY <1>1 DEF InOrder, PhaseOK, IInv
<1> QED BY <1>3, <1>4, <1>5 DEF IInv

\* The same publications are rendered again, in another order.
LEMMA AgainInv == ASSUME IInv, Again PROVE IInv'
<1>1. /\ phase = "done" /\ last' = doc /\ rows' \in SetToSeqs(All)
      /\ phase' = "filter" /\ doc' = EmptyDoc /\ next' = 1
      /\ seen' = Nothing /\ conflicts' = << >>
  BY DEF Again, All
<1>2. All \in Registries
  BY DEF IInv, RowsOnce
<1>3. All' = All /\ Wanted' = Wanted
  BY <1>1, <1>2, Queried DEF All, Wanted
<1>4. RowsOnce'
  BY <1>1, <1>2, <1>3, Queried DEF RowsOnce
<1>5. PhaseOK' /\ InOrder'
  BY <1>1 DEF PhaseOK, InOrder
<1>6. DocSoFar'
  BY <1>1, <1>3, DocEmpty DEF DocSoFar, Complete, IInv
<1>7. Fresh'
  BY <1>1, <1>4 DEF Fresh
<1>8. Counted'
  BY <1>7, NothingCounted, PTL
<1> QED BY <1>4, <1>5, <1>6, <1>8 DEF IInv

\* Every step of the two loops, and every step that leaves them alone.
LEMMA NextInv == IInv /\ [Next]_vars => IInv'
<1> SUFFICES ASSUME IInv, [Next]_vars PROVE IInv'
  OBVIOUS
<1>1. CASE UNCHANGED vars
  <2>1. /\ All' = All /\ Wanted' = Wanted /\ Routes' = Routes
        /\ Messages' = Messages /\ Web(next)' = Web(next)
    BY <1>1 DEF vars, All, Wanted, Routes, Left, Messages, Web
  <2>2. UNCHANGED <<rows, phase, order, doc, next, seen, conflicts, last>>
    BY <1>1 DEF vars
  <2>3. RowsOnce' /\ PhaseOK' /\ InOrder'
    BY <2>1, <2>2 DEF IInv, RowsOnce, PhaseOK, InOrder
  <2>4. DocSoFar'
    BY <2>1, <2>2 DEF IInv, DocSoFar, Complete
  <2>5. Counted'
    BY <2>1, <2>2 DEF IInv, Counted
  <2> QED BY <2>3, <2>4, <2>5 DEF IInv
<1> QED BY <1>1, FilterInv, RoutesInv, EmitInv, CompareInv, ReturnInv, AgainInv DEF Next

\* The inductive invariant holds of every behaviour.
THEOREM Invariance == Spec => []IInv
<1> QED BY InitInv, NextInv, PTL DEF Spec

-----------------------------------------------------------------------------
(* What is rendered, and what is counted.                                  *)

\* A complete document is that of the publications that are routed, and so
\* is the one before it: the order of the query leaves no trace.
THEOREM RenderingIsDeterministic == Spec => []Deterministic
<1>1. IInv => Deterministic
  BY DEF IInv, DocSoFar, Deterministic
<1> QED BY <1>1, Invariance, PTL

\* At the end of the loop all web publications have been compared.
LEMMA AllCompared ==
  ASSUME IInv, phase = "done"
  PROVE  Web(next) = {p \in All : Compared(p)}
<1>1. next - 1 = Cardinality(All) /\ DOMAIN rows = 1 .. Cardinality(All)
  BY AllTable DEF IInv, Counted
<1> QED BY <1>1 DEF Web, All, Range

\* A message for each web publication beyond the first with its key, however
\* many there are and in whatever order they are compared.
THEOREM ConflictsAreCounted == Spec => []ConflictsCounted
<1>1. ASSUME IInv, phase = "done" PROVE ConflictsCounted
  <2> DEFINE web == {p \in Range(rows) : p.entry = "http" /\ p.domain # None}
  <2>1. Web(next) = web
    BY <1>1, AllCompared DEF Compared, All
  <2>2. DOMAIN seen = {ConflictKey(p) : p \in web}
    BY <1>1, <2>1 DEF IInv, Counted
  <2>3. Len(conflicts) = Cardinality(Web(next)) - Cardinality(DOMAIN seen)
    BY <1>1 DEF IInv, Counted
  <2> HIDE DEF web
  <2>4. Len(conflicts) = Cardinality(web) - Cardinality({ConflictKey(p) : p \in web})
    BY <2>1, <2>2, <2>3, Zenon
  <2> QED BY <2>4 DEF ConflictsCounted, web
<1>2. IInv => ConflictsCounted
  BY <1>1 DEF ConflictsCounted
<1> QED BY <1>2, Invariance, PTL

\* The web routers of a complete document, each that of a publication.
LEMMA WebRouters ==
  ASSUME IInv, Complete
  PROVE  LET P == Reaching("http")
         IN  \A n \in DOMAIN doc.http.routers :
                /\ LastOf(P, n) \in P /\ Name(LastOf(P, n)) = n
                /\ doc.http.routers[n] = WebRouter(LastOf(P, n))
<1> DEFINE P == Sel("http", Wanted)
<1>1. Reaching("http") = P
  BY DEF Reaching, Sel, Wanted, All
<1>2. doc.http.routers = [n \in Names(P) |-> WebRouter(LastOf(P, n))]
  BY DEF IInv, DocSoFar, DocOf, SectionOf, RouterOf
<1>3. HasLast(P)
  BY DEF IInv, DocSoFar, Kinds
<1>4. \A n \in Names(P) : LastOf(P, n) \in P /\ Name(LastOf(P, n)) = n
  BY <1>3 DEF HasLast, LastOf, LastNamed
<1> QED BY <1>1, <1>2, <1>4

\* If the loop over the conflicts reports nothing then no two web routers
\* have one rule, in a table that holds no empty prefix: only this one has
\* the rule of NULL under another key.
THEOREM NoReportNoOverlap ==
  ASSUME \A S \in Registries : \A p \in S : p.path # EmptyPath
  PROVE  Spec => []NoConflictNoOverlap
<1>1. ASSUME IInv, phase = "done", conflicts = << >>,
             NEW m \in DOMAIN doc.http.routers, NEW n \in DOMAIN doc.http.routers,
             doc.http.routers[m].rule = doc.http.routers[n].rule
      PROVE  m = n
  <2> DEFINE P == Reaching("http")
             p == LastOf(P, m)
             q == LastOf(P, n)
  <2>1. /\ p \in P /\ Name(p) = m /\ doc.http.routers[m] = WebRouter(p)
        /\ q \in P /\ Name(q) = n /\ doc.http.routers[n] = WebRouter(q)
    BY <1>1, WebRouters DEF Complete
  <2>2. P \subseteq All /\ \A x \in P : Compared(x)
    BY DEF Reaching, All, Compared
  <2>3. \A x \in All : x.path # EmptyPath
    BY <1>1 DEF IInv, RowsOnce
  <2> HIDE DEF p, q, P
  <2>4. WebRule(p) = WebRule(q)
    BY <1>1, <2>1 DEF WebRouter
  <2>5. ConflictKey(p) = ConflictKey(q)
    BY <2>1, <2>2, <2>3, <2>4 DEF WebRule, ConflictKey
  <2>6. p \in Web(next) /\ q \in Web(next)
    BY <1>1, <2>1, <2>2, AllCompared
  <2>7. p = q
    BY <1>1, <2>5, <2>6 DEF IInv, Counted
  <2> QED BY <2>1, <2>7
<1>2. IInv => NoConflictNoOverlap
  BY <1>1 DEF NoConflictNoOverlap
<1> QED BY <1>2, Invariance, PTL

\* A complete document is what the table says, of whatever size; a profile
\* is a free string, and one that is named cp-maintenance would put a
\* publication behind the maintenance page that is not in maintenance.
THEOREM DocumentFollowsTable ==
  ASSUME \A S \in Registries : \A p \in S : p.mw # "cp-maintenance"
  PROVE  Spec => []DocumentIsExact
<1>1. ASSUME IInv, Complete, NEW kind \in Kinds
      PROVE  /\ DOMAIN doc[kind].routers = {Name(p) : p \in Reaching(kind)}
             /\ \A n \in DOMAIN doc[kind].routers :
                   doc[kind].services[n] = LastOf(Reaching(kind), n).backend
  <2> DEFINE P == Sel(kind, Wanted)
  <2>1. Reaching(kind) = P
    BY DEF Reaching, Sel, Wanted, All
  <2>2. doc[kind] = SectionOf(kind, P)
    BY <1>1 DEF IInv, DocSoFar, DocOf, Kinds
  <2>3. DOMAIN doc[kind].routers = Names(P)
    BY <2>2 DEF SectionOf
  <2>4. \A n \in Names(P) : doc[kind].services[n] = LastOf(P, n).backend
    BY <2>2 DEF SectionOf
  <2> QED BY <2>1, <2>3, <2>4 DEF Names
<1>2. \A kind, n : Winner(kind, n) = LastOf(Reaching(kind), n)
  BY DEF Winner, LastOf, LastNamed
<1>3. ASSUME IInv, Complete, NEW n \in DOMAIN doc.http.routers
      PROVE  LET p == Winner("http", n)
                 r == doc.http.routers[n]
             IN  /\ r.rule[1] = p.domain
                 /\ "cp-maintenance" \in r.middlewares <=> p.maint
                 /\ p.mw # None => p.mw \in r.middlewares
                 /\ r.tls = "resolver" <=> p.tls /\ p.mode = "letsencrypt"
                 /\ r.entry = "websecure" <=> p.tls
  <2> DEFINE p == LastOf(Reaching("http"), n)
             r == doc.http.routers[n]
  <2>1. p \in Reaching("http") /\ r = WebRouter(p)
    BY <1>3, WebRouters
  <2>2. p.mw # "cp-maintenance"
    BY <1>3, <2>1 DEF IInv, RowsOnce, All, Reaching
  <2> HIDE DEF p, r
  <2>3. r.rule[1] = p.domain
    BY <2>1 DEF WebRouter, WebRule
  <2>4. /\ "cp-maintenance" \in r.middlewares <=> p.maint
        /\ p.mw # None => p.mw \in r.middlewares
    BY <2>1, <2>2 DEF WebRouter, Middlewares
  <2>5. /\ r.tls = "resolver" <=> p.tls /\ p.mode = "letsencrypt"
        /\ r.entry = "websecure" <=> p.tls
    BY <2>1, NoneAssumption DEF WebRouter
  <2> QED BY <1>2, <2>3, <2>4, <2>5 DEF p, r
<1>4. IInv => DocumentIsExact
  <2> SUFFICES ASSUME IInv, Complete PROVE DocumentIsExact
    BY DEF DocumentIsExact
  <2>1. \A kind \in Kinds :
            /\ DOMAIN doc[kind].routers = {Name(p) : p \in Reaching(kind)}
            /\ \A n \in DOMAIN doc[kind].routers :
                  doc[kind].services[n] = Winner(kind, n).backend
    BY <1>1, <1>2
  <2> QED BY <1>3, <2>1 DEF DocumentIsExact
<1> QED BY <1>4, Invariance, PTL

\* A publication whose name no other has in its section gets its own router
\* and backend, whatever else is in the table: so the other modules may take
\* the document for a function from publications to routes (EdgeRoutes).
OwnRoutes ==
    Complete =>
      \A kind \in Kinds : \A p \in Reaching(kind) :
         (\A q \in Reaching(kind) : Name(q) = Name(p) => q = p) =>
            /\ doc[kind].routers[Name(p)] = RouterOf(kind, p)
            /\ doc[kind].services[Name(p)] = p.backend

\* The loop's assignments for other publications leave that route alone.
THEOREM RouteIsOwn == Spec => []OwnRoutes
<1>1. ASSUME IInv, Complete, NEW kind \in Kinds, NEW p \in Reaching(kind),
             \A q \in Reaching(kind) : Name(q) = Name(p) => q = p
      PROVE  /\ doc[kind].routers[Name(p)] = RouterOf(kind, p)
             /\ doc[kind].services[Name(p)] = p.backend
  <2> DEFINE P == Sel(kind, Wanted)
  <2>1. Reaching(kind) = P
    BY DEF Reaching, Sel, Wanted, All
  <2>2. doc[kind] = SectionOf(kind, P)
    BY <1>1 DEF IInv, DocSoFar, DocOf, Kinds
  <2>3. LastOf(P, Name(p)) = p
    <3>1. LastNamed(P, p, Name(p))
      BY <1>1, <2>1 DEF LastNamed
    <3>2. Table(Wanted) /\ P \in SUBSET Wanted
      BY <1>1, AllTable DEF IInv, Sel
    <3> QED BY <2>1, <3>1, <3>2, LastIs
  <2>4. Name(p) \in Names(P)
    BY <2>1 DEF Names
  <2> QED BY <2>2, <2>3, <2>4 DEF SectionOf
<1>2. IInv => OwnRoutes
  BY <1>1 DEF OwnRoutes
<1> QED BY <1>2, Invariance, PTL
==============================================================================
