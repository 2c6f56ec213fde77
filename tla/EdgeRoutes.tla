------------------------------ MODULE EdgeRoutes ------------------------------
(***************************************************************************)
(* The data the configuration modules share: a publication (with the       *)
(* service behind it) as one value, and the document rendered from a       *)
(* registry of them as the set of routes it gives.  TraefikRender models   *)
(* the renderer in detail; here a route is an opaque value.                *)
(***************************************************************************)
CONSTANTS
    Pub,         \* publications, with the service behind each
    Route,       \* what a rendered publication puts into the document
    Disabled,    \* registered, but the renderer skips it
    Absent       \* not registered

ASSUME RouteAssumption ==
    Disabled \notin Route /\ Absent \notin Route /\ Disabled # Absent

Val      == Route \cup {Disabled, Absent}
Registry == [Pub -> Val]
Content  == UNION {[S -> Route] : S \in SUBSET Pub}

NoRoutes == [p \in {} |-> p]

\* Mutant: disabled publications are rendered too.
RenderedAll(pubs) == [p \in {q \in Pub : pubs[q] # Absent} |-> pubs[p]]

\* The document: the routes of the enabled publications, and of no other.
Rendered(pubs) == [p \in {q \in Pub : pubs[q] \in Route} |-> pubs[p]]
===============================================================================
