----------------------------- MODULE ConfigLedger -----------------------------
(***************************************************************************)
(* What ConfigRenderer promises to a caller that is alone: every request   *)
(* takes effect in one step on the registry, on the history of revisions   *)
(* and on the edge, or has no effect.  A revision is an index into the     *)
(* history.  The one promise the code does not make is named Leak: a       *)
(* request that fails after it wrote the file leaves the file behind.      *)
(***************************************************************************)
EXTENDS EdgeRoutes, Naturals, Sequences

VARIABLES registry, history, edge

ledger == <<registry, history, edge>>

Start == /\ registry = [p \in Pub |-> Absent]
         /\ history = << >>
         /\ edge = NoRoutes

\* One publication is added, changed or removed, or none is.
Edited == \/ UNCHANGED registry
          \/ \E p \in Pub, v \in Val : registry' = [registry EXCEPT ![p] = v]

\* The history gains a revision only if the content differs from the newest.
Recorded(content) ==
    IF history # << >> /\ history[Len(history)] = content
    THEN UNCHANGED history
    ELSE history' = Append(history, content)

\* A change of the registry alone (the granular routers).
Edit == Edited /\ UNCHANGED <<history, edge>>

\* POST render, the hourly job.
Render == Recorded(Rendered(registry)) /\ UNCHANGED <<registry, edge>>

\* A change of the registry that is rendered and served at once, or POST
\* apply; an operating system error keeps the old file.
Publish == /\ Edited
           /\ Recorded(Rendered(registry'))
           /\ edge' \in {edge, Rendered(registry')}

\* The chosen revision becomes the newest one and is served.
Rollback == \E n \in DOMAIN history :
               /\ history' = Append(history, history[n])
               /\ edge' \in {edge, history[n]}
               /\ UNCHANGED registry

Leak == edge' \in Content /\ UNCHANGED <<registry, history>>

Advance == Edit \/ Render \/ Publish \/ Rollback \/ Leak

Ledger == Start /\ [][Advance]_ledger
===============================================================================
