---------------------------- MODULE ConfigRevisions ----------------------------
(***************************************************************************)
(* The edge configuration of the control plane: the publications in the    *)
(* registry, the generated_configs revisions rendered from them, and the   *)
(* file control-plane.yml that Traefik watches.                            *)
(*                                                                         *)
(* A request (an API handler, or the hourly Celery job) is one database    *)
(* transaction of services/config_renderer/renderer.py: it runs at READ    *)
(* COMMITTED isolation and yields at every await, so that requests         *)
(* interleave between queries.  The file is written inside the             *)
(* transaction and is not undone when the transaction rolls back.          *)
(***************************************************************************)
EXTENDS EdgeRoutes, Naturals, Sequences, FiniteSets

CONSTANTS
    Req,         \* the requests that may be in flight at once
    NoChange,    \* the request edits no publication
    Ops,         \* the operations this instance exercises
    Faults,      \* subset of {"abort", "oserror"}
    MaxConfigs   \* bound on the stored revisions, in the guard of Begin

AllOps == {"create", "publish", "add", "edit", "apply", "render",
           "rollback", "diff"}

\* The operations that call apply().
ApplyOps == {"create", "publish", "apply", "rollback"}

ASSUME OpsAssumption     == Ops \subseteq AllOps
ASSUME FaultsAssumption  == Faults \subseteq {"abort", "oserror"}
ASSUME MaxAssumption     == MaxConfigs \in Nat

VARIABLES
    registry,    \* committed publications
    configs,     \* committed generated_configs rows, in commit order
    edge,        \* content of control-plane.yml (no file: no route)
    served,      \* history: every content the edge has had
    req          \* transaction of each request

vars == <<registry, configs, edge, served, req>>

Config  == [rev : Nat \ {0}, content : Content, applied : BOOLEAN]
Change  == [pub : Pub, seen : Val, val : Val]

ASSUME NoChangeAssumption == NoChange \notin Change

PC == {"idle", "load", "flush", "render", "latest", "number", "fetch",
       "write", "mark", "commit"}

(* A transaction: the row of an existing revision (0: none), the number of *)
(* the revision it inserts (0: none), `was' the applied flag as loaded,    *)
(* `ok' the outcome of the file write; and, as history, `solo': no other   *)
(* request has been in flight since this one began, and `prev': what the   *)
(* edge served before the write.                                           *)
Request ==
    [pc : PC, op : AllOps, chg : Change \cup {NoChange}, target : Nat,
     content : Content, row : Nat, rev : Nat, was : BOOLEAN, ok : BOOLEAN,
     solo : BOOLEAN, prev : Content]

Idle == [pc |-> "idle", op |-> "diff", chg |-> NoChange, target |-> 0,
         content |-> NoRoutes, row |-> 0, rev |-> 0, was |-> FALSE,
         ok |-> FALSE, solo |-> FALSE, prev |-> NoRoutes]

-----------------------------------------------------------------------------
(* Queries over the committed revisions.                                   *)

\* The rows `ORDER BY revision DESC LIMIT 1' may return: several on a tie.
Newest == {i \in DOMAIN configs :
              \A j \in DOMAIN configs : configs[j].rev <= configs[i].rev}

\* Mutants: the numbering forgets to add one; it counts the rows instead.
NextRevisionRepeats == IF configs = << >> THEN {1}
                       ELSE {configs[i].rev : i \in Newest}
NextRevisionCounts == {Len(configs) + 1}

\* The numbers _next_revision may return.
NextRevision == IF configs = << >> THEN {1}
                ELSE {configs[i].rev + 1 : i \in Newest}

\* The rows _get_revision selects.
Rows(n) == {i \in DOMAIN configs : configs[i].rev = n}

\* The ORM emits an UPDATE only if the value differs from the loaded one.
Dirty(t) == req[t].chg.val # req[t].chg.seen

\* Mutant: the document is rendered from committed rows only.
ViewCommitted(t) == registry

\* What the session of t reads: the committed rows, and under its own
\* identity map the edited publication, if that row still exists.
View(t) ==
    LET c == req[t].chg
    IN  IF c = NoChange THEN registry
        ELSE IF ~Dirty(t) /\ registry[c.pub] = Absent THEN registry
        ELSE [registry EXCEPT ![c.pub] = c.val]

\* Mutant: the row of the revision is locked as soon as it is read, by all.
MarkingShared(t, i) == /\ req[t].pc \in {"write", "mark", "commit"}
                       /\ i # 0 /\ req[t].row = i /\ req[t].op \in ApplyOps

\* Row locks, held from the UPDATE until the end of the transaction.
Editing(t, p) == /\ req[t].chg # NoChange
                 /\ req[t].chg.pub = p
                 /\ Dirty(t)
                 /\ req[t].pc \notin {"idle", "load", "flush"}
Marking(t, i) == req[t].pc = "commit" /\ i # 0 /\ req[t].row = i
                 /\ req[t].op \in ApplyOps

-----------------------------------------------------------------------------
Init == /\ registry = [p \in Pub |-> Absent]
        /\ configs = << >>
        /\ edge = NoRoutes
        /\ served = {NoRoutes}
        /\ req = [t \in Req |-> Idle]

Goto(t, pc)  == req' = [req EXCEPT ![t].pc = pc]
Finish(t)    == req' = [req EXCEPT ![t] = Idle]
InFlight     == {t \in Req : req[t].pc # "idle"}

\* A request arrives.  It ends the solitude of those in flight.
Begin(t, op, first, chg, target) ==
    /\ req[t].pc = "idle"
    /\ op \in Ops
    /\ op \in {"add", "edit", "diff"}
          \/ Len(configs) + Cardinality(InFlight) < MaxConfigs
    /\ req' = [u \in Req |->
                 IF u = t
                 THEN [Idle EXCEPT !.pc = first, !.op = op, !.chg = chg,
                                   !.target = target,
                                   !.solo = (InFlight = {})]
                 ELSE [req[u] EXCEPT !.solo = FALSE]]
    /\ UNCHANGED <<registry, configs, edge, served>>

\* POST /published-services, POST /publications: a fresh publication.
BeginCreate(t) ==
    \E op \in {"create", "add"}, p \in Pub, v \in Val \ {Absent} :
        /\ registry[p] = Absent
        /\ \A u \in Req : req[u].chg # NoChange => req[u].chg.pub # p
        /\ Begin(t, op, "flush", [pub |-> p, seen |-> Absent, val |-> v], 0)

\* PATCH, toggle and DELETE of either router; Absent is the deletion.
BeginEdit(t) ==
    \E op \in {"publish", "edit"}, p \in Pub, v \in Val :
        Begin(t, op, "load", [pub |-> p, seen |-> Absent, val |-> v], 0)

\* POST apply, POST render and the hourly job.
BeginRender(t) ==
    \E op \in {"apply", "render"} : Begin(t, op, "render", NoChange, 0)

\* POST rollback/{n}, GET diff; n need not exist.
BeginFetch(t) ==
    \E op \in {"rollback", "diff"}, n \in 1 .. Len(configs) + 1 :
        Begin(t, op, "fetch", NoChange, n)

\* _get_full, get_or_404: the publication is loaded into the session.
Load(t) ==
    /\ req[t].pc = "load"
    /\ LET p == req[t].chg.pub
       IN  IF registry[p] = Absent
           THEN Finish(t)                                  \* 404
           ELSE req' = [req EXCEPT ![t].pc = "flush",
                                   ![t].chg.seen = registry[p]]
    /\ UNCHANGED <<registry, configs, edge, served>>

\* The handler assigns and flushes: a dirty row is updated, waiting for the
\* row lock; an UPDATE that finds the row deleted fails (StaleDataError).
Flush(t) ==
    /\ req[t].pc = "flush"
    /\ LET c == req[t].chg
       IN  /\ Dirty(t) => \A u \in Req \ {t} : ~Editing(u, c.pub)
           /\ IF Dirty(t) /\ c.seen # Absent /\ c.val # Absent
                 /\ registry[c.pub] = Absent
              THEN Finish(t)                               \* 500
              ELSE Goto(t, IF req[t].op \in ApplyOps THEN "render"
                           ELSE "commit")
    /\ UNCHANGED <<registry, configs, edge, served>>

\* render_current: read the publications and render the document.
RenderCurrent(t) ==
    /\ req[t].pc = "render"
    /\ req' = [req EXCEPT ![t].pc = "latest",
                          ![t].content = Rendered(View(t))]
    /\ UNCHANGED <<registry, configs, edge, served>>

\* After render_and_store, apply() writes the file; render only commits.
Stored(t) == IF req[t].op \in ApplyOps THEN "write" ELSE "commit"

\* Mutant: every render is stored, changed or not.
LatestIgnored(t) == /\ req[t].pc = "latest"
                    /\ Goto(t, "number")
                    /\ UNCHANGED <<registry, configs, edge, served>>

\* _latest and the checksum comparison: reuse the newest row if equal.
Latest(t) ==
    /\ req[t].pc = "latest"
    /\ \/ \E i \in Newest :
            IF configs[i].content = req[t].content
            THEN req' = [req EXCEPT ![t].pc = Stored(t), ![t].row = i,
                                    ![t].was = configs[i].applied]
            ELSE Goto(t, "number")
       \/ configs = << >> /\ Goto(t, "number")
    /\ UNCHANGED <<registry, configs, edge, served>>

\* _next_revision, then the INSERT, which nobody else sees until commit.
Number(t) ==
    /\ req[t].pc = "number"
    /\ \E n \in NextRevision :
         req' = [req EXCEPT ![t].pc = Stored(t), ![t].rev = n]
    /\ UNCHANGED <<registry, configs, edge, served>>

\* _get_revision: 404 if there is no such row, an exception if several.
Fetch(t) ==
    /\ req[t].pc = "fetch"
    /\ IF Cardinality(Rows(req[t].target)) = 1 /\ req[t].op = "rollback"
       THEN \E i \in Rows(req[t].target) :
               req' = [req EXCEPT ![t].pc = "number",
                                  ![t].content = configs[i].content]
       ELSE Finish(t)
    /\ UNCHANGED <<registry, configs, edge, served>>

\* apply(): temporary file, then os.replace; no await in between.
WriteFile(t) ==
    /\ req[t].pc = "write"
    /\ edge' = req[t].content
    /\ served' = served \cup {req[t].content}
    /\ req' = [req EXCEPT ![t].pc = "mark", ![t].ok = TRUE,
                          ![t].prev = edge]
    /\ UNCHANGED <<registry, configs>>

\* Mutant: the flag is set before the write is known to have succeeded.
WriteFailsApplied(t) ==
    /\ "oserror" \in Faults
    /\ req[t].pc = "write"
    /\ req' = [req EXCEPT ![t].pc = "mark", ![t].ok = TRUE]
    /\ UNCHANGED <<registry, configs, edge, served>>

\* apply(): OSError, the target file keeps its content.
WriteFails(t) ==
    /\ "oserror" \in Faults
    /\ req[t].pc = "write"
    /\ Goto(t, "mark")
    /\ UNCHANGED <<registry, configs, edge, served>>

\* The flush of applied / apply_error; waits if another request marks the
\* same existing row.
Mark(t) ==
    /\ req[t].pc = "mark"
    /\ \A u \in Req \ {t} : ~Marking(u, req[t].row)
    /\ Goto(t, "commit")
    /\ UNCHANGED <<registry, configs, edge, served>>

\* Mutant: a changed document overwrites the newest stored row.
ConfigsOfOverwrite(t) ==
    IF req[t].rev # 0 /\ configs # << >>
    THEN [configs EXCEPT ![Len(configs)].content = req[t].content]
    ELSE IF req[t].rev # 0
    THEN << [rev |-> 1, content |-> req[t].content, applied |-> req[t].ok] >>
    ELSE configs

\* The rows after the transaction of t: a new one, or the flag of an
\* existing one, which is updated only if it differs from what was loaded.
ConfigsOf(t) ==
    IF req[t].rev # 0
    THEN Append(configs, [rev |-> req[t].rev, content |-> req[t].content,
                          applied |-> req[t].ok])
    ELSE IF req[t].row # 0 /\ req[t].op \in ApplyOps /\ req[t].ok # req[t].was
    THEN [configs EXCEPT ![req[t].row].applied = req[t].ok]
    ELSE configs

RegistryOf(t) ==
    IF req[t].chg # NoChange /\ Dirty(t)
    THEN [registry EXCEPT ![req[t].chg.pub] = req[t].chg.val]
    ELSE registry

\* get_session commits when the handler returns.
Commit(t) ==
    /\ req[t].pc = "commit"
    /\ registry' = RegistryOf(t)
    /\ configs' = ConfigsOf(t)
    /\ Finish(t)
    /\ UNCHANGED <<edge, served>>

\* An exception, a lost connection or a crash at any await: the database
\* forgets the transaction, the file does not.
Abort(t) ==
    /\ "abort" \in Faults
    /\ req[t].pc # "idle"
    /\ Finish(t)
    /\ UNCHANGED <<registry, configs, edge, served>>

Arrive(t) == BeginCreate(t) \/ BeginEdit(t) \/ BeginRender(t) \/ BeginFetch(t)

Step(t) == \/ Load(t) \/ Flush(t) \/ RenderCurrent(t) \/ Latest(t)
           \/ Number(t) \/ Fetch(t) \/ WriteFile(t) \/ WriteFails(t)
           \/ Mark(t) \/ Commit(t)

Next == \E t \in Req : Arrive(t) \/ Step(t) \/ Abort(t)

Spec == Init /\ [][Next]_vars

\* The event loop and the workers resume every task that can run, and
\* PostgreSQL grants row locks in the order of arrival, so a task that waits
\* for a lock is not overtaken for ever.
FairSpec == Spec /\ \A t \in Req : SF_vars(Step(t))

-----------------------------------------------------------------------------
(* Properties.                                                             *)

\* Every variable has its type.
TypeOK == /\ registry \in Registry
          /\ configs \in Seq(Config)
          /\ edge \in Content
          /\ served \subseteq Content
          /\ req \in [Req -> Request]

\* The revision numbers that rollback and diff accept have no gap: under
\* every revision but the first there is a committed one with the number
\* before it, although _next_revision is read before the insert commits and
\* transactions that took a number may roll back.
NoRevisionGaps ==
    \A i \in DOMAIN configs :
        configs[i].rev = 1 \/ Rows(configs[i].rev - 1) # {}

\* A revision is flagged applied only if its content has been the content of
\* control-plane.yml, whatever concurrent requests did to the same row.
AppliedWasServed ==
    \A i \in DOMAIN configs :
        configs[i].applied => configs[i].content \in served

\* Revisions are a history: a committed row keeps its number and content and
\* is never removed, so a rollback target means the same document for ever.
RevisionsAppendOnly ==
    [][/\ Len(configs') >= Len(configs)
       /\ \A i \in DOMAIN configs :
             /\ configs'[i].rev = configs[i].rev
             /\ configs'[i].content = configs[i].content]_vars

\* A request that applies with no other in flight, and whose write succeeds,
\* leaves at the edge exactly what the registry it commits renders to
\* (rollback: what the chosen revision holds).
SoloApplyIsLive ==
    [][\A t \in Req :
         Commit(t) /\ req[t].solo /\ req[t].ok =>
            IF req[t].op = "rollback"
            THEN \E i \in Rows(req[t].target) : edge' = configs[i].content
            ELSE edge' = Rendered(registry')]_vars

\* A request alone in flight inserts the next number, used by no other row,
\* and unless it rolls back, only a content that differs from the newest.
SoloRevisionIsNew ==
    [][\A t \in Req :
         Commit(t) /\ req[t].solo /\ Len(configs') > Len(configs) =>
            /\ \A i \in DOMAIN configs : configs[i].rev < req[t].rev
            /\ req[t].op # "rollback" =>
                  configs = << >>
                  \/ \E i \in Newest : configs[i].content # req[t].content]_vars

\* Waiting for row locks never blocks a request for ever: publications are
\* locked before revisions, so there is no cycle, and every request that
\* arrives ends.
EveryRequestEnds ==
    \A t \in Req : req[t].pc # "idle" ~> req[t].pc = "idle"

\* Seen by one caller at a time, a request is atomic: it takes effect on the
\* registry, the revisions and the edge at its commit or has no effect,
\* except that a failure after the write leaks the file (ConfigLedger).
Writers == {t \in Req : req[t].pc \in {"mark", "commit"} /\ req[t].ok}

Atomic == INSTANCE ConfigLedger
            WITH history <- [i \in DOMAIN configs |-> configs[i].content],
                 edge    <- IF Writers = {} THEN edge
                            ELSE req[CHOOSE t \in Writers : TRUE].prev

AtomicWhenAlone == Atomic!Ledger

\* One request at a time: a revision number names one revision, so that
\* rollback and diff find the one they are asked for.  Two concurrent
\* requests take the same number.
RevisionsAddressable ==
    \A i, j \in DOMAIN configs : configs[i].rev = configs[j].rev => i = j

\* Claimed: an enabled publication has a route at the edge; here when every
\* request has ended and all of them went through the published-service API.
PublishedIsRouted ==
    InFlight = {} => edge = Rendered(registry)
=============================================================================
