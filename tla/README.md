# A verification of teamproxy's control plane in TLA+

teamproxy is a control plane for a small VPN and reverse-proxy installation: a
FastAPI backend keeps a registry of sites, WireGuard peers, services,
publications and DNS names in PostgreSQL, renders the enabled publications
into a Traefik dynamic configuration, and writes it into a directory that
Traefik watches. Celery runs periodic jobs over the same tables; wg-easy owns
the WireGuard clients; shell scripts deploy the whole.

This directory holds TLA+ models of the parts that have behaviour worth
checking, TLC configurations, and TLAPS proofs. `PROJECT.json` relates every
definition to the lines of the source it stands for, lists the hazards of the
code, and names the runs, their mutants and the theorems.

    tlc -workers 2 -config Concurrent.cfg MCConfigRevisions.tla
    tlapm ConfigRevisionsProofs.tla

Paths below are relative to `src/apps/backend/app/` unless they begin with
`infra/` or `docs/`.

## 1. Inventory

| Part | State | Operations | Talks to |
|---|---|---|---|
| Configuration renderer (`services/config_renderer/renderer.py`, `api/v1/publications.py`) | `generated_configs` (revision, content, applied), the file `control-plane.yml` | render, apply, rollback, diff, preview | reads publications and services; writes the file Traefik watches; called by the published-service API and the hourly job |
| Traefik renderer (`services/config_renderer/traefik.py`) | none: a function of the rows | routers, services, middlewares; conflict messages | called by the above |
| Published services (`api/v1/published.py`) | `services`, `publications`, `domains`, `peers` | create (new or existing tunnel), update, toggle, delete | wg-easy over HTTP; the renderer |
| DNS registry (`api/v1/dns.py`) | `domains` (unique `fqdn`, link to a publication) | create, update, delete | the tables of published services |
| Publications, services, nodes (`api/v1/publications.py`, `api/v1/services.py`, `api/v1/nodes.py`) | the same rows and `nodes` | CRUD, toggle, maintenance, switch backend, clone | no rendering of their own; deletions cascade |
| wg-easy client (`services/wgeasy.py`) | external: the list of clients | create (then find by name), list, fetch configuration | outside every transaction |
| Peers, sites (`api/v1/peers.py`, `api/v1/sites.py`, `services/wireguard.py`) | `peers`, `sites` with a soft `gateway_peer_id` | provision a gateway, allocate an address, update, disable, rotate, delete | cascades to nodes, services, peers |
| Celery jobs (`tasks/jobs.py`, `services/health/checker.py`) | `health_checks` | health sweep (120 s), staleness sweep (300 s), render (hourly) | all tables; probes of the services |
| Deployment scripts (`infra/scripts`, `docker-entrypoint.sh`) | images, containers, schema, dumps | deploy, health check, back up, restore; migrate at each start | docker, alembic |
| Accounts (`api/v1/auth.py`, `api/deps.py`, `core/rbac.py`, `db/seed.py`) | `users`; tokens at their holders | seed at start, log in, authenticate, create and edit users | every handler authenticates |
| Deployments, audit (`api/v1/deployments.py`, `core/audit.py`) | `deploy_revisions`, `audit_events` | record and update | a row of the audit log per change, in its transaction |

How they interact: **all of the API's concurrency is between database
transactions.** `db/session.py` gives each request one session, committed when
the handler returns and rolled back on an exception. The backend is one asyncio
process, and a handler can be overtaken at every `await`; the Celery worker is
another process. PostgreSQL runs at READ COMMITTED, so a query sees what is
committed at that moment, and no code locks a row or retries. SQLAlchemy adds
two effects that matter: a row already loaded keeps its loaded (or edited)
values in later queries of the session, and an UPDATE writes only the columns
that differ from what was loaded.

What is hard, and what correctness means:

* *The renderer*: a read-compare-insert of revision numbers without a lock; a
  file replaced inside a transaction that may roll back; two requests that
  replace the file in another order than they commit. Correct: numbers are
  unique and have no gap, history is append-only, `applied` is true only of
  what was served, the edge serves what the registry says.
* *The Traefik renderer*: rows arrive in any order, router names are
  truncated, several flags decide on a route. Correct: exactly the enabled
  publications, the same document for the same rows, overlaps reported.
* *Published services and DNS*: one name lives in two tables, checked in one
  statement and inserted in another; an external system is called in between.
  Correct: names distinct, both tables agree, links resolve, one peer row per
  client.
* *The fleet*: addresses allocated without a lock, cascades, a periodic writer.
  Correct: addresses distinct, references resolve, states settle.
* *Deletions*: what goes with a site, a node or a service is decided twice, by
  the ORM from what it has read and by the foreign keys from what is there.
  Correct: references resolve, and nothing goes that has no reason to.
* *The health sweep*: one transaction over probes that take seconds, of rows
  that are edited meanwhile; nothing validates what a probe is made from.
  Correct: an enabled service is checked again and again.
* *Accounts*: a role is read once per request, the seed counts and inserts in
  two statements in every process that starts. Correct: authority is that of
  the row, a seed only into an empty table.
* *Deployment*: a sequence of commands, each of which may fail or be the last,
  beside a container that may restart at any time. Correct: the schema covers
  the code that runs, what was deployed comes back, a dump to restore is kept, a
  failed deployment is undone.

The full list of hazards, each at its line, is in `PROJECT.json`.

## 2. Modules

| Module | What it is |
|---|---|
| `EdgeRoutes` | the shared data: a registry of publications and the document rendered from it |
| `ConfigLedger` | abstract: what the renderer promises a caller that is alone |
| `ConfigRevisions` | the core: requests as interleaved transactions |
| `ConfigRevisionsProofs` | its theorems about any number of requests at a time |
| `ConfigRevisionsAloneProofs` | its theorems about a request that meets no other, and the refinement of `ConfigLedger` |
| `TraefikRender`, `TraefikRenderProofs` | the two loops of `traefik.py`, and its theorems |
| `PublishedServices`, `PublishedServicesProofs` | published services, DNS registry and wg-easy, and its theorems |
| `PeerFleet`, `PeerFleetProofs` | sites, peers, addresses and the staleness sweep, and its theorems, with those about `WorkerJobs` |
| `HealthSweep` | services as probed, and the health sweep |
| `WorkerJobs` | the composition of the two: both sweeps in one pool of worker processes |
| `Inventory`, `InventoryProofs` | sites, nodes, services and publications with their deletions, and its theorems |
| `Accounts`, `AccountsProofs` | users, tokens, roles, the seed and deployment numbers, and its theorems |
| `DeployScript`, `DeployScriptProofs` | `deploy.sh`, and its theorems |
| `MC...` | constants and symmetries for TLC |

A definition named `...Repeats`, `...Ignored`, `...Never` and so on, marked
*Mutant*, is a plausible bug; `PROJECT.json` pairs each property with the mutant
that breaks it.

### ConfigRevisions

State: `registry`, `configs` (the committed tables), `edge` (the file), `served`
(history of the file) and, for every request, its open transaction. One action
per query, flush, file write or commit:

| Action | Code |
|---|---|
| `BeginCreate`, `BeginEdit`, `BeginRender`, `BeginFetch` | a request arrives (`published.py`, `publications.py`, the hourly job) |
| `Load`, `Flush` | `_get_full` / `get_or_404`, then the handler's edits |
| `RenderCurrent` | `build_render_input` and the renderer, through the session's identity map (`View`) |
| `Latest`, `Number`, `Fetch` | `_latest` with the checksum comparison, `_next_revision` with the insert, `_get_revision` |
| `WriteFile`, `WriteFails`, `Mark` | `apply()`: temporary file and `os.replace`, the `OSError` branch, the flush of the flag |
| `Commit`, `Abort` | `get_session`: commit; an exception or a crash at any await |

The document is abstracted to the function from publications to routes
(`Rendered`); `TraefikRender` checks the renderer itself. A tie on the largest
revision number is a choice among the tied rows, as `LIMIT 1` makes it. Row
locks are `Editing` and `Marking`: an UPDATE waits for the transaction that holds
the row.

`ConfigLedger` says the same in one step per request, with a history indexed
by position. `AtomicWhenAlone` is the refinement: with one request at a time,
every step is a step of the ledger or a stutter; the file write maps to a
stutter until the commit (`prev` keeps the old content), and `Leak` is the one
deviation, a failure after the write.

### TraefikRender

`Filter` (selection and sort), then one action per iteration (`RouteWeb`,
`RouteTcp`, `RouteUdp`), then the conflict loop (`Compare`), then `Again`: the
same rows in any other order. A publication is a record of the columns that
some branch reads; ids are numbers of which `Short` keeps the prefix, so that
names may collide. The YAML text is left out: it is a function of the document.

### PublishedServices

Services, publications (each with its service and its name), DNS records and
peer rows, and wg-easy as a list of client names that only grows. The operations
are all those that write a name or what it hangs on:

| Action | Code |
|---|---|
| `BeginNew`, `BeginExisting`, `PostClient`, `ListClients`, `SelectPeer`, `CheckDomain`, `CommitCreate` | `POST /published-services`, with the two HTTP calls of `create_client` |
| `BeginUpdate`, `Clash`, `CommitEdit` | `PATCH /published-services` |
| `BeginEdit`, `CommitEdit` | `PATCH /publications` (name or service), `switch-backend` |
| `BeginPublish`, `CommitPublish` | `POST /publications`, which does not look at `domains` |
| `CreateService` | `POST /services`, clone |
| `BeginDelete`, `FlushDelete`, `CommitDelete` | `DELETE` of `/published-services`, `/services`, `/publications`, `/sites` (and `/peers`) |
| `BeginDns`, `CheckDomain`, `CommitDns...` | `POST`, `PATCH`, `DELETE` of `/dns` |

A request begins with its first query; one that is answered with 404 there is
none. The last flush and the commit are one step, because a unique key or a row
lock makes the others wait for the commit and then see its result. Integrity
errors, stale rows and conflicts end the request without an effect. Sites are not
told apart: the deletion of one takes any services and peers with it.

`edited` records the names that a request other than `POST` and `DELETE
/published-services` has given, changed or relinked. A deletion edits nothing: only
`DELETE /published-services` removes the DNS records of what it deletes, the
granular deletions leave them without publication, and the name stays blocked
(409) until its record is deleted by hand. `NamesReleased` says exactly that.
`RegistryMatchesServices` and `NamesDistinct` exempt edited names, those that
`POST` and `PATCH /publications` give included: the code checks and registers
nothing there, so nothing holds of them.

### PeerFleet

Sites with their gateway, peers with address, `enabled` and `status`.
`provision_gateway` is `LoadSite`, `SelectIp`, `CommitNewPeer`. The sweep is
`SelectPeers` and `CommitSweep`, run by the worker. No code in the repository
writes `last_handshake`, so that only the NULL branch of the sweep can be taken
and a site's status never changes; the model keeps to that. A deletion of a
site reads its peers (`dirty`) before it deletes them: one that has been moved
away since goes with it. PATCH of a site (`CommitPatchSite`) may set
`gateway_peer_id` to anything, and a peer may have no site (`NoSite`). A `peers`
row that `_upsert_peer` writes for a published service is one that `POST /peers`
or `PATCH /peers` could have written.

### HealthSweep and WorkerJobs

A service is what its probe would come to: `off`, a result of any colour, or an
exception that `checker.py` does not catch. The latter is possible because no
schema validates `healthcheck_path` and `backend_port`: a path without its
slash makes httpx raise `InvalidURL`, which is no `HTTPError`, and a port beyond
65535 makes `open_connection` raise `OverflowError`, which is no `OSError`.
`BeginSweep` reads the enabled services, `CommitSweep` commits a row for each of
them, `RaiseSweep` commits none. So one such service ends the checks of all of
them for as long as it is enabled, although `apps/worker/README.md:12` says of
the sweep that it "probes every enabled service"; `ServicesWatched` assumes that
there is none, and fails without that. A probe may also hang: `timeout=5.0` bounds
connecting and each read of httpx, not the response, so that an endpoint which
streams without end is read without end (`checker.py:45`), and no Celery time
limit stops the task. `hung` are the services of a sweep whose probes do; the
sweep may still end, when the endpoint does, but nothing promises it.

`WorkerJobs` extends `PeerFleet` and instantiates `HealthSweep`: a step of either
one, with at most `Pool` jobs running. `worker` has one process per CPU, so that
`Pool = 1` is the tightest case. Of each job at most one runs at a time: a broker
that delivers one twice is not modelled. The hourly render is in `ConfigRevisions`.

### Inventory

The tables that refer to one another, each row reduced to its keys. A request
that writes a single row is one step: whatever it reads before, a missing row or
a broken foreign key at its commit makes it fail without an effect. A deletion is
two: `BeginDelete` has read the children (`ReadSite`, `ReadNode`, `ReadService`,
`ReadPub` say which: `cascade="all, delete-orphan"` deletes them, a plain
relationship sets their key to NULL), `CommitDelete` writes to what was read and
adds the `ON DELETE` actions of the database (`NodesGone`, `ServicesGone`,
`PubsGone`). The SELECTs of one deletion are one step: what happens between them
is, for the rows they return, the same as what happens before or after. An
UPDATE of a row that has gone fails the request, a DELETE of one does not, as
SQLAlchemy's unit of work has it.

### Accounts

`Start`, `SeedCount`, `SeedInsert`, `SeedSkipped`, `Stop` are the life of an API
process (`main.py`, `db/seed.py`); `Login` gives a token that claims the role of
that moment; `Begin` authenticates: the row must be there, active, and have the
rank (`Granted`, `Required`). Then the reads of the handler and its commit.
`overtaken` is a history variable: the actor's row has been changed since it was
read. Deployment numbers are here because they are taken by a request with the
same shape.

### DeployScript

One action per command, each with its failure: hidden (`|| true`), a warning,
or an exit (`set -e`). `Lost` is the end of the SSH session or of the server.
Beside the script, `Crash` and `Start` are the backend's container: docker
restarts it (`restart: unless-stopped`), and `docker-entrypoint.sh` runs `alembic
upgrade head` before it serves, which fails when the schema has a revision that
the image does not know. That is the window the script leaves open: between a
migration and an `up` that fails or never comes, a restart of the old container
does not come back.

`backup.sh` is `Backup` (the dump), then `Archive`: the one-off container that runs
`tar` is a backend container too, and its entrypoint migrates the database, with
the image that was built last, after the dump and before the deployment's own
migration. `ByHand` runs `backup.sh` between deployments, as
`docs/deployment.md:57-64` has it; then that migration is the only one. One script
runs at a time, a backup by hand included. `dumps` are the files of `backup.sh` by
age: a failed `pg_dump` leaves a broken file and, because of `pipefail`, no
retention.

Versions are commits in the order of their schemas; any commit may be deployed.

## 3. Runs

Passing:

| Run | Instance | Shows |
|---|---|---|
| `Serial` | 1 request, 2 publications, 3 revisions, all operations, all faults | refinement of `ConfigLedger`; unique revision numbers |
| `Concurrent` | 2 requests, 1 publication, 3 revisions, the operations that write or lock, all faults, fair | numbering without gaps, honest flags, append-only history, what a request that met no other relies on; every request ends |
| `Render` | registries of up to 3 publications that vary names, ports, or looks | the document is exact and independent of row order; overlaps are reported |
| `PublishConcurrent` | 2 requests, 2 services, 2 publications, 1 name, 2 records, 2 peer rows, every operation of the table in section 2 | as to names that only `POST` and `DELETE /published-services` have to do with, both tables agree and no two publications share one; only granular deletions leave a name blocked; links resolve; a request that met no other uses the client it created and adds no second row for a client |
| `Fleet` | 2 requests and the sweep, 2 sites, 2 peers, subnet of 3 hosts, all operations; PATCH of a peer sets its site | no peer outlives its site, only its deletion or move or a PATCH of the site separates a gateway from its site; an address allocated by a request that met no other is free |
| `Jobs` | both sweeps in 1 process, 1 request to the fleet, any edits of 2 services, fair | if no endpoint makes a probe hang for ever, the mark of a disabled peer is cleared after it is enabled, and an enabled service is checked again and again |
| `Inventory` | 2 deletions in flight, 2 sites, 2 nodes, 2 services, 1 publication, any other edits | no reference to a row that is gone; nothing is lost without a cause |
| `Accounts` | 2 processes, 2 requests, 2 users, 2 addresses, 2 deployments | authority is current; one seed; who may appoint, and how the last superadmin may go; deployment numbers without a gap |
| `Deployments` | 3 commits, one unfit, 2 dumps retained, backups by hand, fair restarts | the schema covers the code; a deployment's newest dump is the state before it; a restorable dump is kept; what was reported deployed comes back |

Violations, each a finding quoted in `PROJECT.json`:

| Run | Shows |
|---|---|
| `LostRoute` | two requests that only create and apply: the edge loses a route that is registered and enabled |
| `SharedName` | one request at a time: a service renamed by PATCH does not hold its new name in the DNS registry, and a second one takes it |
| `FailedDeployment` | the new image keeps running after its failed health check |

One more disagreement with the documentation has no run of its own, since it
is about a column that is not read, not about behaviour: `docs/architecture.md:69-70` says that "services with
`exposure_mode=private` are not given a public route", and the renderer
(`traefik.py:92-96`) does not look at that column. Private is its default
(`schemas/service.py:22`), which services of `POST /services` keep unless told
otherwise; their publications are routed as any other. The rows of `TraefikRender`
have the column (`exposure`), `Render` varies it, and `DocumentIsExact` says what
the code does: every enabled publication has its route, a private service's
included. Only the published-service API, which sets `public`
(`published.py:199`), agrees with both.

Where the code is right for a request that meets no other and wrong for two,
the property is stated for the first (`RevisionsAddressable` in `Serial`,
`SoloRevisionIsNew`, `SoloApplyIsLive`, `SoloClientIsOwn`, `SoloPeerIsUnique`,
`SoloAddressIsFree`, with a history variable that says whether another request
was in flight). Each of them fails as soon as that condition is dropped: two
renders take one revision number or store one content twice, two creations
take one wg-easy client or insert its row twice, two provisionings take one
address. So too for what a concurrent change of the actor's row does to a request
(`overtaken` in `Accounts`): two superadmins may demote each other at once; and two
deployments recorded at once take one number, which `DeploymentsContiguous` does
not exclude. `mutants` in `PROJECT.json` are other ways to break them. The model
also shows, without a run of its own, that PATCH leaves the linked DNS record
with the old name, that a request which fails after the file write leaves a
document at the edge that no revision holds (`Leak` in `ConfigLedger`), and that
an empty path prefix gives the rule of a missing one without a conflict
message (`WebRule` and `ConflictKey` in `TraefikRender`).

Why the bounds are enough. Every race here is between the read of one
transaction and the commit of another; two requests show all of them, and three
rows are enough for a tie, a gap and a row that is reused. The bounds are
`MaxConfigs` and `MaxDeploys`, in the guards of `Begin`, `MaxClients`, in the
guard of `PostClient`, `MaxFiles`, in that of a failed `Backup` (nothing prunes
the broken dumps), and the finite sets of identities; names that are freed are used
again. `PublishConcurrent` has one name, so that its two services contend for it;
`Inventory` has one publication, which two services may be given. Symmetry is used only in runs without liveness. The theorems of section
4 have no bound.

Fairness. `FairSpec` of `ConfigRevisions` asks for strong fairness of each
request's steps: the event loop resumes every task that can run, and a
transaction that waits for a row lock is queued by PostgreSQL in order of
arrival, so it is not overtaken for ever by others that lock the row again and
again. Arrivals and faults are not fair. `JobsSpec`
of `WorkerJobs` asks for strong fairness of the start of each sweep (Celery beat
queues both for ever and the broker keeps their order, so that neither can be
passed over for ever where both wait for one process), of the steps of the
staleness sweep (it may be cut off, and is tried again), and for weak fairness
of the end of a health sweep in which no probe hangs (`EndSweep`), which is what
the timeouts of connecting and reading bring about. Of a sweep that hangs it
asks nothing. What both properties of `Jobs` need beyond that is their hypothesis
`NoneHangsForever`, an assumption about the probed endpoints and not about the
code: without it both fail, because one response without end keeps the only
worker process. `MarkSettles` assumes moreover that deletions end: an unlucky one
makes a sweep fail as a whole, and endlessly many of them could starve it.
`ServicesWatched` assumes that probes stop raising and that the worker is no
longer cut off; it assumes nothing about edits and deletions, which may go on for
ever. `DeployScript` asks for weak fairness of the container's start, which is
docker's restart policy, and for nothing of the scripts: a command may take for
ever (the curl of `healthcheck.sh` has no time limit), so that nothing says that a
deployment ends.

## 4. Proofs

`ConfigRevisionsProofs`, for any sets of requests, publications and routes, any
operations, faults and bound:

* `TypeCorrect`: `Spec => []TypeOK`
* `RevisionsContiguous`: `Spec => []NoRevisionGaps`
* `AppliedHonest`: `Spec => []AppliedWasServed`
* `HistoryAppendOnly`: `Spec => RevisionsAppendOnly`

None of these is inductive. A number is taken long before it is committed, so
`NoRevisionGaps` needs `TakenFollows`: a number in a transaction already follows a
committed one, which stays there because history is append-only. A flag is set
from the outcome of a write that lies steps back, so `AppliedWasServed` needs
`OkServed` (a successful write has been served) and `RowHolds` (a reused row has
the content that was rendered). `LateFields` and `EditsChosen` say where in the
transaction these fields mean something. Together they are `IInv`; `GoodTx` states
it for one transaction over given tables, so that a step of one request is
checked for that request alone (`LocalStep`), with `CommitRows` for the only step
that changes the rows. Assumptions: the named `ASSUME`s of `EdgeRoutes` and
`ConfigRevisions` (values are distinct, operations and faults are known ones).

`ConfigRevisionsAloneProofs`, for the same constants:

* `AloneAppliesLive`: `Spec => SoloApplyIsLive`
* `AloneRevisionIsNew`: `Spec => SoloRevisionIsNew`
* `NumbersNameRevisions`: `Spec /\ []OneAtATime => []RevisionsAddressable`
* `ImplementsLedger`: `Spec /\ []OneAtATime => AtomicWhenAlone`

The first two are about a request that meets no other, among requests that do.
Between its first query and its commit it relies on what it has read, so the
invariant is what it knows (`Knows`): the publication is as it was loaded
(`ReadsTrue`); the content is the document of the registry it is about to commit,
or that of the revision it rolls back to, and is in the file once `ok`
(`ContentTrue`); its number follows every other and was taken for a new content
(`NumberTrue`); each operation goes its own way through the program (`OnItsWay`).
With `SoloOnly`, a request that is still alone really has nobody beside it, this is
`AloneInv`. The other two need that requests come one after another,
`OneAtATime`, since with two in flight both are false, as section 3 says; `Serial`
checks them on an instance with one request. There the invariant is `SerialInv`:
every request is alone, and rows are numbered by their place, so that the number
is the position by which the ledger addresses a revision. The refinement goes
through the actions: only `Commit` is a step of the ledger (`CommitAdvances`),
an `Abort` after the file was written is its `Leak` (`AbortLeaks`), and everything
else stutters.

`TraefikRenderProofs`, for registries of any size in any order of rows:

* `RenderingIsDeterministic`: `Spec => []Deterministic`
* `ConflictsAreCounted`: `Spec => []ConflictsCounted`
* `NoReportNoOverlap`: `Spec => []NoConflictNoOverlap`, if no path prefix is empty
* `DocumentFollowsTable`: `Spec => []DocumentIsExact`, if no middleware profile is
  named `cp-maintenance`
* `RouteIsOwn`: `Spec => []OwnRoutes`; a publication whose name no other has gets its
  own route whatever else there is, which is what `EdgeRoutes` assumes of `Rendered`

`DocOf` is the document as a function of a set of publications: of those with one
name, the last. The invariant says that the document is `DocOf` of what has been
routed so far (`DocSoFar`), that what is left is sorted and comes after it
(`InOrder`), and of the conflict loop that the dictionary has the keys of the rows
compared so far, with a message for each row beyond those (`Counted`). `DocGrows`
is the step of the routing loop: a publication that comes after all others
overrides those of its name and nothing else. That a table can be sorted at all
(`SortedExists`) needs no induction: the place of a row is the number of rows that do
not come after it, which is injective because ids are. The two hypotheses are
the two gaps of the code: `''` and NULL are one rule and two keys, and a profile
is a free string. The assumptions are that the registries are tables, finite and
with a primary key and integers to sort by (`RegistriesAssumption`), and that
None is no resolver (`NoneAssumption`).

`DeployScriptProofs`, for any number of commits and any retention:
`TypeCorrect`, `SchemaCovers` (`Spec => []SchemaCoversCode`), `PointKept`
(`Spec => []RestorePoint`), `DumpsKept` (`Spec => BackupKept`) and `Restartable`
(`Spec => [](reported => Knows(running))`), the safety half of `ComesBack`. The
strengthening is `MigratedBeforeUp`: from the migration on, the schema is that of
the image that is started next, also by the second `up` after a failed health
check; `RunsLatest`: from the first `up` on, that image runs; `RestartSafe`: what
reported success runs with its own schema, and it is also the image that a backup
by hand would migrate with. So the entrypoint's migration changes nothing for as
long as the last deployment reported success; after one that was cut off it may,
in the container that serves and in the one that `backup.sh` runs, and
`SchemaCovers` holds of these steps too. `PointKept` needs `CleanStart` (until its
dump, a deployment that follows a success finds the schema of what runs) and, as
`DumpsKept` does, `RetainedKeeps`: the retention keeps the newest dump. `DumpReady`
says that this one is good while the retention is still to come.

`AccountsProofs`, for any sets of requests, processes, users and addresses:
`TypeCorrect`, `Authority`, `SeedFirst`, `AdminsAppoint`, `LastLeaves`,
`Contiguous`, one for each property of the run. `SeedFirst` needs `FirstHeld`:
once there are users, one of them has the address of the seed, because the first
user is the seed and no request changes an address; so that the unique key
refuses a second one. `GoodRequests` (`GoodTx` for one transaction) says that the
actor's row allows the request unless `overtaken`, that a target exists, and that a
number as read is that of a committed deployment or 0; `TargetsApart` that two
requests do not insert one identity.

`InventoryProofs`, for any sets of rows and any number of deletions in flight:
`TypeCorrect`, `Resolve`, `Losses`. Here `TypeOK /\ ReferencesResolve` is
inductive as it stands: the deletions need to know nothing of each other, since
each commit removes what refers to the rows it removes at that moment. The
lemmas are about `CommitDelete`, whose rows that stay must refer to rows that
stay.

`PeerFleetProofs`, for any sets of requests, sites and peers and a subnet of any
size: `TypeCorrect`, `AddressFree` (`SoloAddressIsFree`), `Consistent`
(`FleetConsistent`). An address is chosen in one step and inserted in another, so
the invariant needs `SoloFree` (what a request alone has allocated is still free)
and for this `SoloAlone` (a request that has met no other is alone: only the sweep
may run beside it, and it writes no address, `SweptType`). `GoodTask` says that an
edit or a deletion is of one peer; together with `SitesLive`, the first half of
`FleetConsistent`, they are `IInv`. `BeginStep`, `LocalStep` and `FinishStep` are
about a transaction that arrives, reads or ends, and every action is one of these.
A peer's site is one there is or none (`SiteExists`); a PATCH may name any peer as
the gateway, so that the second half of `FleetConsistent` is about the step and not
about the state. `StepParts` goes through the actions that could part a site from its gateway.
That a set of addresses has a least one (`MinIn`) is well-foundedness of `<`.
`ComponentsImplemented` says that `WorkerJobs`, where both sweeps share the worker,
implements `PeerFleet` and `HealthSweep`; `FleetKeptByJobs` carries the theorems
over.

`PublishedServicesProofs`, for any sets of requests, services, publications, names,
records and rows and any number of clients: `TypeCorrect`, `Resolve`,
`RegistryAgrees`, `Distinct`, `Released`, `ClientIsOwn`, `PeerIsUnique`, one for each
property of the run. The hard step is a deletion, which deletes publications it
read two steps before, wherever they are by now, and with `DELETE
/published-services` the records it selected then; it unlinks others. `Watched` says
what has become of them: a record that was selected still belongs to one of these
publications, has been left without one by another deletion, or has been edited;
one that belongs to one of them by now was selected, unless it has been edited; and
one that the flush of such a request holds has been edited. `OneRecord` is the unique
key; with the registry it gives `NamesDistinct`. `DeletionStep` says of the four
kinds of deletion alike what stays, and `StepLeaves` goes through the actions that
can leave a record without publication, which is `Released`. `OwnClient` and
`OwnPeer` follow a request alone through wg-easy and the `peers` table
(`SoloAlone`). `BeginStep`, `LocalStep` and `FinishStep` are again the three kinds of
step, and `FinishStep` states what a commit may do to the records without disturbing
the deletions in flight.

Assumptions: the named `ASSUME`s of the modules, which TLC evaluates in the runs.

Only model-checked: liveness under fairness, which is out of the prover's reach.
That is `EveryRequestEnds` of `ConfigRevisions`, `MarkSettles` and
`ServicesWatched` of `WorkerJobs` with `HealthSweep`, and the liveness half of
`ComesBack` of `DeployScript`. Every safety property that a
passing run checks is also a theorem.

## 5. Plan

In order:

1. Composition of `PublishedServices` with `ConfigRevisions`, so that a change of
   name reaches the edge; of `Inventory` with both, for a site whose deletion
   takes routed services with it.
2. `DeployScript`: the containers of the worker and of beat.

## 6. Not modelled

* *Reads*: the frontend, listings and the dashboard (`api/v1/health.py`,
  `tls.py`, `settings.py`) change no state.
* *Audit log*: a row is written by the transaction of the change it records, and
  is there exactly when the change is; a property about it would restate that.
* *Columns that nothing else reads*: descriptions, a site's archiving, a peer's
  keys, the status of a deployment, the exposure of a service (section 3). Their
  requests write one row and nothing depends on the value.
* *Scripts at once*: a backup by hand during a deployment, and two deployments
  that are not both started by the workflow, whose concurrency group allows one.
* *Restore*: `restore.sh` pipes a dump into psql, which goes on after each
  statement that fails. What it leaves in a database that has the tables already
  is a matter of psql and of the dump, not of the script.
* *Cryptography, texts*: `core/security.py`, key generation, passwords and the
  text of configurations are data.
* *The environment*: Traefik, docker, alembic, PostgreSQL, SQLAlchemy, Celery and
  wg-easy are modelled only by what the code relies on. `jobs.py` shares one pool
  of database connections between event loops that end with each job; what a
  connection of an ended loop does is left to the drivers, and a job that fails
  because of it is a `CutSweep` or an `Abort`.
* The file `control-plane.yml.tmp` is written and renamed without an await in
  between, by one process, and is not modelled apart from its rename.
