----------------------------- MODULE DeployScript -----------------------------
(***************************************************************************)
(* infra/scripts/deploy.sh: one deployment on the server, command by       *)
(* command, with the failures that `set -e' turns into an exit and those   *)
(* that `|| true' hides, and the loss of the SSH session that runs it.     *)
(* The workflow's concurrency group runs one deployment at a time; it may  *)
(* run any commit, an older one included.  Its first step, backup.sh, is   *)
(* also run by hand between deployments.  Beside the scripts, the backend  *)
(* container may exit at any time; docker starts it again.  Every backend  *)
(* container, the one that backup.sh runs to archive the dynamic configs   *)
(* included, runs the migrations first (docker-entrypoint.sh).             *)
(*                                                                         *)
(* A version is a commit: its image and the migrations it knows.  Docker,  *)
(* compose and alembic are modelled as the script uses them.               *)
(***************************************************************************)
EXTENDS Naturals, Sequences

CONSTANTS
    Versions,  \* number of commits; a later one has a newer schema
    Unfit,     \* commits whose backend never becomes ready
    Keep,      \* number of dumps that the retention of backup.sh leaves
    MaxFiles   \* bound on the dumps stored, the broken ones included

ASSUME VersionsAssumption == Versions \in Nat \ {0}
ASSUME UnfitAssumption    == Unfit \subseteq 1 .. Versions
ASSUME KeepAssumption     == /\ Keep \in Nat \ {0}
                             /\ MaxFiles \in Nat /\ Keep <= MaxFiles

None == 0

VARIABLES
    pc,        \* the command to be run
    tree,      \* the commit that rsync put into $DEPLOY_PATH
    prev,      \* PREV_BACKEND_IMAGE
    latest,    \* the image compose gives the backend service
    tagged,    \* the image tagged control-plane-backend:rollback
    running,   \* the image of the backend container
    serving,   \* it has come past its entrypoint
    schema,    \* the migrations applied to the database
    dumps,     \* the stored dumps by age: the schema in it, {} in a broken one
    reported,  \* the last deployment has reported success
    before,    \* history: what ran when the deployment began
    clean      \* history: it followed a success, and its dump has not failed

script == <<pc, tree, prev, latest, tagged, reported, before, clean>>
vars   == <<script, running, serving, schema, dumps>>

Version == 1 .. Versions
Image   == Version \cup {None}

Init == /\ pc = "off"
        /\ tree = None /\ prev = None /\ latest = None /\ tagged = None
        /\ running = None /\ serving = FALSE /\ schema = None
        /\ dumps = <<>>
        /\ reported = FALSE /\ before = None /\ clean = FALSE

\* The script exits; what it has done stays.
Exit == pc' = "off"

\* The workflow: sync the tree, then run the script, which stops at once if it
\* finds no ADMIN_DOMAIN.
Begin == /\ pc = "off"
         /\ tree' \in Version
         /\ before' = running /\ clean' = reported
         /\ prev' = None
         /\ reported' = FALSE
         /\ pc' \in {"backup", "off"}
         /\ UNCHANGED <<latest, tagged, running, serving, schema, dumps>>

\* Mutant: the oldest ones stay (ls -1tr).
RetainedOldest(s) == IF Len(s) > Keep THEN SubSeq(s, 1, Keep) ELSE s

\* ls -1t | tail -n +15 | xargs rm: the newest ones stay.
Retained(s) == IF Len(s) > Keep THEN SubSeq(s, Len(s) - Keep + 1, Len(s)) ELSE s

\* Mutant: without pipefail, a failed pg_dump goes on to the retention.
FailedRetained(s) == Retained(Append(s, {}))

\* A failed pg_dump: gzip leaves a file, and the script ends at this line.
Failed(s) == Append(s, {})

\* backup.sh is run by hand, while no deployment is under way.
ByHand == /\ pc = "off" /\ tree # None
          /\ pc' = "backup by hand"
          /\ UNCHANGED <<tree, prev, latest, tagged, running, serving, schema,
                         dumps, reported, before, clean>>

\* After backup.sh: for deploy.sh a failure is a warning.
AfterBackup == IF pc \in {"backup", "archive"} THEN "images" ELSE "off"

\* backup.sh: the dump of the database.  A failure ends the script.
Backup == /\ pc \in {"backup", "backup by hand"}
          /\ \/ /\ Len(dumps) <= MaxFiles
                /\ dumps' = Append(dumps, {schema})
                /\ pc' = IF pc = "backup" THEN "archive" ELSE "archive by hand"
                /\ UNCHANGED clean
             \/ /\ \/ Len(dumps) < MaxFiles /\ dumps' = Failed(dumps)
                   \/ UNCHANGED dumps
                /\ pc' = AfterBackup
                /\ clean' = FALSE
          /\ UNCHANGED <<tree, prev, latest, tagged, running, serving, schema,
                         reported, before>>

\* Mutant: the database does not notice that it is ahead of the code.
KnowsAny(v) == TRUE

\* alembic finds the revision of the database among those of its own code.
Knows(v) == schema <= v

\* Mutants: the one-off container does not run the migrations; it runs one
\* that is newer than the tree.
MigratedSkipped(v) == schema
MigratedPast(v) == v + 1

\* The schema after `alembic upgrade head' of the code v.
Migrated(v) == v

\* compose run builds the image of a service that has none.
ArchiveImage == IF latest = None THEN tree ELSE latest

\* backup.sh: `compose run backend tar' archives the dynamic configs in a
\* container of the service's image, whose entrypoint migrates the database
\* first; that anything here failed is hidden.  Then the retention.
Archive == /\ pc \in {"archive", "archive by hand"}
           /\ latest' \in {latest, ArchiveImage}
           /\ \/ /\ latest' \in Version /\ Knows(latest')
                 /\ schema' = Migrated(latest')
              \/ UNCHANGED schema
           /\ dumps' = Retained(dumps)
           /\ pc' = AfterBackup
           /\ UNCHANGED <<tree, prev, tagged, running, serving, reported, before,
                          clean>>

\* The image of the running backend container; a failure is hidden.
Images == /\ pc = "images"
          /\ prev' \in {running, None}
          /\ pc' = "build"
          /\ UNCHANGED <<tree, latest, tagged, running, serving, schema, dumps,
                         reported, before, clean>>

\* compose build: the service's image becomes that of the tree, or the
\* script exits.
Build == /\ pc = "build"
         /\ \/ latest' = tree /\ pc' = "migrate"
            \/ UNCHANGED latest /\ Exit
         /\ UNCHANGED <<tree, prev, tagged, running, serving, schema, dumps,
                        reported, before, clean>>

\* compose run backend alembic upgrade head, with the image just built.
Migrate == /\ pc = "migrate"
           /\ \/ /\ Knows(latest)
                 /\ schema' = Migrated(latest)
                 /\ pc' = "up"
              \/ UNCHANGED schema /\ Exit
           /\ UNCHANGED <<tree, prev, latest, tagged, running, serving, dumps,
                          reported, before, clean>>

\* Mutant: a container that there is already is kept (--no-recreate).
UpKept == /\ pc = "up"
          /\ running' = IF running = None THEN latest ELSE running
          /\ pc' = "health"
          /\ UNCHANGED <<tree, prev, latest, tagged, serving, schema, dumps,
                         reported, before, clean>>

\* compose up: a container of another image is replaced.
Up == /\ pc = "up"
      /\ \/ /\ running' = latest
            /\ serving' = (serving /\ running = latest)
            /\ pc' = "health"
         \/ UNCHANGED <<running, serving>> /\ Exit
      /\ UNCHANGED <<tree, prev, latest, tagged, schema, dumps, reported, before, clean>>

\* healthcheck.sh: retries, then gives up; a fit backend may be too slow.
Health == /\ pc = "health"
          /\ \/ /\ serving /\ running \notin Unfit
                /\ reported' = TRUE
                /\ Exit
             \/ UNCHANGED reported /\ pc' = "tag"
          /\ UNCHANGED <<tree, prev, latest, tagged, running, serving, schema,
                         dumps, before, clean>>

\* docker tag, if there is a previous image; a failure is hidden.
Tag == /\ pc = "tag"
       /\ tagged' \in {tagged} \cup ({prev} \ {None})
       /\ pc' = "again"
       /\ UNCHANGED <<tree, prev, latest, running, serving, schema, dumps,
                      reported, before, clean>>

\* compose up --no-build, again from the service's image; a failure is
\* hidden, and the script exits with an error.
UpAgain == /\ pc = "again"
           /\ running' \in {running, latest}
           /\ serving' = (serving /\ running' = running)
           /\ Exit
           /\ UNCHANGED <<tree, prev, latest, tagged, schema, dumps, reported,
                          before, clean>>

\* The SSH session ends, the server reboots.
Lost == /\ pc # "off"
        /\ Exit
        /\ UNCHANGED <<tree, prev, latest, tagged, running, serving, schema,
                       dumps, reported, before, clean>>

\* The backend exits, or the server reboots.
Crash == /\ serving
         /\ serving' = FALSE
         /\ UNCHANGED <<script, running, schema, dumps>>

\* docker-entrypoint.sh in a container that is new, or restarted by docker:
\* alembic upgrade head with the code of the image.  If alembic does not know
\* the schema the container exits, for docker to restart it again.
Start == /\ running # None /\ ~serving
         /\ Knows(running)
         /\ schema' = Migrated(running)
         /\ serving' = TRUE
         /\ UNCHANGED <<script, running, dumps>>

Script == Backup \/ Archive \/ Images \/ Build \/ Migrate \/ Up \/ Health \/ Tag \/ UpAgain

Next == Begin \/ ByHand \/ Script \/ Lost \/ Crash \/ Start

Spec == Init /\ [][Next]_vars

\* Docker restarts a container for as long as it exits (restart:
\* unless-stopped).  Nothing is assumed of the scripts: a command may take for
\* ever.
FairSpec == Spec /\ WF_vars(Start)

-----------------------------------------------------------------------------
(* Properties.                                                             *)

\* Every variable has its type.
TypeOK == /\ pc \in {"off", "backup", "archive", "backup by hand",
                     "archive by hand", "images", "build", "migrate", "up",
                     "health", "tag", "again"}
          /\ {tree, prev, latest, tagged, running, schema, before} \subseteq Image
          /\ {serving, reported, clean} \subseteq BOOLEAN
          /\ dumps \in Seq(SUBSET Image) /\ Len(dumps) <= MaxFiles + 1

\* However often deployments fail halfway, are cut off, or ship an older
\* commit, and whenever a backup migrates the database, the backend never runs
\* against a schema older than its code.
SchemaCoversCode == running <= schema

\* The way back: from the dump of a deployment that follows one that reported
\* success until its end, the newest dump has the schema of the code that ran
\* when it began, although its backup, its own migration and the restarts of
\* the container may all have migrated the database since.
RestorePoint == clean /\ pc \in {"archive", "images", "build", "migrate", "up",
                                 "health", "tag", "again"}
                    => dumps # <<>> /\ dumps[Len(dumps)] = {before}

\* Once there is a dump that can be restored there always is one, however many
\* later backups fail and leave broken files among those that are counted.
BackupKept ==
    [][(\E i \in DOMAIN dumps : dumps[i] # {})
         => \E i \in DOMAIN dumps' : dumps'[i] # {}]_vars

\* After a deployment that reported success, a backend that exits comes back,
\* until the next deployment: its code knows the schema it was deployed with,
\* whatever deployments were cut off before.
ComesBack == reported ~> (serving \/ ~reported)

\* Claimed by the script and by docs/ci-cd.md: if the health check fails,
\* the deployment rolls back to what ran before; here when the previous image
\* is known and has been tagged.
RolledBack == [][UpAgain /\ before # None /\ tagged = before
                    => running' = before]_vars
===============================================================================
