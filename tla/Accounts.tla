-------------------------------- MODULE Accounts --------------------------------
(***************************************************************************)
(* Users, roles and tokens (api/v1/auth.py, api/deps.py), the superadmin   *)
(* that a starting process seeds (db/seed.py, main.py), and the deployment *)
(* numbers an operator's request takes (api/v1/deployments.py).            *)
(*                                                                         *)
(* A request authenticates once, when it arrives, and interleaves with     *)
(* others at every await that follows.  Its last flush and its commit, of  *)
(* the change and of its audit row, are one step: a row lock or a pending  *)
(* unique key makes the others wait for it.                                *)
(***************************************************************************)
EXTENDS Naturals, Sequences

CONSTANTS
    Req,         \* the requests that may be in flight at once
    Proc,        \* the API processes
    User,        \* identities of users
    Email,       \* e-mail addresses
    First,       \* settings.first_superadmin_email
    NoUser,      \* no user
    NoToken,     \* a user without a token
    MaxDeploys   \* bound on the recorded deployments, in the guard of Begin

ASSUME FirstAssumption  == First \in Email
ASSUME NoUserAssumption == NoUser \notin User
ASSUME MaxAssumption    == MaxDeploys \in Nat

Role == {"viewer", "operator", "superadmin"}
Rank == [viewer |-> 0, operator |-> 1, superadmin |-> 2]

ASSUME NoTokenAssumption == NoToken \notin Role

VARIABLES
    users,    \* the committed users
    tokens,   \* the role claimed by the newest token of each user
    deploys,  \* committed deploy_revisions, in commit order
    proc,     \* the processes
    req       \* the transactions of the requests

vars == <<users, tokens, deploys, proc, req>>

Row    == [email : Email, role : Role, active : BOOLEAN]
Deploy == [number : Nat \ {0}, rollback : BOOLEAN]
Op     == {"createUser", "setRole", "setActive", "deploy"}

(* actor: the subject of the token; seen: its row, as authentication read   *)
(* it; target: the user inserted or updated; email, role, active: the new   *)
(* values; last: the newest number as read; overtaken (history): the        *)
(* actor's row has changed since it was read.                               *)
Request == [pc : {"idle", "read", "commit"}, op : Op,
            actor : User \cup {NoUser}, seen : Row,
            target : User \cup {NoUser}, email : Email, role : Role,
            active : BOOLEAN, last : Nat, overtaken : BOOLEAN]

Unseen == [email |-> First, role |-> "viewer", active |-> FALSE]
Idle == [pc |-> "idle", op |-> "deploy", actor |-> NoUser, seen |-> Unseen,
         target |-> NoUser, email |-> First, role |-> "viewer",
         active |-> FALSE, last |-> 0, overtaken |-> FALSE]

Known    == DOMAIN users
IsAdmin(row) == row.active /\ row.role = "superadmin"
Admins   == {u \in Known : IsAdmin(users[u])}
Fresh(u) == u \notin Known /\ \A r \in Req : req[r].target # u

Init == /\ users = [u \in {} |-> Unseen]
        /\ tokens = [u \in User |-> NoToken]
        /\ deploys = << >>
        /\ proc = [p \in Proc |-> "down"]
        /\ req = [r \in Req |-> Idle]

Put(f, k, v) == [x \in DOMAIN f \cup {k} |-> IF x = k THEN v ELSE f[x]]
Finish(r)    == req' = [req EXCEPT ![r] = Idle]

\* Mutant: the database does not enforce the unique key of users.email.
TakenNever(e) == FALSE

\* The unique key of users.email.
Taken(e) == \E u \in Known : users[u].email = e

-----------------------------------------------------------------------------
(* Starting processes.                                                     *)

\* ensure_first_superadmin: SELECT count(*) FROM users.
Nobody == Known = {}

Start(p) ==
    /\ proc[p] = "down"
    /\ proc' = [proc EXCEPT ![p] = "count"]
    /\ UNCHANGED <<users, tokens, deploys, req>>

SeedCount(p) ==
    /\ proc[p] = "count"
    /\ proc' = [proc EXCEPT ![p] = IF Nobody THEN "insert" ELSE "up"]
    /\ UNCHANGED <<users, tokens, deploys, req>>

\* The INSERT of the seed; lifespan catches its failure and goes on.
SeedInsert(p) ==
    /\ proc[p] = "insert"
    /\ IF Taken(First)
       THEN UNCHANGED users                                \* IntegrityError
       ELSE \E u \in User :
              /\ Fresh(u)
              /\ users' = Put(users, u, [email |-> First, active |-> TRUE,
                                         role |-> "superadmin"])
    /\ proc' = [proc EXCEPT ![p] = "up"]
    /\ UNCHANGED <<tokens, deploys, req>>

\* The database cannot be reached: the process serves without a seed.
SeedSkipped(p) ==
    /\ proc[p] \in {"count", "insert"}
    /\ proc' = [proc EXCEPT ![p] = "up"]
    /\ UNCHANGED <<users, tokens, deploys, req>>

\* A crash or a new deployment; what it does to requests is Abort.
Stop(p) ==
    /\ proc[p] # "down"
    /\ proc' = [proc EXCEPT ![p] = "down"]
    /\ UNCHANGED <<users, tokens, deploys, req>>

-----------------------------------------------------------------------------
(* Tokens.                                                                 *)

\* POST /auth/login with the right password.  Older tokens of the user stay
\* valid; they differ in a claim that nothing reads.
Login(u) ==
    /\ u \in Known /\ users[u].active
    /\ tokens' = [tokens EXCEPT ![u] = users[u].role]
    /\ UNCHANGED <<users, deploys, proc, req>>

-----------------------------------------------------------------------------
(* Requests.                                                               *)

Satisfies(actual, required) == Rank[actual] >= Rank[required]

\* Mutant: users are changed by operators.
RequiredOperator(op) == "operator"

\* The dependency each handler declares.
Required(op) == IF op = "deploy" THEN "operator" ELSE "superadmin"

\* Mutants: a token is enough for a disabled user; its role claim is believed.
GrantedDisabled(a, op) == Satisfies(users[a].role, Required(op))
GrantedByClaim(a, op) == users[a].active /\ Satisfies(tokens[a], Required(op))

\* get_current_user and require_role: the row decides, not the token.
Granted(a, op) == users[a].active /\ Satisfies(users[a].role, Required(op))

\* A request arrives with a token and is authenticated; if not, it ends with
\* 401 or 403 and no effect.
Begin(r, op) ==
    /\ req[r].pc = "idle"
    /\ \E p \in Proc : proc[p] = "up"
    /\ op = "deploy" => Len(deploys) < MaxDeploys
    /\ \E a \in Known :
         /\ tokens[a] # NoToken
         /\ Granted(a, op)
         /\ req' = [req EXCEPT ![r] = [Idle EXCEPT !.pc = "read", !.op = op,
                                          !.actor = a, !.seen = users[a]]]
    /\ UNCHANGED <<users, tokens, deploys, proc>>

\* create_user: the check for the address (409).
ReadEmail(r) ==
    /\ req[r].pc = "read" /\ req[r].op = "createUser"
    /\ \E e \in Email, x \in Role, u \in User :
         /\ Fresh(u)
         /\ req' = [req EXCEPT ![r] =
                       IF Taken(e) THEN Idle
                       ELSE [@ EXCEPT !.pc = "commit", !.target = u,
                                      !.email = e, !.role = x, !.active = TRUE]]
    /\ UNCHANGED <<users, tokens, deploys, proc>>

\* The row of u in the session of r, which already holds the actor.
Loaded(r, u) == IF u = req[r].actor THEN req[r].seen ELSE users[u]

\* update_user: the UPDATE writes the column that is asked for only if it
\* differs from what was loaded; else the request changes nothing.
ReadTarget(r) ==
    /\ req[r].pc = "read" /\ req[r].op \in {"setRole", "setActive"}
    /\ \E u \in Known :
         \/ /\ req[r].op = "setRole"
            /\ \E x \in Role \ {Loaded(r, u).role} :
                 req' = [req EXCEPT ![r].pc = "commit", ![r].target = u,
                                    ![r].role = x]
         \/ /\ req[r].op = "setActive"
            /\ req' = [req EXCEPT ![r].pc = "commit", ![r].target = u,
                                  ![r].active = ~Loaded(r, u).active]
    /\ UNCHANGED <<users, tokens, deploys, proc>>

Newest == {i \in DOMAIN deploys :
              \A j \in DOMAIN deploys : deploys[j].number <= deploys[i].number}

\* record_deployment: the newest number, 0 if there is none.
LastNumber == IF deploys = << >> THEN {0}
              ELSE {deploys[i].number : i \in Newest}

ReadNumber(r) ==
    /\ req[r].pc = "read" /\ req[r].op = "deploy"
    /\ \E n \in LastNumber :
         req' = [req EXCEPT ![r].pc = "commit", ![r].last = n]
    /\ UNCHANGED <<users, tokens, deploys, proc>>

\* The requests after r has changed the row of u: those of u that are past
\* authentication have been overtaken.
Overtaken(r, u) ==
    req' = [s \in Req |->
              IF s = r THEN Idle
              ELSE IF req[s].actor = u THEN [req[s] EXCEPT !.overtaken = TRUE]
              ELSE req[s]]

\* INSERT of a user.
CommitCreateUser(r) ==
    /\ req[r].pc = "commit" /\ req[r].op = "createUser"
    /\ users' = IF Taken(req[r].email) THEN users          \* IntegrityError
                ELSE Put(users, req[r].target,
                         [email |-> req[r].email, role |-> req[r].role,
                          active |-> TRUE])
    /\ Finish(r)
    /\ UNCHANGED <<tokens, deploys, proc>>

\* The row with the one column that is written.
Updated(q, row) == IF q.op = "setRole" THEN [row EXCEPT !.role = q.role]
                   ELSE [row EXCEPT !.active = q.active]

\* update_user; nothing keeps the last superadmin from being the target.
CommitUpdateUser(r) ==
    /\ req[r].pc = "commit" /\ req[r].op \in {"setRole", "setActive"}
    /\ users' = [users EXCEPT ![req[r].target] = Updated(req[r], @)]
    /\ Overtaken(r, req[r].target)
    /\ UNCHANGED <<tokens, deploys, proc>>

\* Mutants: the number is not increased; a rollback is always offered.
NumberedSame(n)  == [number |-> n, rollback |-> n > 0]
NumberedAlways(n) == [number |-> n + 1, rollback |-> TRUE]

\* The row of the deployment after the one with number n.
Numbered(n) == [number |-> n + 1, rollback |-> n > 0]

CommitDeploy(r) ==
    /\ req[r].pc = "commit" /\ req[r].op = "deploy"
    /\ deploys' = Append(deploys, Numbered(req[r].last))
    /\ Finish(r)
    /\ UNCHANGED <<users, tokens, proc>>

\* An exception, a lost connection, or the end of the process.
Abort(r) ==
    /\ req[r].pc # "idle"
    /\ Finish(r)
    /\ UNCHANGED <<users, tokens, deploys, proc>>

Process(p) == \/ Start(p) \/ SeedCount(p) \/ SeedInsert(p) \/ SeedSkipped(p)
              \/ Stop(p)

Step(r) == \/ \E op \in Op : Begin(r, op)
           \/ ReadEmail(r) \/ ReadTarget(r) \/ ReadNumber(r)
           \/ CommitCreateUser(r) \/ CommitUpdateUser(r) \/ CommitDeploy(r)
           \/ Abort(r)

Next == \/ \E p \in Proc : Process(p)
        \/ \E u \in User : Login(u)
        \/ \E r \in Req : Step(r)

Spec == Init /\ [][Next]_vars

-----------------------------------------------------------------------------
(* Properties.                                                             *)

\* Every variable has its type.
TypeOK == /\ Known \subseteq User /\ users \in [Known -> Row]
          /\ tokens \in [User -> Role \cup {NoToken}]
          /\ deploys \in Seq(Deploy)
          /\ proc \in [Proc -> {"down", "count", "insert", "up"}]
          /\ req \in [Req -> Request]

\* A disabled or demoted user can do nothing more with the tokens still
\* valid, except in the requests that were authenticated before: whatever
\* else is past authentication has an actor whose row allows it now.
AuthorityIsCurrent ==
    \A r \in Req :
        req[r].pc # "idle" /\ ~req[r].overtaken
            => LET row == users[req[r].actor]
               IN  row.active /\ Rank[row.role] >= Rank[Required(req[r].op)]

\* The seed adds its superadmin, whose password is in the settings, only to
\* an empty table, however many processes start, crash and start again.
SeedOnlyFirst ==
    [][\A p \in Proc : SeedInsert(p) /\ users' # users => Known = {}]_vars

\* Who is an active superadmin is changed by a superadmin, or by the seed of
\* an empty table; otherwise only by a request whose actor has been changed
\* since it began.  So a lockout is final: restarts do not end it.
OnlyAdminsAppoint ==
    [][Admins' # Admins =>
          \/ Known = {}
          \/ \E r \in Req :
                /\ CommitCreateUser(r) \/ CommitUpdateUser(r)
                /\ req[r].actor \in Admins \/ req[r].overtaken]_vars

\* Nothing forbids to remove the last superadmin, but it takes either the
\* last one's own request, or two requests that overlap.
LastAdminLeaves ==
    [][Admins # {} /\ Admins' = {} =>
          \E r \in Req : /\ CommitUpdateUser(r)
                         /\ req[r].target = req[r].actor \/ req[r].overtaken]_vars

\* Deployment numbers have no gap, although the newest is read before the
\* insert commits and there is no unique key; and a deployment is said to
\* have a rollback only if one before it is recorded.
DeploymentsContiguous ==
    \A i \in DOMAIN deploys :
        /\ deploys[i].number = 1
             \/ \E j \in DOMAIN deploys : deploys[j].number = deploys[i].number - 1
        /\ deploys[i].rollback <=> deploys[i].number > 1
===================================================================================
