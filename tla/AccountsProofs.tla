----------------------------- MODULE AccountsProofs -----------------------------
(***************************************************************************)
(* Theorems about Accounts, for any number of requests, processes, users   *)
(* and addresses.                                                          *)
(***************************************************************************)
EXTENDS Accounts, TLAPS

\* The seed's address is in every table that is not empty.
FirstHeld == Known # {} => Taken(First)

\* The row of an actor allows what its request does.
Allowed(row, op) == row.active /\ Rank[row.role] >= Rank[Required(op)]

\* What a transaction knows of the tables: its actor exists and, unless it
\* has been changed since, may do this; the user it updates exists, the one it
\* inserts does not; the number it read is recorded.
GoodTx(q, us, ds) ==
    /\ q \in Request
    /\ q.pc # "idle" => q.actor \in DOMAIN us
    /\ q.pc # "idle" /\ ~q.overtaken => Allowed(us[q.actor], q.op)
    /\ q.pc = "commit" /\ q.op \in {"setRole", "setActive"}
         => q.target \in DOMAIN us
    /\ q.pc = "commit" /\ q.op = "createUser"
         => q.target \in User \ DOMAIN us
    /\ q.pc = "commit" /\ q.op = "deploy"
         => q.last = 0 \/ \E j \in DOMAIN ds : ds[j].number = q.last

GoodRequests == \A r \in Req : GoodTx(req[r], users, deploys)

\* A transaction about to insert a user.
Inserting(q) == q.pc = "commit" /\ q.op = "createUser"

\* No two requests insert the same identity.
TargetsApart == \A r, s \in Req :
    r # s /\ Inserting(req[r]) /\ Inserting(req[s]) => req[r].target # req[s].target

IInv == /\ TypeOK /\ FirstHeld /\ GoodRequests /\ TargetsApart
        /\ DeploymentsContiguous

-----------------------------------------------------------------------------
(* Lemmas about the operators.                                             *)

\* The row of no user has the type of a row.
LEMMA UnseenType == Unseen \in Row
BY FirstAssumption DEF Unseen, Row, Role

\* The idle transaction has the type of a transaction.
LEMMA IdleType == Idle \in Request
<1>1. "deploy" \in Op /\ "viewer" \in Role
  BY DEF Op, Role
<1> QED BY <1>1, UnseenType, FirstAssumption DEF Idle, Request

\* The idle transaction knows nothing that could be wrong.
LEMMA IdleGood == ASSUME NEW us, NEW ds PROVE GoodTx(Idle, us, ds)
BY IdleType DEF GoodTx, Idle

\* A user is its row.
LEMMA RowType ==
  ASSUME TypeOK, NEW u \in Known
  PROVE  /\ u \in User /\ users[u] \in Row
         /\ users[u].email \in Email /\ users[u].role \in Role
         /\ users[u].active \in BOOLEAN
BY DEF TypeOK, Row

\* Put adds one key, and changes the value of no other.
LEMMA PutFacts ==
  ASSUME NEW f, NEW k, NEW v, k \notin DOMAIN f
  PROVE  /\ DOMAIN Put(f, k, v) = DOMAIN f \cup {k}
         /\ Put(f, k, v)[k] = v
         /\ \A x \in DOMAIN f : Put(f, k, v)[x] = f[x]
BY DEF Put

\* A new user keeps the types of the table.
LEMMA PutUserType ==
  ASSUME TypeOK, NEW u \in User, u \notin Known, NEW row \in Row
  PROVE  /\ DOMAIN Put(users, u, row) \subseteq User
         /\ Put(users, u, row) \in [DOMAIN Put(users, u, row) -> Row]
BY PutFacts DEF TypeOK, Put, Known

\* Only an active superadmin may change users.
LEMMA AdminsOnly ==
  ASSUME NEW row \in Row, NEW op \in Op, op # "deploy", Allowed(row, op)
  PROVE  IsAdmin(row)
<1>1. row.role \in Role
  BY DEF Row
<1>2. Required(op) = "superadmin"
  BY DEF Required
<1>3. Rank["viewer"] = 0 /\ Rank["operator"] = 1 /\ Rank["superadmin"] = 2
  BY DEF Rank
<1> QED BY <1>1, <1>2, <1>3 DEF Allowed, IsAdmin, Role

\* The fields of a transaction.
LEMMA Fields ==
  ASSUME TypeOK, NEW r \in Req
  PROVE  /\ req[r] \in Request
         /\ req[r].op \in Op /\ req[r].actor \in User \cup {NoUser}
         /\ req[r].target \in User \cup {NoUser} /\ req[r].email \in Email
         /\ req[r].role \in Role /\ req[r].active \in BOOLEAN
         /\ req[r].last \in Nat /\ req[r].overtaken \in BOOLEAN
BY DEF TypeOK, Request

\* A recorded deployment has a number.
LEMMA NumberType ==
  ASSUME TypeOK, NEW i \in DOMAIN deploys
  PROVE  deploys[i].number \in Nat \ {0} /\ deploys[i].rollback \in BOOLEAN
<1>1. deploys[i] \in Deploy
  BY DEF TypeOK
<1> QED BY <1>1 DEF Deploy

\* A good transaction stays good when users and deployments are only added,
\* provided that the user it inserts is not the one added.
LEMMA GrownGood ==
  ASSUME NEW q, NEW us, NEW ds, NEW vs, NEW es, GoodTx(q, us, ds),
         DOMAIN us \subseteq DOMAIN vs,
         \A u \in DOMAIN us : vs[u] = us[u],
         Inserting(q) => q.target \notin DOMAIN vs,
         DOMAIN ds \subseteq DOMAIN es,
         \A j \in DOMAIN ds : es[j] = ds[j]
  PROVE  GoodTx(q, vs, es)
BY DEF GoodTx, Inserting

-----------------------------------------------------------------------------
(* IInv is inductive: one lemma per group of actions.                      *)

\* The initial state: no user, no request, no deployment.
LEMMA InitInv == Init => IInv
<1> SUFFICES ASSUME Init PROVE IInv
  OBVIOUS
<1>1. Known = {} /\ users \in [Known -> Row]
  BY DEF Init, Known
<1>2. deploys \in Seq(Deploy) /\ DOMAIN deploys = {}
  BY DEF Init
<1>3. req \in [Req -> Request]
  BY IdleType DEF Init
<1>4. TypeOK
  BY <1>1, <1>2, <1>3 DEF Init, TypeOK
<1>5. GoodRequests
  BY IdleGood DEF Init, GoodRequests
<1>6. TargetsApart
  BY DEF Init, TargetsApart, Inserting, Idle
<1> QED BY <1>1, <1>2, <1>4, <1>5, <1>6 DEF IInv, FirstHeld, DeploymentsContiguous

\* A step that only moves processes or issues a token.
LEMMA TablesKept ==
  ASSUME IInv, UNCHANGED <<users, deploys, req>>,
         tokens' \in [User -> Role \cup {NoToken}],
         proc' \in [Proc -> {"down", "count", "insert", "up"}]
  PROVE  IInv'
BY DEF IInv, TypeOK, FirstHeld, Known, Taken, GoodRequests, TargetsApart,
       DeploymentsContiguous

\* A step that only changes one transaction, to a good one that inserts an
\* identity no other transaction names.
LEMMA OneTx ==
  ASSUME IInv, NEW r \in Req, NEW q,
         req' = [req EXCEPT ![r] = q], GoodTx(q, users, deploys),
         Inserting(q) => \A s \in Req : s # r => req[s].target # q.target,
         UNCHANGED <<users, tokens, deploys, proc>>
  PROVE  IInv'
<1>1. q \in Request
  BY DEF GoodTx
<1>2. \A s \in Req : req'[s] = IF s = r THEN q ELSE req[s]
  BY DEF IInv, TypeOK
<1>3. TypeOK'
  BY <1>1 DEF IInv, TypeOK, Known
<1>4. GoodRequests'
  BY <1>2 DEF IInv, GoodRequests
<1>5. TargetsApart'
  BY <1>2 DEF IInv, TargetsApart
<1>6. FirstHeld' /\ DeploymentsContiguous'
  BY DEF IInv, FirstHeld, Known, Taken, DeploymentsContiguous
<1> QED BY <1>3, <1>4, <1>5, <1>6 DEF IInv

\* A new user, of the seed or of a request that ends: the users before stay.
LEMMA OneMore ==
  ASSUME IInv, NEW u \in User, u \notin Known, NEW row \in Row,
         users' = Put(users, u, row), Known # {} \/ row.email = First,
         \A s \in Req : Inserting(req'[s]) => req'[s].target # u,
         \A s \in Req : req'[s] = req[s] \/ req'[s] = Idle,
         req' \in [Req -> Request],
         proc' \in [Proc -> {"down", "count", "insert", "up"}],
         UNCHANGED <<tokens, deploys>>
  PROVE  IInv'
<1>1. /\ DOMAIN users' = Known \cup {u}
      /\ users'[u] = row
      /\ \A x \in Known : users'[x] = users[x]
  BY DEF Put, Known
<1>2. TypeOK'
  BY PutUserType DEF IInv, TypeOK, Known
<1>3. FirstHeld'
  <2>1. CASE Known # {}
    <3>1. PICK x \in Known : users[x].email = First
      BY <2>1 DEF IInv, FirstHeld, Taken
    <3> QED BY <1>1, <3>1 DEF FirstHeld, Taken, Known
  <2>2. CASE Known = {}
    BY <1>1, <2>2 DEF FirstHeld, Taken, Known
  <2> QED BY <2>1, <2>2
<1>4. GoodRequests'
  <2> SUFFICES ASSUME NEW s \in Req PROVE GoodTx(req'[s], users', deploys')
    BY DEF GoodRequests
  <2>1. CASE req'[s] = Idle
    BY <2>1, IdleGood
  <2>2. CASE req'[s] = req[s]
    <3>1. GoodTx(req[s], users, deploys)
      BY DEF IInv, GoodRequests
    <3>2. Inserting(req[s]) => req[s].target \notin DOMAIN users'
      BY <1>1, <2>2, <3>1 DEF GoodTx, Inserting, Known
    <3> QED BY <1>1, <2>2, <3>1, <3>2, GrownGood DEF Known
  <2> QED BY <2>1, <2>2
<1>5. TargetsApart'
  <2>1. ~Inserting(Idle)
    BY DEF Inserting, Idle
  <2> QED BY <2>1 DEF IInv, TargetsApart
<1>6. DeploymentsContiguous'
  BY DEF IInv, DeploymentsContiguous
<1> QED BY <1>2, <1>3, <1>4, <1>5, <1>6 DEF IInv

\* A process starts, seeds or stops.
LEMMA ProcessInv == ASSUME IInv, NEW p \in Proc, Process(p) PROVE IInv'
<1>1. proc \in [Proc -> {"down", "count", "insert", "up"}] /\ req \in [Req -> Request]
  BY DEF IInv, TypeOK
<1>2. tokens \in [User -> Role \cup {NoToken}]
  BY DEF IInv, TypeOK
<1>3. CASE Start(p) \/ SeedCount(p) \/ SeedSkipped(p) \/ Stop(p)
  <2>1. proc' \in [Proc -> {"down", "count", "insert", "up"}]
    BY <1>1, <1>3 DEF Start, SeedCount, SeedSkipped, Stop
  <2> QED BY <1>2, <1>3, <2>1, TablesKept
          DEF Start, SeedCount, SeedSkipped, Stop
<1>4. CASE SeedInsert(p)
  <2>1. proc' \in [Proc -> {"down", "count", "insert", "up"}]
    BY <1>1, <1>4 DEF SeedInsert
  <2>2. CASE Taken(First)
    BY <1>2, <1>4, <2>1, <2>2, TablesKept DEF SeedInsert
  <2>3. CASE ~Taken(First)
    <3> DEFINE row == [email |-> First, active |-> TRUE, role |-> "superadmin"]
    <3>1. PICK u \in User : Fresh(u) /\ users' = Put(users, u, row)
      BY <1>4, <2>3 DEF SeedInsert
    <3>2. row \in Row /\ row.email = First
      BY FirstAssumption DEF Row, Role
    <3>3. UNCHANGED <<tokens, deploys, req>>
      BY <1>4 DEF SeedInsert
    <3>4. \A s \in Req : req'[s] = req[s] /\ req'[s].target # u
      BY <3>1, <3>3 DEF Fresh
    <3> HIDE DEF row
    <3> QED BY <1>1, <2>1, <3>1, <3>2, <3>3, <3>4, OneMore DEF Fresh
  <2> QED BY <2>2, <2>3
<1> QED BY <1>3, <1>4 DEF Process

\* A login.
LEMMA LoginInv == ASSUME IInv, NEW u \in User, Login(u) PROVE IInv'
<1>1. users[u].role \in Role
  BY RowType DEF IInv, Login
<1>2. tokens' \in [User -> Role \cup {NoToken}]
  BY <1>1 DEF IInv, TypeOK, Login
<1>3. proc' \in [Proc -> {"down", "count", "insert", "up"}]
  BY DEF IInv, TypeOK, Login
<1> QED BY <1>2, <1>3, TablesKept DEF Login

\* A request is authenticated.
LEMMA BeginInv ==
  ASSUME IInv, NEW r \in Req, NEW op \in Op, Begin(r, op)
  PROVE  IInv'
<1>1. PICK a \in Known :
        /\ Granted(a, op)
        /\ req' = [req EXCEPT ![r] = [Idle EXCEPT !.pc = "read", !.op = op,
                                         !.actor = a, !.seen = users[a]]]
  BY DEF Begin
<1> DEFINE q == [Idle EXCEPT !.pc = "read", !.op = op, !.actor = a, !.seen = users[a]]
<1>2. a \in User /\ users[a] \in Row
  BY RowType DEF IInv
<1>3. q \in Request
  BY <1>2, IdleType DEF Request
<1>4. q.pc = "read" /\ q.op = op /\ q.actor = a
  BY DEF Idle
<1>5. Allowed(users[a], op)
  BY <1>1 DEF Granted, Satisfies, Allowed
<1>6. GoodTx(q, users, deploys) /\ ~Inserting(q)
  BY <1>3, <1>4, <1>5 DEF GoodTx, Inserting, Known
<1> HIDE DEF q
<1> QED BY <1>1, <1>6, OneTx DEF Begin, q

\* The address of a new user is looked up.
LEMMA ReadEmailInv == ASSUME IInv, NEW r \in Req, ReadEmail(r) PROVE IInv'
<1>1. PICK e \in Email, x \in Role, u \in User :
        /\ Fresh(u)
        /\ req' = [req EXCEPT ![r] =
                     IF Taken(e) THEN Idle
                     ELSE [@ EXCEPT !.pc = "commit", !.target = u,
                                    !.email = e, !.role = x, !.active = TRUE]]
  BY DEF ReadEmail
<1>2. CASE Taken(e)
  <2>1. req' = [req EXCEPT ![r] = Idle]
    BY <1>1, <1>2
  <2> QED BY <2>1, IdleGood, OneTx DEF ReadEmail, Inserting, Idle
<1>3. CASE ~Taken(e)
  <2> DEFINE q == [req[r] EXCEPT !.pc = "commit", !.target = u,
                                 !.email = e, !.role = x, !.active = TRUE]
  <2>1. req' = [req EXCEPT ![r] = q]
    BY <1>1, <1>3 DEF IInv, TypeOK
  <2>2. req[r] \in Request /\ GoodTx(req[r], users, deploys)
    BY DEF IInv, TypeOK, GoodRequests
  <2>3. q \in Request
    BY <2>2 DEF Request
  <2>4. /\ q.pc = "commit" /\ q.op = "createUser" /\ q.target = u
        /\ q.actor = req[r].actor /\ q.overtaken = req[r].overtaken
    BY <2>2 DEF ReadEmail, Request
  <2>5. GoodTx(q, users, deploys)
    BY <1>1, <2>2, <2>3, <2>4 DEF GoodTx, ReadEmail, Fresh, Known
  <2>6. \A s \in Req : s # r => req[s].target # q.target
    BY <1>1, <2>4 DEF Fresh
  <2> HIDE DEF q
  <2> QED BY <2>1, <2>5, <2>6, OneTx DEF ReadEmail
<1> QED BY <1>2, <1>3

\* The user to change is read.
LEMMA ReadTargetInv == ASSUME IInv, NEW r \in Req, ReadTarget(r) PROVE IInv'
<1>1. PICK u \in Known :
         \/ \E x \in Role \ {Loaded(r, u).role} :
              req' = [req EXCEPT ![r].pc = "commit", ![r].target = u, ![r].role = x]
         \/ req' = [req EXCEPT ![r].pc = "commit", ![r].target = u,
                               ![r].active = ~Loaded(r, u).active]
  BY DEF ReadTarget
<1>2. req[r] \in Request /\ GoodTx(req[r], users, deploys) /\ u \in User
  BY RowType DEF IInv, TypeOK, GoodRequests
<1> DEFINE Written(q) ==
              /\ req' = [req EXCEPT ![r] = q]
              /\ q.pc = "commit" /\ q.target = u /\ q.op = req[r].op
              /\ q.actor = req[r].actor /\ q.overtaken = req[r].overtaken
<1>3. PICK q \in Request : Written(q)
  <2>1. ASSUME NEW x \in Role,
               req' = [req EXCEPT ![r].pc = "commit", ![r].target = u, ![r].role = x]
        PROVE  \E q \in Request : Written(q)
    <3> DEFINE q == [req[r] EXCEPT !.pc = "commit", !.target = u, !.role = x]
    <3>1. req' = [req EXCEPT ![r] = q]
      BY <1>2, <2>1 DEF IInv, TypeOK, Request
    <3>2. q \in Request
      BY <1>2 DEF Request
    <3>3. /\ q.pc = "commit" /\ q.target = u /\ q.op = req[r].op
          /\ q.actor = req[r].actor /\ q.overtaken = req[r].overtaken
      BY <1>2 DEF Request
    <3> QED BY <3>1, <3>2, <3>3
  <2>2. ASSUME NEW b \in BOOLEAN,
               req' = [req EXCEPT ![r].pc = "commit", ![r].target = u, ![r].active = b]
        PROVE  \E q \in Request : Written(q)
    <3> DEFINE q == [req[r] EXCEPT !.pc = "commit", !.target = u, !.active = b]
    <3>1. req' = [req EXCEPT ![r] = q]
      BY <1>2, <2>2 DEF IInv, TypeOK, Request
    <3>2. q \in Request
      BY <1>2 DEF Request
    <3>3. /\ q.pc = "commit" /\ q.target = u /\ q.op = req[r].op
          /\ q.actor = req[r].actor /\ q.overtaken = req[r].overtaken
      BY <1>2 DEF Request
    <3> QED BY <3>1, <3>2, <3>3
  <2>3. (~Loaded(r, u).active) \in BOOLEAN
    OBVIOUS
  <2> QED BY <1>1, <2>1, <2>2, <2>3
<1>4. q.op \in {"setRole", "setActive"}
  BY <1>3 DEF ReadTarget
<1>5. GoodTx(q, users, deploys) /\ ~Inserting(q)
  BY <1>2, <1>3, <1>4 DEF GoodTx, ReadTarget, Inserting, Known
<1> QED BY <1>3, <1>5, OneTx DEF ReadTarget

\* The newest number is read.
LEMMA ReadNumberInv == ASSUME IInv, NEW r \in Req, ReadNumber(r) PROVE IInv'
<1>1. PICK n \in LastNumber : req' = [req EXCEPT ![r].pc = "commit", ![r].last = n]
  BY DEF ReadNumber
<1>2. n \in Nat /\ (n = 0 \/ \E j \in DOMAIN deploys : deploys[j].number = n)
  BY <1>1, NumberType DEF IInv, LastNumber, Newest
<1>3. req[r] \in Request /\ GoodTx(req[r], users, deploys)
  BY DEF IInv, TypeOK, GoodRequests
<1> DEFINE q == [req[r] EXCEPT !.pc = "commit", !.last = n]
<1>4. req' = [req EXCEPT ![r] = q]
  BY <1>1, <1>3 DEF IInv, TypeOK, Request
<1>5. q \in Request
  BY <1>2, <1>3 DEF Request
<1>6. /\ q.pc = "commit" /\ q.op = "deploy" /\ q.last = n
      /\ q.actor = req[r].actor /\ q.overtaken = req[r].overtaken
  BY <1>3 DEF ReadNumber, Request
<1>7. GoodTx(q, users, deploys) /\ ~Inserting(q)
  BY <1>2, <1>3, <1>5, <1>6 DEF GoodTx, ReadNumber, Inserting
<1> HIDE DEF q
<1> QED BY <1>4, <1>7, OneTx DEF ReadNumber

\* A request ends without an effect.
LEMMA FinishInv ==
  ASSUME IInv, NEW r \in Req, Finish(r), UNCHANGED <<users, tokens, deploys, proc>>
  PROVE  IInv'
BY IdleGood, OneTx DEF Finish, Inserting, Idle

\* A user is inserted.
LEMMA CreateUserInv ==
  ASSUME IInv, NEW r \in Req, CommitCreateUser(r)
  PROVE  IInv'
<1>1. CASE Taken(req[r].email)
  BY <1>1, FinishInv DEF CommitCreateUser
<1>2. CASE ~Taken(req[r].email)
  <2> DEFINE row == [email |-> req[r].email, role |-> req[r].role, active |-> TRUE]
             u == req[r].target
  <2>1. GoodTx(req[r], users, deploys) /\ Inserting(req[r])
    BY DEF IInv, GoodRequests, CommitCreateUser, Inserting
  <2>2. u \in User /\ u \notin Known /\ Known # {}
    BY <2>1 DEF GoodTx, Inserting, Known
  <2>3. row \in Row
    BY Fields DEF IInv, Row
  <2>4. users' = Put(users, u, row)
    BY <1>2 DEF CommitCreateUser
  <2>5. \A s \in Req : req'[s] = IF s = r THEN Idle ELSE req[s]
    BY DEF IInv, TypeOK, CommitCreateUser, Finish
  <2>6. ~Inserting(Idle)
    BY DEF Inserting, Idle
  <2>7. \A s \in Req : Inserting(req'[s]) => req'[s].target # u
    BY <2>1, <2>5, <2>6 DEF IInv, TargetsApart
  <2>8. req' \in [Req -> Request]
    BY IdleType DEF IInv, TypeOK, CommitCreateUser, Finish
  <2>9. /\ UNCHANGED <<tokens, deploys>>
        /\ proc' \in [Proc -> {"down", "count", "insert", "up"}]
    BY DEF IInv, TypeOK, CommitCreateUser
  <2> HIDE DEF row, u
  <2> QED BY <2>2, <2>3, <2>4, <2>5, <2>7, <2>8, <2>9, OneMore
<1> QED BY <1>1, <1>2

\* The row written is a row, with the address it had.
LEMMA UpdatedType ==
  ASSUME NEW q \in Request, NEW row \in Row
  PROVE  Updated(q, row) \in Row /\ Updated(q, row).email = row.email
BY DEF Updated, Request, Row

\* A user is changed: requests of that user have been overtaken.
LEMMA UpdateUserInv ==
  ASSUME IInv, NEW r \in Req, CommitUpdateUser(r)
  PROVE  IInv'
<1> DEFINE u == req[r].target
<1>1. GoodTx(req[r], users, deploys) /\ req[r] \in Request
  BY DEF IInv, GoodRequests, TypeOK
<1>2. u \in Known /\ users[u] \in Row
  BY <1>1, RowType DEF IInv, GoodTx, CommitUpdateUser, Known
<1>3. /\ users' = [users EXCEPT ![u] = Updated(req[r], users[u])]
      /\ UNCHANGED <<tokens, deploys, proc>>
  BY <1>2 DEF CommitUpdateUser, Known
<1>4. /\ DOMAIN users' = Known
      /\ \A x \in Known : x # u => users'[x] = users[x]
      /\ \A x \in Known : users'[x] \in Row /\ users'[x].email = users[x].email
  BY <1>1, <1>2, <1>3, UpdatedType DEF IInv, TypeOK, Known
<1>5. \A s \in Req : \/ req'[s] = Idle
                     \/ s # r /\ req[s].actor = u
                          /\ req'[s] = [req[s] EXCEPT !.overtaken = TRUE]
                     \/ s # r /\ req[s].actor # u /\ req'[s] = req[s]
  BY DEF CommitUpdateUser, Overtaken
<1>6. \A s \in Req : GoodTx(req'[s], users', deploys')
  <2> SUFFICES ASSUME NEW s \in Req PROVE GoodTx(req'[s], users', deploys')
    OBVIOUS
  <2>1. GoodTx(req[s], users, deploys) /\ req[s] \in Request
    BY DEF IInv, GoodRequests, TypeOK
  <2>2. CASE req'[s] = Idle
    BY <2>2, IdleGood
  <2>3. CASE req'[s] = [req[s] EXCEPT !.overtaken = TRUE]
    <3>1. req'[s] \in Request
      BY <2>1, <2>3 DEF Request
    <3>2. /\ req'[s].pc = req[s].pc /\ req'[s].op = req[s].op
          /\ req'[s].actor = req[s].actor /\ req'[s].target = req[s].target
          /\ req'[s].last = req[s].last /\ req'[s].overtaken
      BY <2>1, <2>3 DEF Request
    <3> QED BY <1>3, <1>4, <2>1, <3>1, <3>2 DEF GoodTx, Known
  <2>4. CASE req[s].actor # u /\ req'[s] = req[s]
    BY <1>3, <1>4, <2>1, <2>4 DEF GoodTx, Known
  <2> QED BY <1>5, <2>2, <2>3, <2>4
<1>7. req' \in [Req -> Request]
  <2>1. \A s \in Req : req'[s] \in Request
    BY <1>6 DEF GoodTx
  <2>2. req' = [s \in Req |-> req'[s]]
    BY DEF CommitUpdateUser, Overtaken
  <2> QED BY <2>1, <2>2
<1>8. TypeOK'
  BY <1>3, <1>4, <1>7 DEF IInv, TypeOK, Known
<1>9. FirstHeld'
  <2>1. PICK x \in Known : users[x].email = First
    BY <1>2 DEF IInv, FirstHeld, Taken
  <2> QED BY <1>4, <2>1 DEF FirstHeld, Taken, Known
<1>10. TargetsApart'
  <2>1. \A s \in Req : Inserting(req'[s])
          => Inserting(req[s]) /\ req'[s].target = req[s].target
    <3> SUFFICES ASSUME NEW s \in Req, Inserting(req'[s])
                 PROVE  Inserting(req[s]) /\ req'[s].target = req[s].target
      OBVIOUS
    <3>1. req[s] \in Request
      BY DEF IInv, TypeOK
    <3>2. CASE req'[s] = Idle
      BY <3>2 DEF Inserting, Idle
    <3>3. CASE req'[s] = [req[s] EXCEPT !.overtaken = TRUE]
      BY <3>1, <3>3 DEF Inserting, Request
    <3> QED BY <1>5, <3>2, <3>3
  <2> QED BY <2>1 DEF IInv, TargetsApart
<1>11. DeploymentsContiguous'
  BY <1>3 DEF IInv, DeploymentsContiguous
<1> QED BY <1>6, <1>8, <1>9, <1>10, <1>11 DEF IInv, GoodRequests

\* A deployment is recorded.
LEMMA DeployInv == ASSUME IInv, NEW r \in Req, CommitDeploy(r) PROVE IInv'
<1> DEFINE n == req[r].last
           d == Numbered(n)
<1>1. GoodTx(req[r], users, deploys) /\ n \in Nat
  BY Fields DEF IInv, GoodRequests
<1>2. n = 0 \/ \E j \in DOMAIN deploys : deploys[j].number = n
  BY <1>1 DEF GoodTx, CommitDeploy
<1>3. d \in Deploy /\ d.number = n + 1 /\ d.rollback = (n > 0)
  <2>1. n + 1 \in Nat \ {0} /\ (n > 0) \in BOOLEAN
    BY <1>1
  <2> QED BY <2>1 DEF Numbered, Deploy
<1> HIDE DEF d
<1>4. deploys' = Append(deploys, d) /\ deploys \in Seq(Deploy)
  BY DEF CommitDeploy, d, IInv, TypeOK
<1>5. /\ deploys' \in Seq(Deploy)
      /\ DOMAIN deploys' = DOMAIN deploys \cup {Len(deploys) + 1}
      /\ deploys'[Len(deploys) + 1] = d
      /\ \A i \in DOMAIN deploys : deploys'[i] = deploys[i]
  BY <1>3, <1>4
<1>6. \A s \in Req : req'[s] = req[s] \/ req'[s] = Idle
  BY DEF IInv, TypeOK, CommitDeploy, Finish
<1>7. UNCHANGED <<users, tokens, proc>>
  BY DEF CommitDeploy
<1>8. TypeOK'
  BY <1>5, <1>7, IdleType DEF IInv, TypeOK, Known, CommitDeploy, Finish
<1>9. FirstHeld'
  BY <1>7 DEF IInv, FirstHeld, Known, Taken
<1>10. GoodRequests'
  <2> SUFFICES ASSUME NEW s \in Req PROVE GoodTx(req'[s], users', deploys')
    BY DEF GoodRequests
  <2>1. CASE req'[s] = Idle
    BY <2>1, IdleGood
  <2>2. CASE req'[s] = req[s]
    <3>1. GoodTx(req[s], users, deploys)
      BY DEF IInv, GoodRequests
    <3>2. Inserting(req[s]) => req[s].target \notin DOMAIN users
      BY <3>1 DEF GoodTx, Inserting
    <3> QED BY <1>5, <1>7, <2>2, <3>1, <3>2, GrownGood
  <2> QED BY <1>6, <2>1, <2>2
<1>11. TargetsApart'
  <2>1. ~Inserting(Idle)
    BY DEF Inserting, Idle
  <2> QED BY <1>6, <2>1 DEF IInv, TargetsApart
<1>12. DeploymentsContiguous'
  <2> SUFFICES ASSUME NEW i \in DOMAIN deploys'
               PROVE  /\ deploys'[i].number = 1
                           \/ \E j \in DOMAIN deploys' :
                                 deploys'[j].number = deploys'[i].number - 1
                      /\ deploys'[i].rollback <=> deploys'[i].number > 1
    BY DEF DeploymentsContiguous
  <2>1. CASE i = Len(deploys) + 1
    <3>1. deploys'[i] = d
      BY <1>5, <2>1
    <3>2. deploys'[i].number = n + 1
      BY <1>3, <3>1
    <3>3. deploys'[i].rollback <=> n > 0
      BY <1>3, <3>1, Zenon
    <3>4. deploys'[i].rollback <=> deploys'[i].number > 1
      <4>1. n > 0 <=> deploys'[i].number > 1
        BY <1>1, <3>2
      <4> QED BY <3>3, <4>1, Zenon
    <3>5. CASE n = 0
      <4>1. deploys'[i].number = 1
        BY <3>5, <3>2
      <4> QED BY <3>4, <4>1, Zenon
    <3>6. CASE n # 0
      <4>1. PICK j \in DOMAIN deploys : deploys[j].number = n
        BY <1>2, <3>6
      <4>2. j \in DOMAIN deploys' /\ deploys'[j].number = deploys'[i].number - 1
        BY <1>1, <1>5, <3>2, <4>1
      <4> QED BY <3>4, <4>2, Zenon
    <3> QED BY <3>5, <3>6
  <2>2. CASE i \in DOMAIN deploys
    BY <1>5, <2>2 DEF IInv, DeploymentsContiguous
  <2> QED BY <1>5, <2>1, <2>2
<1> QED BY <1>8, <1>9, <1>10, <1>11, <1>12 DEF IInv

\* Every step keeps IInv.
LEMMA NextInv == IInv /\ [Next]_vars => IInv'
<1> SUFFICES ASSUME IInv, [Next]_vars PROVE IInv'
  OBVIOUS
<1>1. CASE \E p \in Proc : Process(p)
  BY <1>1, ProcessInv
<1>2. CASE \E u \in User : Login(u)
  BY <1>2, LoginInv
<1>3. CASE \E r \in Req : Step(r)
  <2>1. PICK r \in Req : Step(r)
    BY <1>3
  <2>2. CASE \E op \in Op : Begin(r, op)
    BY <2>2, BeginInv
  <2>3. CASE ReadEmail(r)
    BY <2>3, ReadEmailInv
  <2>4. CASE ReadTarget(r)
    BY <2>4, ReadTargetInv
  <2>5. CASE ReadNumber(r)
    BY <2>5, ReadNumberInv
  <2>6. CASE CommitCreateUser(r)
    BY <2>6, CreateUserInv
  <2>7. CASE CommitUpdateUser(r)
    BY <2>7, UpdateUserInv
  <2>8. CASE CommitDeploy(r)
    BY <2>8, DeployInv
  <2>9. CASE Abort(r)
    BY <2>9, FinishInv DEF Abort
  <2> QED BY <2>1, <2>2, <2>3, <2>4, <2>5, <2>6, <2>7, <2>8, <2>9 DEF Step
<1>4. CASE UNCHANGED vars
  <2>1. /\ tokens' \in [User -> Role \cup {NoToken}]
        /\ proc' \in [Proc -> {"down", "count", "insert", "up"}]
    BY <1>4 DEF vars, IInv, TypeOK
  <2> QED BY <1>4, <2>1, TablesKept DEF vars
<1> QED BY <1>1, <1>2, <1>3, <1>4 DEF Next

-----------------------------------------------------------------------------
(* The theorems.                                                           *)

\* The inductive invariant holds for ever.
THEOREM Invariance == Spec => []IInv
<1> QED BY InitInv, NextInv, PTL DEF Spec

\* Every variable keeps its type.
THEOREM TypeCorrect == Spec => []TypeOK
<1>1. IInv => TypeOK
  BY DEF IInv
<1> QED BY <1>1, Invariance, PTL

\* A disabled or demoted user acts only in requests begun before.
THEOREM Authority == Spec => []AuthorityIsCurrent
<1>1. IInv => AuthorityIsCurrent
  BY DEF IInv, GoodRequests, GoodTx, Allowed, AuthorityIsCurrent
<1> QED BY <1>1, Invariance, PTL

\* Deployment numbers have no gap.
THEOREM Contiguous == Spec => []DeploymentsContiguous
<1>1. IInv => DeploymentsContiguous
  BY DEF IInv
<1> QED BY <1>1, Invariance, PTL

\* What the table is while a step that changes it takes place: only the seed
\* and two commits do, and a commit has an actor that is an active superadmin
\* unless it has been overtaken.
LEMMA UsersChange ==
  ASSUME IInv, Next, users' # users
  PROVE  \/ \E p \in Proc : SeedInsert(p) /\ Known = {}
         \/ \E r \in Req : /\ CommitCreateUser(r) \/ CommitUpdateUser(r)
                           /\ req[r].actor \in Admins \/ req[r].overtaken
<1>1. CASE \E p \in Proc : Process(p)
  <2>1. PICK p \in Proc : Process(p)
    BY <1>1
  <2>2. SeedInsert(p)
    BY <2>1 DEF Process, Start, SeedCount, SeedSkipped, Stop
  <2>3. ~Taken(First)
    BY <2>2 DEF SeedInsert
  <2> QED BY <2>2, <2>3 DEF IInv, FirstHeld
<1>2. CASE \E u \in User : Login(u)
  BY <1>2 DEF Login
<1>3. CASE \E r \in Req : Step(r)
  <2>1. PICK r \in Req : Step(r)
    BY <1>3
  <2>2. CommitCreateUser(r) \/ CommitUpdateUser(r)
    BY <2>1 DEF Step, Begin, ReadEmail, ReadTarget, ReadNumber, CommitDeploy, Abort
  <2>3. CASE req[r].overtaken
    BY <2>2, <2>3
  <2>4. CASE ~req[r].overtaken
    <3>1. GoodTx(req[r], users, deploys) /\ req[r].pc = "commit"
      BY <2>2 DEF IInv, GoodRequests, CommitCreateUser, CommitUpdateUser
    <3>2. req[r].op \in Op /\ req[r].op # "deploy"
      BY <2>2, Fields DEF IInv, CommitCreateUser, CommitUpdateUser
    <3>3. /\ req[r].actor \in Known /\ users[req[r].actor] \in Row
          /\ Allowed(users[req[r].actor], req[r].op)
      BY <2>4, <3>1, RowType DEF IInv, GoodTx, Known
    <3>4. IsAdmin(users[req[r].actor])
      BY <3>2, <3>3, AdminsOnly
    <3> QED BY <2>2, <3>3, <3>4 DEF Admins
  <2> QED BY <2>3, <2>4
<1> QED BY <1>1, <1>2, <1>3 DEF Next

\* The seed adds its superadmin only to an empty table.
THEOREM SeedFirst == Spec => SeedOnlyFirst
<1>1. IInv /\ [Next]_vars
        => [\A p \in Proc : SeedInsert(p) /\ users' # users => Known = {}]_vars
  <2> SUFFICES ASSUME IInv, NEW p \in Proc, SeedInsert(p), users' # users
               PROVE  Known = {}
    OBVIOUS
  <2>1. ~Taken(First)
    BY DEF SeedInsert
  <2> QED BY <2>1 DEF IInv, FirstHeld
<1> QED BY <1>1, Invariance, PTL DEF Spec, SeedOnlyFirst

\* Superadmins are made and unmade by superadmins.
THEOREM AdminsAppoint == Spec => OnlyAdminsAppoint
<1>1. IInv /\ [Next]_vars
        => [Admins' # Admins =>
              \/ Known = {}
              \/ \E r \in Req : /\ CommitCreateUser(r) \/ CommitUpdateUser(r)
                                /\ req[r].actor \in Admins \/ req[r].overtaken]_vars
  <2> SUFFICES ASSUME IInv, Next, Admins' # Admins
               PROVE  \/ Known = {}
                      \/ \E r \in Req :
                            /\ CommitCreateUser(r) \/ CommitUpdateUser(r)
                            /\ req[r].actor \in Admins \/ req[r].overtaken
    OBVIOUS
  <2>1. users' # users
    BY DEF Admins, Known
  <2> QED BY <2>1, UsersChange
<1> QED BY <1>1, Invariance, PTL DEF Spec, OnlyAdminsAppoint

\* A new user takes no other's place: the superadmins stay.
LEMMA AdminsStay ==
  ASSUME NEW u, u \notin Known, NEW row, users' = Put(users, u, row)
  PROVE  Admins \subseteq Admins'
<1>1. DOMAIN users' = Known \cup {u} /\ \A x \in Known : users'[x] = users[x]
  BY DEF Put, Known
<1> QED BY <1>1 DEF Admins, Known

\* The last superadmin leaves by its own request, or by two that overlap.
THEOREM LastLeaves == Spec => LastAdminLeaves
<1>1. IInv /\ [Next]_vars
        => [Admins # {} /\ Admins' = {} =>
              \E r \in Req : /\ CommitUpdateUser(r)
                             /\ req[r].target = req[r].actor \/ req[r].overtaken]_vars
  <2> SUFFICES ASSUME IInv, Next, Admins # {}, Admins' = {}
               PROVE  \E r \in Req : /\ CommitUpdateUser(r)
                                     /\ \/ req[r].target = req[r].actor
                                        \/ req[r].overtaken
    OBVIOUS
  <2>1. users' # users
    BY DEF Admins, Known
  <2>2. Known # {}
    BY DEF Admins
  <2>3. PICK r \in Req : /\ CommitCreateUser(r) \/ CommitUpdateUser(r)
                         /\ req[r].actor \in Admins \/ req[r].overtaken
    BY <2>1, <2>2, UsersChange
  <2>4. GoodTx(req[r], users, deploys)
    BY DEF IInv, GoodRequests
  <2>5. CASE CommitCreateUser(r)
    <3>1. req[r].target \notin Known
      BY <2>4, <2>5 DEF GoodTx, CommitCreateUser, Known
    <3>2. users' = Put(users, req[r].target,
                       [email |-> req[r].email, role |-> req[r].role, active |-> TRUE])
      BY <2>1, <2>5 DEF CommitCreateUser
    <3> QED BY <3>1, <3>2, AdminsStay
  <2>6. CASE CommitUpdateUser(r)
    <3>1. SUFFICES ASSUME req[r].actor \in Admins, req[r].target # req[r].actor
                   PROVE  FALSE
      BY <2>3, <2>6
    <3>2. users' = [users EXCEPT ![req[r].target]
                      = Updated(req[r], users[req[r].target])]
      BY <2>6 DEF CommitUpdateUser
    <3>3. /\ DOMAIN users' = Known
          /\ users'[req[r].actor] = users[req[r].actor]
      BY <3>1, <3>2 DEF Known, Admins
    <3> QED BY <3>1, <3>3 DEF Admins, Known
  <2> QED BY <2>3, <2>5, <2>6
<1> QED BY <1>1, Invariance, PTL DEF Spec, LastAdminLeaves
===================================================================================
