------------------------ MODULE ConfigRevisionsProofs ------------------------
(***************************************************************************)
(* Theorems about ConfigRevisions, for any number of concurrent requests,  *)
(* publications, routes and faults.                                        *)
(***************************************************************************)
EXTENDS ConfigRevisions, TLAPS

(* What a transaction knows of the tables and of the file.                 *)

\* A request that is about to edit a publication has chosen one.
EditsChosen == \A t \in Req : req[t].pc \in {"load", "flush"}
                                 => req[t].chg \in Change

\* A revision is found, numbered or written only on the way to the commit.
LateFields == \A t \in Req :
    /\ req[t].row # 0 \/ req[t].rev # 0 => req[t].pc \in {"write", "mark", "commit"}
    /\ req[t].ok => req[t].pc \in {"mark", "commit"}

\* A reused row exists and holds what the request rendered.
RowHolds == \A t \in Req : req[t].row # 0 =>
    /\ req[t].row \in DOMAIN configs
    /\ configs[req[t].row].content = req[t].content

\* A number taken but not committed follows a committed one.
TakenFollows == \A t \in Req : req[t].rev # 0 =>
    req[t].rev = 1 \/ \E j \in DOMAIN configs : configs[j].rev = req[t].rev - 1

\* A successful write has been served.
OkServed == \A t \in Req : req[t].ok => req[t].content \in served

IInv == /\ TypeOK /\ EditsChosen /\ LateFields /\ RowHolds /\ TakenFollows
        /\ OkServed /\ NoRevisionGaps /\ AppliedWasServed

-----------------------------------------------------------------------------
(* Lemmas about the operators.                                             *)

\* The document rendered from any registry is a content.
LEMMA RenderedType == ASSUME NEW v \in Registry PROVE Rendered(v) \in Content
<1> DEFINE S == {q \in Pub : v[q] \in Route}
<1>1. Rendered(v) \in [S -> Route]
  BY DEF Rendered, Registry
<1>2. S \in SUBSET Pub
  OBVIOUS
<1> QED BY <1>1, <1>2 DEF Content

\* The empty document is a content.
LEMMA NoRoutesType == NoRoutes \in Content
<1>1. NoRoutes \in [{} -> Route]
  BY DEF NoRoutes
<1>2. {} \in SUBSET Pub
  OBVIOUS
<1> QED BY <1>1, <1>2 DEF Content

\* The idle transaction has the type of a transaction.
LEMMA IdleType == Idle \in Request
<1>1. {"idle"} \subseteq PC /\ "diff" \in AllOps
  BY DEF PC, AllOps
<1> QED BY <1>1, NoRoutesType DEF Idle, Request

\* What a session reads is a registry.
LEMMA ViewType == ASSUME TypeOK, NEW t \in Req PROVE View(t) \in Registry
<1>1. req[t] \in Request /\ registry \in Registry
  BY DEF TypeOK
<1>2. CASE req[t].chg = NoChange
  BY <1>1, <1>2 DEF View
<1>3. CASE req[t].chg # NoChange
  <2>1. req[t].chg \in Change
    BY <1>1, <1>3 DEF Request
  <2>2. req[t].chg.pub \in Pub /\ req[t].chg.val \in Val
    BY <2>1 DEF Change
  <2> QED BY <1>1, <2>2 DEF View, Registry
<1> QED BY <1>2, <1>3

\* A stored row is a row.
LEMMA RowType ==
  ASSUME TypeOK, NEW i \in DOMAIN configs
  PROVE  /\ i \in Nat \ {0}
         /\ configs[i].rev \in Nat \ {0}
         /\ configs[i].content \in Content
         /\ configs[i].applied \in BOOLEAN
<1>1. configs[i] \in Config /\ i \in Nat \ {0}
  BY DEF TypeOK
<1> QED BY <1>1 DEF Config

\* A number _next_revision returns is positive and follows a committed one.
LEMMA NextRevisionFollows ==
  ASSUME TypeOK, NEW n \in NextRevision
  PROVE  /\ n \in Nat \ {0}
         /\ n = 1 \/ \E j \in DOMAIN configs : configs[j].rev = n - 1
<1>1. CASE configs = << >>
  BY <1>1 DEF NextRevision
<1>2. CASE configs # << >>
  <2>1. PICK i \in Newest : n = configs[i].rev + 1
    BY <1>2 DEF NextRevision
  <2>2. i \in DOMAIN configs
    BY <2>1 DEF Newest
  <2>3. configs[i] \in Config
    BY <2>2 DEF TypeOK
  <2>4. configs[i].rev \in Nat
    BY <2>3 DEF Config
  <2> QED BY <2>1, <2>2, <2>4
<1> QED BY <1>1, <1>2

-----------------------------------------------------------------------------
(* IInv is inductive: one lemma per group of actions.                      *)

\* The initial state: no request in flight, no revision, no route served.
LEMMA InitInv == Init => IInv
<1> SUFFICES ASSUME Init PROVE IInv
  OBVIOUS
<1>1. \A t \in Req : req[t] = Idle
  BY DEF Init
<1>2. configs = << >> /\ DOMAIN configs = {}
  BY DEF Init
<1>3. TypeOK
  <2>1. registry \in Registry
    BY DEF Init, Registry, Val
  <2>2. configs \in Seq(Config)
    BY <1>2
  <2>3. edge \in Content /\ served \subseteq Content
    BY NoRoutesType DEF Init
  <2>4. req \in [Req -> Request]
    BY IdleType DEF Init
  <2> QED BY <2>1, <2>2, <2>3, <2>4 DEF TypeOK
<1>4. EditsChosen /\ LateFields /\ RowHolds /\ TakenFollows /\ OkServed
  BY <1>1 DEF Idle, EditsChosen, LateFields, RowHolds, TakenFollows, OkServed
<1>5. NoRevisionGaps /\ AppliedWasServed
  BY <1>2 DEF NoRevisionGaps, AppliedWasServed
<1> QED BY <1>3, <1>4, <1>5 DEF IInv

\* The conditions on the tables alone survive a step that leaves them be.
LEMMA TablesKept ==
  ASSUME IInv, UNCHANGED <<configs, served>>
  PROVE  NoRevisionGaps' /\ AppliedWasServed'
BY DEF IInv, NoRevisionGaps, AppliedWasServed, Rows

\* A transaction that satisfies the invariant in a given state of the tables.
GoodTx(r, rows, seen) ==
    /\ r \in Request
    /\ r.pc \in {"load", "flush"} => r.chg \in Change
    /\ r.row # 0 \/ r.rev # 0 => r.pc \in {"write", "mark", "commit"}
    /\ r.ok => r.pc \in {"mark", "commit"}
    /\ r.row # 0 => r.row \in DOMAIN rows /\ rows[r.row].content = r.content
    /\ r.rev # 0 => r.rev = 1 \/ \E j \in DOMAIN rows : rows[j].rev = r.rev - 1
    /\ r.ok => r.content \in seen

\* IInv says of every transaction that it is good.
LEMMA IInvGood == IInv => \A t \in Req : GoodTx(req[t], configs, served)
BY DEF IInv, TypeOK, EditsChosen, LateFields, RowHolds, TakenFollows,
       OkServed, GoodTx

\* An idle transaction is good whatever the tables hold.
LEMMA IdleGood == \A rows, seen : GoodTx(Idle, rows, seen)
BY IdleType DEF Idle, GoodTx

\* IInv holds after a step that leaves every transaction good and the
\* tables well formed.
LEMMA GoodIInv ==
  ASSUME registry' \in Registry, configs' \in Seq(Config), edge' \in Content,
         served' \subseteq Content, DOMAIN req' = Req,
         req' = [t \in Req |-> req'[t]],
         \A t \in Req : GoodTx(req'[t], configs', served'),
         NoRevisionGaps', AppliedWasServed'
  PROVE  IInv'
<1>1. req' \in [Req -> Request]
  BY DEF GoodTx
<1>2. TypeOK'
  BY <1>1 DEF TypeOK
<1>3. EditsChosen' /\ LateFields' /\ RowHolds' /\ TakenFollows' /\ OkServed'
  BY DEF EditsChosen, LateFields, RowHolds, TakenFollows, OkServed, GoodTx
<1> QED BY <1>2, <1>3 DEF IInv

\* A step of one transaction that leaves the four tables alone.
LEMMA LocalStep ==
  ASSUME IInv, NEW t \in Req, NEW r,
         GoodTx(r, configs, served),
         req' = [req EXCEPT ![t] = r],
         UNCHANGED <<registry, configs, edge, served>>
  PROVE  IInv'
<1>1. \A u \in Req : GoodTx(req'[u], configs', served')
  BY IInvGood DEF IInv, TypeOK
<1>2. NoRevisionGaps' /\ AppliedWasServed'
  BY TablesKept
<1>3. req' = [u \in Req |-> req'[u]] /\ DOMAIN req' = Req
  BY DEF IInv, TypeOK
<1>4. /\ registry' \in Registry /\ configs' \in Seq(Config)
      /\ edge' \in Content /\ served' \subseteq Content
  BY DEF IInv, TypeOK
<1> QED BY <1>1, <1>2, <1>3, <1>4, GoodIInv

\* An arrival sets one transaction going and unsets solo in the others.
LEMMA BeginInv ==
  ASSUME IInv, NEW t \in Req, NEW op \in AllOps, NEW first \in PC,
         NEW chg \in Change \cup {NoChange}, NEW target \in Nat,
         first \in {"load", "flush"} => chg \in Change,
         Begin(t, op, first, chg, target)
  PROVE  IInv'
<1> DEFINE b == [Idle EXCEPT !.pc = first, !.op = op, !.chg = chg,
                             !.target = target, !.solo = (InFlight = {})]
           o(u) == [req[u] EXCEPT !.solo = FALSE]
<1>1. req' = [u \in Req |-> IF u = t THEN b ELSE o(u)]
  BY DEF Begin
<1>2. GoodTx(b, configs, served)
  <2>1. /\ b.pc = first /\ b.op = op /\ b.chg = chg /\ b.target = target
        /\ b.row = 0 /\ b.rev = 0 /\ b.ok = FALSE
    BY DEF Idle
  <2>2. b \in Request
    BY IdleType, Zenon DEF Idle, Request
  <2> QED BY <2>1, <2>2 DEF GoodTx
<1>3. ASSUME NEW u \in Req PROVE GoodTx(o(u), configs, served)
  <2>1. GoodTx(req[u], configs, served)
    BY IInvGood
  <2>2. o(u) \in Request
    BY <2>1 DEF GoodTx, Request
  <2>3. /\ o(u).pc = req[u].pc /\ o(u).chg = req[u].chg
        /\ o(u).row = req[u].row /\ o(u).rev = req[u].rev
        /\ o(u).ok = req[u].ok /\ o(u).content = req[u].content
    BY <2>1 DEF GoodTx, Request
  <2> QED BY <2>1, <2>2, <2>3 DEF GoodTx
<1>4. UNCHANGED <<registry, configs, edge, served>>
  BY DEF Begin
<1>5. \A u \in Req : GoodTx(req'[u], configs', served')
  BY <1>1, <1>2, <1>3, <1>4
<1>6. NoRevisionGaps' /\ AppliedWasServed'
  BY <1>4, TablesKept
<1>7. req' = [u \in Req |-> req'[u]] /\ DOMAIN req' = Req
  BY <1>1
<1>8. /\ registry' \in Registry /\ configs' \in Seq(Config)
      /\ edge' \in Content /\ served' \subseteq Content
  BY <1>4 DEF IInv, TypeOK
<1> QED BY <1>5, <1>6, <1>7, <1>8, GoodIInv

\* Every arrival is a Begin with a well formed first step.
LEMMA ArriveInv == ASSUME IInv, NEW t \in Req, Arrive(t) PROVE IInv'
<1> USE DEF AllOps, PC
<1>1. CASE BeginCreate(t)
  <2>1. PICK op \in {"create", "add"}, p \in Pub, v \in Val \ {Absent} :
           Begin(t, op, "flush", [pub |-> p, seen |-> Absent, val |-> v], 0)
    BY <1>1 DEF BeginCreate
  <2>2. [pub |-> p, seen |-> Absent, val |-> v] \in Change
    BY DEF Change, Val
  <2> QED BY <2>1, <2>2, BeginInv
<1>2. CASE BeginEdit(t)
  <2>1. PICK op \in {"publish", "edit"}, p \in Pub, v \in Val :
           Begin(t, op, "load", [pub |-> p, seen |-> Absent, val |-> v], 0)
    BY <1>2 DEF BeginEdit
  <2>2. [pub |-> p, seen |-> Absent, val |-> v] \in Change
    BY DEF Change, Val
  <2> QED BY <2>1, <2>2, BeginInv
<1>3. CASE BeginRender(t)
  BY <1>3, BeginInv DEF BeginRender
<1>4. CASE BeginFetch(t)
  <2>1. PICK op \in {"rollback", "diff"}, n \in 1 .. Len(configs) + 1 :
           Begin(t, op, "fetch", NoChange, n)
    BY <1>4 DEF BeginFetch
  <2>2. n \in Nat
    BY DEF IInv, TypeOK
  <2> QED BY <2>1, <2>2, BeginInv
<1> QED BY <1>1, <1>2, <1>3, <1>4 DEF Arrive

\* The end of a transaction that changes nothing.
LEMMA FinishInv ==
  ASSUME IInv, NEW t \in Req, Finish(t),
         UNCHANGED <<registry, configs, edge, served>>
  PROVE  IInv'
BY IdleGood, LocalStep DEF Finish

\* Moving on to a step before the commit keeps a transaction good.
LEMMA GotoInv ==
  ASSUME IInv, NEW t \in Req, NEW pc \in PC \ {"load", "flush"}, Goto(t, pc),
         req[t].row # 0 \/ req[t].rev # 0 => pc \in {"write", "mark", "commit"},
         req[t].ok => pc \in {"mark", "commit"},
         UNCHANGED <<registry, configs, edge, served>>
  PROVE  IInv'
<1> DEFINE r == [req[t] EXCEPT !.pc = pc]
<1>1. GoodTx(req[t], configs, served)
  BY IInvGood
<1>2. req' = [req EXCEPT ![t] = r]
  BY DEF Goto
<1>3. r \in Request
  BY <1>1 DEF GoodTx, Request
<1>4. /\ r.pc = pc /\ r.row = req[t].row /\ r.rev = req[t].rev
      /\ r.ok = req[t].ok /\ r.content = req[t].content
  BY <1>1 DEF GoodTx, Request
<1>5. GoodTx(r, configs, served)
  BY <1>1, <1>3, <1>4 DEF GoodTx
<1> QED BY <1>2, <1>5, LocalStep

\* Loading a publication.
LEMMA LoadInv == ASSUME IInv, NEW t \in Req, Load(t) PROVE IInv'
<1> DEFINE p == req[t].chg.pub
           r == [req[t] EXCEPT !.pc = "flush", !.chg.seen = registry[p]]
<1>1. GoodTx(req[t], configs, served) /\ req[t].pc = "load"
  BY IInvGood DEF Load
<1>2. CASE registry[p] = Absent
  BY <1>2, FinishInv DEF Load
<1>3. CASE registry[p] # Absent
  <2>1. req' = [req EXCEPT ![t] = r]
    BY <1>3 DEF Load
  <2>2. req[t].chg \in Change
    BY <1>1 DEF GoodTx
  <2>3. registry[p] \in Val
    BY <2>2 DEF Change, IInv, TypeOK, Registry
  <2>4. [req[t].chg EXCEPT !.seen = registry[p]] \in Change
    BY <2>2, <2>3 DEF Change
  <2>5. /\ r \in Request /\ r.chg \in Change
        /\ r.row = req[t].row /\ r.rev = req[t].rev
        /\ r.ok = req[t].ok /\ r.content = req[t].content
    BY <1>1, <2>4 DEF GoodTx, Request, PC
  <2>6. GoodTx(r, configs, served)
    BY <1>1, <2>5 DEF GoodTx
  <2> QED BY <2>1, <2>6, LocalStep DEF Load
<1> QED BY <1>2, <1>3

\* Flushing the edit.
LEMMA FlushInv == ASSUME IInv, NEW t \in Req, Flush(t) PROVE IInv'
<1>1. GoodTx(req[t], configs, served) /\ req[t].pc = "flush"
  BY IInvGood DEF Flush
<1>2. req[t].row = 0 /\ req[t].rev = 0 /\ ~req[t].ok
  BY <1>1 DEF GoodTx
<1>3. UNCHANGED <<registry, configs, edge, served>>
  BY DEF Flush
<1>4. Finish(t) \/ Goto(t, "render") \/ Goto(t, "commit")
  BY DEF Flush
<1>5. {"render", "commit"} \subseteq PC \ {"load", "flush"}
  BY DEF PC
<1> QED BY <1>2, <1>3, <1>4, <1>5, FinishInv, GotoInv

\* Rendering the document.
LEMMA RenderInv == ASSUME IInv, NEW t \in Req, RenderCurrent(t) PROVE IInv'
<1> DEFINE r == [req[t] EXCEPT !.pc = "latest", !.content = Rendered(View(t))]
<1>1. GoodTx(req[t], configs, served) /\ req[t].pc = "render"
  BY IInvGood DEF RenderCurrent
<1>2. Rendered(View(t)) \in Content
  BY ViewType, RenderedType DEF IInv
<1>3. req' = [req EXCEPT ![t] = r]
  BY DEF RenderCurrent
<1>4. /\ r \in Request /\ r.pc = "latest"
      /\ r.row = req[t].row /\ r.rev = req[t].rev /\ r.ok = req[t].ok
  BY <1>1, <1>2 DEF GoodTx, Request, PC
<1>5. r.row = 0 /\ r.rev = 0 /\ ~r.ok
  BY <1>1, <1>4 DEF GoodTx
<1>6. GoodTx(r, configs, served)
  BY <1>4, <1>5 DEF GoodTx
<1> QED BY <1>3, <1>6, LocalStep DEF RenderCurrent

\* Comparing with the newest revision.
LEMMA LatestInv == ASSUME IInv, NEW t \in Req, Latest(t) PROVE IInv'
<1>1. GoodTx(req[t], configs, served) /\ req[t].pc = "latest"
  BY IInvGood DEF Latest
<1>2. req[t].row = 0 /\ req[t].rev = 0 /\ ~req[t].ok
  BY <1>1 DEF GoodTx
<1>3. UNCHANGED <<registry, configs, edge, served>>
  BY DEF Latest
<1>4. CASE Goto(t, "number")
  BY <1>2, <1>3, <1>4, GotoInv DEF PC
<1>5. ASSUME NEW i \in Newest, configs[i].content = req[t].content,
             req' = [req EXCEPT ![t].pc = Stored(t), ![t].row = i,
                                ![t].was = configs[i].applied]
      PROVE  IInv'
  <2> DEFINE r == [req[t] EXCEPT !.pc = Stored(t), !.row = i,
                                 !.was = configs[i].applied]
  <2>1. i \in DOMAIN configs /\ i \in Nat
    BY DEF Newest, IInv, TypeOK
  <2>2. configs[i].applied \in BOOLEAN
    BY <2>1, RowType DEF IInv
  <2>3. Stored(t) \in {"write", "commit"}
    BY DEF Stored
  <2>4. /\ r \in Request /\ r.pc = Stored(t) /\ r.row = i
        /\ r.rev = req[t].rev /\ r.ok = req[t].ok
        /\ r.content = req[t].content
    BY <1>1, <2>1, <2>2, <2>3 DEF GoodTx, Request, PC
  <2>5. GoodTx(r, configs, served)
    BY <1>2, <1>5, <2>1, <2>3, <2>4 DEF GoodTx
  <2>6. req' = [req EXCEPT ![t] = r]
    BY <1>5
  <2> QED BY <1>3, <2>5, <2>6, LocalStep
<1>6. \/ Goto(t, "number")
      \/ \E i \in Newest : /\ configs[i].content = req[t].content
                           /\ req' = [req EXCEPT ![t].pc = Stored(t), ![t].row = i,
                                        ![t].was = configs[i].applied]
  BY DEF Latest
<1> QED BY <1>4, <1>5, <1>6

\* Taking the next number.
LEMMA NumberInv == ASSUME IInv, NEW t \in Req, Number(t) PROVE IInv'
<1>1. GoodTx(req[t], configs, served) /\ req[t].pc = "number"
  BY IInvGood DEF Number
<1>2. PICK n \in NextRevision :
         req' = [req EXCEPT ![t].pc = Stored(t), ![t].rev = n]
  BY DEF Number
<1> DEFINE r == [req[t] EXCEPT !.pc = Stored(t), !.rev = n]
<1>3. /\ n \in Nat \ {0}
      /\ n = 1 \/ \E j \in DOMAIN configs : configs[j].rev = n - 1
  BY NextRevisionFollows DEF IInv
<1>4. Stored(t) \in {"write", "commit"}
  BY DEF Stored
<1>5. /\ r \in Request /\ r.pc = Stored(t) /\ r.rev = n
      /\ r.row = req[t].row /\ r.ok = req[t].ok
  BY <1>1, <1>3, <1>4 DEF GoodTx, Request, PC
<1>6. r.row = 0 /\ ~r.ok
  BY <1>1, <1>5 DEF GoodTx
<1>7. GoodTx(r, configs, served)
  BY <1>3, <1>4, <1>5, <1>6 DEF GoodTx
<1>8. req' = [req EXCEPT ![t] = r]
  BY <1>2
<1> QED BY <1>7, <1>8, LocalStep DEF Number

\* Finding the revision to roll back to, or to compare.
LEMMA FetchInv == ASSUME IInv, NEW t \in Req, Fetch(t) PROVE IInv'
<1>1. GoodTx(req[t], configs, served) /\ req[t].pc = "fetch"
  BY IInvGood DEF Fetch
<1>2. UNCHANGED <<registry, configs, edge, served>>
  BY DEF Fetch
<1>3. CASE Finish(t)
  BY <1>2, <1>3, FinishInv
<1>4. ASSUME NEW i \in Rows(req[t].target),
             req' = [req EXCEPT ![t].pc = "number",
                                ![t].content = configs[i].content]
      PROVE  IInv'
  <2> DEFINE r == [req[t] EXCEPT !.pc = "number", !.content = configs[i].content]
  <2>1. configs[i].content \in Content
    BY RowType DEF Rows, IInv
  <2>2. /\ r \in Request /\ r.pc = "number" /\ r.row = req[t].row
        /\ r.rev = req[t].rev /\ r.ok = req[t].ok
    BY <1>1, <2>1 DEF GoodTx, Request, PC
  <2>3. r.row = 0 /\ r.rev = 0 /\ ~r.ok
    BY <1>1, <2>2 DEF GoodTx
  <2>4. GoodTx(r, configs, served)
    BY <2>2, <2>3 DEF GoodTx
  <2>5. req' = [req EXCEPT ![t] = r]
    BY <1>4
  <2> QED BY <1>2, <2>4, <2>5, LocalStep
<1> QED BY <1>3, <1>4 DEF Fetch

\* A write that fails.
LEMMA WriteFailsInv == ASSUME IInv, NEW t \in Req, WriteFails(t) PROVE IInv'
<1>1. GoodTx(req[t], configs, served) /\ req[t].pc = "write"
  BY IInvGood DEF WriteFails
<1>2. "mark" \in PC \ {"load", "flush"}
  BY DEF PC
<1> QED BY <1>1, <1>2, GotoInv DEF WriteFails, GoodTx

\* The flush of the outcome of the write.
LEMMA MarkInv == ASSUME IInv, NEW t \in Req, Mark(t) PROVE IInv'
<1>1. "commit" \in PC \ {"load", "flush"}
  BY DEF PC
<1> QED BY <1>1, GotoInv DEF Mark

\* Writing the file: the content becomes one of those served.
LEMMA WriteFileInv == ASSUME IInv, NEW t \in Req, WriteFile(t) PROVE IInv'
<1> DEFINE r == [req[t] EXCEPT !.pc = "mark", !.ok = TRUE, !.prev = edge]
<1>1. GoodTx(req[t], configs, served) /\ req[t].pc = "write"
  BY IInvGood DEF WriteFile
<1>2. /\ req' = [req EXCEPT ![t] = r]
      /\ served' = served \cup {req[t].content}
      /\ edge' = req[t].content
      /\ UNCHANGED <<registry, configs>>
  BY DEF WriteFile
<1>3. /\ registry \in Registry /\ configs \in Seq(Config)
      /\ edge \in Content /\ served \subseteq Content
      /\ req \in [Req -> Request]
  BY DEF IInv, TypeOK
<1>4. req[t].content \in Content
  BY <1>1 DEF GoodTx, Request
<1>5. /\ r \in Request /\ r.pc = "mark" /\ r.row = req[t].row
      /\ r.rev = req[t].rev /\ r.content = req[t].content
  BY <1>1, <1>3 DEF GoodTx, Request, PC
<1>6. GoodTx(r, configs', served')
  BY <1>1, <1>2, <1>5 DEF GoodTx
<1>7. \A u \in Req : GoodTx(req'[u], configs', served')
  <2>1. \A u \in Req : GoodTx(req[u], configs, served)
    BY IInvGood
  <2>2. \A u \in Req : GoodTx(req[u], configs', served')
    BY <1>2, <2>1 DEF GoodTx
  <2> QED BY <1>2, <1>3, <1>6, <2>2
<1>8. NoRevisionGaps' /\ AppliedWasServed'
  BY <1>2 DEF IInv, NoRevisionGaps, AppliedWasServed, Rows
<1>9. req' = [u \in Req |-> req'[u]] /\ DOMAIN req' = Req
  BY <1>2, <1>3
<1>10. /\ registry' \in Registry /\ configs' \in Seq(Config)
       /\ edge' \in Content /\ served' \subseteq Content
  BY <1>2, <1>3, <1>4
<1> QED BY <1>7, <1>8, <1>9, <1>10, GoodIInv

\* What a commit does to the rows: those there keep their number and their
\* content; a flag that becomes true, and a row that is new, come from t.
LEMMA CommitRows ==
  ASSUME IInv, NEW t \in Req, Commit(t)
  PROVE  /\ configs' \in Seq(Config)
         /\ DOMAIN configs \subseteq DOMAIN configs'
         /\ Len(configs') >= Len(configs)
         /\ \A i \in DOMAIN configs :
               /\ configs'[i].rev = configs[i].rev
               /\ configs'[i].content = configs[i].content
               /\ configs'[i].applied =>
                     configs[i].applied \/ (req[t].ok /\ configs[i].content = req[t].content)
         /\ \A i \in DOMAIN configs' \ DOMAIN configs :
               /\ req[t].rev # 0 /\ configs'[i].rev = req[t].rev
               /\ configs'[i].content = req[t].content
               /\ configs'[i].applied => req[t].ok
<1> DEFINE new == [rev |-> req[t].rev, content |-> req[t].content,
                   applied |-> req[t].ok]
           k   == req[t].row
<1>1. GoodTx(req[t], configs, served)
  BY IInvGood
<1>2. configs \in Seq(Config) /\ TypeOK
  BY DEF IInv, TypeOK
<1>3. /\ req[t].rev \in Nat /\ req[t].content \in Content
      /\ req[t].ok \in BOOLEAN
  BY <1>1 DEF GoodTx, Request
<1>4. CASE req[t].rev # 0
  <2>1. configs' = Append(configs, new)
    BY <1>4 DEF Commit, ConfigsOf
  <2>2. new \in Config
    BY <1>3, <1>4 DEF Config
  <2>3. /\ configs' \in Seq(Config) /\ Len(configs') = Len(configs) + 1
        /\ \A i \in 1 .. Len(configs) : configs'[i] = configs[i]
        /\ configs'[Len(configs) + 1] = new
    BY <1>2, <2>1, <2>2
  <2>4. /\ DOMAIN configs = 1 .. Len(configs)
        /\ DOMAIN configs' = 1 .. Len(configs) + 1
        /\ Len(configs) \in Nat
    BY <1>2, <2>3
  <2> QED BY <1>4, <2>3, <2>4
<1>5. CASE req[t].rev = 0 /\ k # 0 /\ req[t].op \in ApplyOps /\ req[t].ok # req[t].was
  <2>1. configs' = [configs EXCEPT ![k].applied = req[t].ok]
    BY <1>5 DEF Commit, ConfigsOf
  <2>2. k \in DOMAIN configs /\ configs[k].content = req[t].content
    BY <1>1, <1>5 DEF GoodTx
  <2>3. configs[k] \in Config
    BY <1>2, <2>2
  <2>4. /\ [configs[k] EXCEPT !.applied = req[t].ok] \in Config
        /\ [configs[k] EXCEPT !.applied = req[t].ok].rev = configs[k].rev
        /\ [configs[k] EXCEPT !.applied = req[t].ok].content = configs[k].content
        /\ [configs[k] EXCEPT !.applied = req[t].ok].applied = req[t].ok
    BY <1>3, <2>3 DEF Config
  <2>5. configs' = [configs EXCEPT ![k] = [configs[k] EXCEPT !.applied = req[t].ok]]
    BY <2>1
  <2>6. /\ configs' \in Seq(Config) /\ DOMAIN configs' = DOMAIN configs
        /\ Len(configs') = Len(configs)
    BY <1>2, <2>2, <2>4, <2>5
  <2>7. \A i \in DOMAIN configs :
           configs'[i] = IF i = k THEN [configs[k] EXCEPT !.applied = req[t].ok]
                         ELSE configs[i]
    BY <1>2, <2>5
  <2>8. Len(configs) \in Nat
    BY <1>2
  <2>9. ASSUME NEW i \in DOMAIN configs
        PROVE  /\ configs'[i].rev = configs[i].rev
               /\ configs'[i].content = configs[i].content
               /\ configs'[i].applied =>
                     configs[i].applied \/ (req[t].ok /\ configs[i].content = req[t].content)
    <3>1. CASE i = k
      <4>1. configs'[k] = [configs[k] EXCEPT !.applied = req[t].ok]
        BY <2>2, <2>7
      <4>2. /\ configs'[k].applied = req[t].ok /\ configs'[k].rev = configs[k].rev
            /\ configs'[k].content = configs[k].content
        BY <2>4, <4>1
      <4> QED BY <2>2, <3>1, <4>2, Zenon
    <3>2. CASE i # k
      <4>1. configs'[i] = configs[i]
        BY <2>7, <3>2
      <4> QED BY <4>1
    <3> QED BY <3>1, <3>2
  <2>10. Len(configs') >= Len(configs) /\ DOMAIN configs \subseteq DOMAIN configs'
         /\ DOMAIN configs' \ DOMAIN configs = {}
    BY <2>6, <2>8
  <2> QED BY <2>6, <2>9, <2>10
<1>6. CASE configs' = configs
  <2>1. Len(configs) \in Nat
    BY <1>2
  <2> QED BY <1>2, <1>6, <2>1
<1> QED BY <1>4, <1>5, <1>6 DEF Commit, ConfigsOf

\* A commit changes at most the publication the transaction edited.
LEMMA RegistryOfType == ASSUME TypeOK, NEW t \in Req PROVE RegistryOf(t) \in Registry
<1>1. req[t] \in Request /\ registry \in Registry
  BY DEF TypeOK
<1>2. CASE req[t].chg = NoChange
  BY <1>1, <1>2 DEF RegistryOf
<1>3. CASE req[t].chg # NoChange
  <2>1. req[t].chg \in Change
    BY <1>1, <1>3 DEF Request
  <2>2. req[t].chg.pub \in Pub /\ req[t].chg.val \in Val
    BY <2>1 DEF Change
  <2> QED BY <1>1, <2>2 DEF RegistryOf, Registry
<1> QED BY <1>2, <1>3

LEMMA CommitInv == ASSUME IInv, NEW t \in Req, Commit(t) PROVE IInv'
<1>1. /\ req' = [req EXCEPT ![t] = Idle]
      /\ registry' = RegistryOf(t)
      /\ UNCHANGED <<edge, served>>
  BY DEF Commit, Finish
<1>2. /\ registry' \in Registry /\ configs' \in Seq(Config)
      /\ edge' \in Content /\ served' \subseteq Content
      /\ req \in [Req -> Request]
  BY <1>1, CommitRows, RegistryOfType DEF IInv, TypeOK
<1>3. GoodTx(req[t], configs, served)
  BY IInvGood
<1>4. \A u \in Req : GoodTx(req'[u], configs', served')
  <2>1. ASSUME NEW u \in Req PROVE GoodTx(req[u], configs', served')
    <3>1. GoodTx(req[u], configs, served)
      BY IInvGood
    <3>2. \A j \in DOMAIN configs : /\ j \in DOMAIN configs'
                                    /\ configs'[j].rev = configs[j].rev
                                    /\ configs'[j].content = configs[j].content
      BY CommitRows
    <3>3. served' = served
      BY <1>1
    <3> QED BY <3>1, <3>2, <3>3 DEF GoodTx
  <2> QED BY <1>1, <1>2, <2>1, IdleGood
<1>5. NoRevisionGaps'
  <2> SUFFICES ASSUME NEW i \in DOMAIN configs'
               PROVE  configs'[i].rev = 1
                      \/ \E j \in DOMAIN configs' : configs'[j].rev = configs'[i].rev - 1
    BY DEF NoRevisionGaps, Rows
  <2>1. configs'[i].rev = 1
        \/ \E j \in DOMAIN configs : configs[j].rev = configs'[i].rev - 1
    <3>1. CASE i \in DOMAIN configs
      <4>1. configs'[i].rev = configs[i].rev
        BY <3>1, CommitRows
      <4> QED BY <3>1, <4>1 DEF IInv, NoRevisionGaps, Rows
    <3>2. CASE i \notin DOMAIN configs
      <4>1. req[t].rev # 0 /\ configs'[i].rev = req[t].rev
        BY <3>2, CommitRows
      <4> QED BY <1>3, <4>1 DEF GoodTx
    <3> QED BY <3>1, <3>2
  <2> QED BY <2>1, CommitRows
<1>6. AppliedWasServed'
  <2> SUFFICES ASSUME NEW i \in DOMAIN configs', configs'[i].applied
               PROVE  configs'[i].content \in served
    BY <1>1 DEF AppliedWasServed
  <2>1. req[t].ok => req[t].content \in served
    BY <1>3 DEF GoodTx
  <2>2. CASE i \in DOMAIN configs
    BY <2>1, <2>2, CommitRows DEF IInv, AppliedWasServed
  <2>3. CASE i \notin DOMAIN configs
    BY <2>1, <2>3, CommitRows
  <2> QED BY <2>2, <2>3
<1>7. req' = [u \in Req |-> req'[u]] /\ DOMAIN req' = Req
  BY <1>1, <1>2
<1> QED BY <1>2, <1>4, <1>5, <1>6, <1>7, GoodIInv

\* Every step of every request, whatever the others are doing.
LEMMA NextInv == IInv /\ [Next]_vars => IInv'
<1> SUFFICES ASSUME IInv, [Next]_vars PROVE IInv'
  OBVIOUS
<1>1. CASE UNCHANGED vars
  BY <1>1 DEF vars, IInv, TypeOK, EditsChosen, LateFields, RowHolds,
              TakenFollows, OkServed, NoRevisionGaps, AppliedWasServed, Rows
<1>2. ASSUME NEW t \in Req, Arrive(t) PROVE IInv'
  BY <1>2, ArriveInv
<1>3. ASSUME NEW t \in Req, Step(t) PROVE IInv'
  BY <1>3, LoadInv, FlushInv, RenderInv, LatestInv, NumberInv, FetchInv,
     WriteFileInv, WriteFailsInv, MarkInv, CommitInv DEF Step
<1>4. ASSUME NEW t \in Req, Abort(t) PROVE IInv'
  BY <1>4, FinishInv DEF Abort
<1> QED BY <1>1, <1>2, <1>3, <1>4 DEF Next

-----------------------------------------------------------------------------
(* Theorems.                                                               *)

\* The inductive invariant holds for ever.
THEOREM Invariance == Spec => []IInv
<1> QED BY InitInv, NextInv, PTL DEF Spec

\* Every variable keeps its type, for any constants.
THEOREM TypeCorrect == Spec => []TypeOK
<1>1. IInv => TypeOK
  BY DEF IInv
<1> QED BY <1>1, Invariance, PTL

\* The numbers of the stored revisions have no gap, however many requests
\* take a number at once, commit in whatever order, or roll back.
THEOREM RevisionsContiguous == Spec => []NoRevisionGaps
<1>1. IInv => NoRevisionGaps
  BY DEF IInv
<1> QED BY <1>1, Invariance, PTL

\* A revision flagged applied has been served by the edge.
THEOREM AppliedHonest == Spec => []AppliedWasServed
<1>1. IInv => AppliedWasServed
  BY DEF IInv
<1> QED BY <1>1, Invariance, PTL

\* No request ever alters or removes a stored revision.
THEOREM HistoryAppendOnly == Spec => RevisionsAppendOnly
<1> DEFINE Kept == /\ Len(configs') >= Len(configs)
                   /\ \A i \in DOMAIN configs :
                         /\ configs'[i].rev = configs[i].rev
                         /\ configs'[i].content = configs[i].content
<1>1. ASSUME IInv, [Next]_vars PROVE [Kept]_vars
  <2>1. ASSUME UNCHANGED configs PROVE Kept
    <3>1. Len(configs) \in Nat
      BY <1>1 DEF IInv, TypeOK
    <3> QED BY <2>1, <3>1
  <2>2. ASSUME NEW t \in Req, Arrive(t) PROVE UNCHANGED configs
    BY <2>2 DEF Arrive, BeginCreate, BeginEdit, BeginRender, BeginFetch, Begin
  <2>3. ASSUME NEW t \in Req, Abort(t) PROVE UNCHANGED configs
    BY <2>3 DEF Abort
  <2>4. ASSUME NEW t \in Req, Step(t) PROVE UNCHANGED configs \/ Commit(t)
    BY <2>4 DEF Step, Load, Flush, RenderCurrent, Latest, Number, Fetch,
                WriteFile, WriteFails, Mark
  <2>5. ASSUME NEW t \in Req, Commit(t) PROVE Kept
    BY <1>1, <2>5, CommitRows
  <2> QED BY <1>1, <2>1, <2>2, <2>3, <2>4, <2>5 DEF Next
<1>2. IInv /\ [Next]_vars => [Kept]_vars
  BY <1>1
<1>3. Spec => [][Kept]_vars
  BY <1>2, Invariance, PTL DEF Spec
<1> QED BY <1>3 DEF RevisionsAppendOnly
==============================================================================
