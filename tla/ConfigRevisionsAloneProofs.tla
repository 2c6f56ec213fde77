---------------------- MODULE ConfigRevisionsAloneProofs ----------------------
(***************************************************************************)
(* Theorems about the requests of ConfigRevisions that meet no other: what *)
(* a request may rely on from its first query to its commit, and that the  *)
(* code implements ConfigLedger while requests come one after another.     *)
(***************************************************************************)
EXTENDS ConfigRevisionsProofs

EditOps   == {"create", "publish", "add", "edit"}
RenderOps == {"create", "publish", "apply", "render"}

\* The rows `ORDER BY revision DESC LIMIT 1' may return.
NewestOf(rows) == {i \in DOMAIN rows :
                      \A j \in DOMAIN rows : rows[j].rev <= rows[i].rev}

\* The registry with the change c.
EditedBy(c, reg) == IF c # NoChange /\ c.val # c.seen
                    THEN [reg EXCEPT ![c.pub] = c.val]
                    ELSE reg

(* What a transaction r that is alone knows of the tables and of the file. *)

\* Each operation goes its own way.
OnItsWay(r) ==
    /\ r.pc = "load" => r.op \in {"publish", "edit"}
    /\ r.pc = "flush" => r.op \in EditOps
    /\ r.pc \in {"render", "latest"} => r.op \in RenderOps
    /\ r.pc = "number" => r.op \in RenderOps \cup {"rollback"}
    /\ r.pc = "fetch" => r.op \in {"rollback", "diff"}
    /\ r.pc \in {"write", "mark"} => r.op \in ApplyOps
    /\ r.pc = "commit" => r.op # "diff"
    /\ r.chg # NoChange => r.op \in EditOps
    /\ r.ok => r.op \in ApplyOps
    /\ r.row # 0 => r.op \in RenderOps
    /\ r.rev # 0 => r.op \in RenderOps \cup {"rollback"}

\* The publication is as it was loaded.
ReadsTrue(r, reg) ==
    r.chg # NoChange /\ r.pc # "load" => r.chg.seen = reg[r.chg.pub]

\* The content is the document of the registry it is about to commit, or that
\* of the revision it rolls back to; and it has been written if it is marked.
ContentTrue(r, reg, rows, file) ==
    /\ r.op \in RenderOps /\ r.pc \in {"latest", "number", "write", "mark", "commit"}
          => r.content = Rendered(EditedBy(r.chg, reg))
    /\ r.op = "rollback" /\ r.pc \in {"number", "write", "mark", "commit"}
          => \E i \in DOMAIN rows : /\ rows[i].rev = r.target
                                    /\ rows[i].content = r.content
    /\ r.ok => file = r.content

\* Its number follows every other, and it takes one only for a new content.
NumberTrue(r, rows) ==
    /\ r.rev # 0 => \A i \in DOMAIN rows : rows[i].rev < r.rev
    /\ r.op # "rollback" /\ (r.pc = "number" \/ r.rev # 0)
          => rows = << >> \/ \E i \in NewestOf(rows) : rows[i].content # r.content
    /\ r.row # 0 => r.row \in NewestOf(rows)
    /\ r.op \in RenderOps /\ r.pc \in {"write", "mark", "commit"}
          => r.row # 0 \/ r.rev # 0
    /\ r.op = "rollback" /\ r.pc \in {"write", "mark", "commit"} => r.rev # 0

Knows(r, reg, rows, file) == /\ OnItsWay(r) /\ ReadsTrue(r, reg)
                             /\ ContentTrue(r, reg, rows, file)
                             /\ NumberTrue(r, rows)

\* A request that is alone has no other beside it.
SoloOnly == \A t \in Req : req[t].solo =>
               /\ req[t].pc # "idle"
               /\ \A u \in Req \ {t} : req[u].pc = "idle"

SoloKnows == \A t \in Req : req[t].solo => Knows(req[t], registry, configs, edge)

AloneInv == IInv /\ SoloOnly /\ SoloKnows

-----------------------------------------------------------------------------
(* AloneInv is inductive.                                                  *)

\* The names used in the model and here are the same.
LEMMA Same ==
  /\ Newest = NewestOf(configs)
  /\ \A t \in Req : RegistryOf(t) = EditedBy(req[t].chg, registry)
BY DEF Newest, NewestOf, RegistryOf, EditedBy, Dirty

\* What a session reads, its publication being as loaded, is what it commits.
LEMMA ViewAlone ==
  ASSUME TypeOK, NEW t \in Req, ReadsTrue(req[t], registry), req[t].pc # "load"
  PROVE  View(t) = EditedBy(req[t].chg, registry)
<1>1. req[t] \in Request /\ registry \in Registry
  BY DEF TypeOK
<1>2. CASE req[t].chg = NoChange
  BY <1>2 DEF View, EditedBy
<1>3. CASE req[t].chg # NoChange /\ Dirty(t)
  BY <1>3 DEF View, EditedBy, Dirty
<1>4. CASE req[t].chg # NoChange /\ ~Dirty(t)
  <2>1. req[t].chg \in Change
    BY <1>1, <1>4 DEF Request
  <2>2. req[t].chg.pub \in Pub /\ req[t].chg.val = registry[req[t].chg.pub]
    BY <1>4, <2>1 DEF Change, ReadsTrue, Dirty
  <2>3. [registry EXCEPT ![req[t].chg.pub] = req[t].chg.val] = registry
    BY <1>1, <2>2 DEF Registry
  <2> QED BY <1>4, <2>3 DEF View, EditedBy, Dirty
<1> QED BY <1>2, <1>3, <1>4

\* Nobody is alone at first.
LEMMA InitAlone == Init => AloneInv
<1> SUFFICES ASSUME Init PROVE AloneInv
  OBVIOUS
<1>1. \A t \in Req : ~req[t].solo
  BY DEF Init, Idle
<1> QED BY <1>1, InitInv DEF AloneInv, SoloOnly, SoloKnows

\* A step of a request in flight is a step of the one that is alone, if any.
LEMMA LocalAlone ==
  ASSUME AloneInv, NEW t \in Req, NEW r, req[t].pc # "idle",
         req' = [req EXCEPT ![t] = r],
         r.solo => /\ req[t].solo /\ r.pc # "idle"
                   /\ Knows(r, registry', configs', edge')
  PROVE  SoloOnly' /\ SoloKnows'
<1>1. req'[t] = r /\ \A u \in Req \ {t} : req'[u] = req[u]
  BY DEF AloneInv, IInv, TypeOK
<1>2. \A u \in Req \ {t} : ~req[u].solo
  BY DEF AloneInv, SoloOnly
<1>3. r.solo => \A u \in Req \ {t} : req[u].pc = "idle"
  BY DEF AloneInv, SoloOnly
<1>4. SoloOnly'
  BY <1>1, <1>2, <1>3 DEF SoloOnly
<1>5. SoloKnows'
  BY <1>1, <1>2 DEF SoloKnows
<1> QED BY <1>4, <1>5

\* A step that gives a transaction its next pc and leaves the rest.
LEMMA GotoAlone ==
  ASSUME AloneInv, NEW t \in Req, NEW pc \in PC \ {"idle"}, req[t].pc # "idle",
         Goto(t, pc),
         \A r \in Request :
            /\ req[t].solo /\ Knows(req[t], registry, configs, edge)
            /\ r = [req[t] EXCEPT !.pc = pc] /\ r.pc = pc
            /\ r.op = req[t].op /\ r.chg = req[t].chg /\ r.target = req[t].target
            /\ r.content = req[t].content /\ r.row = req[t].row
            /\ r.rev = req[t].rev /\ r.ok = req[t].ok
            => Knows(r, registry', configs', edge')
  PROVE  SoloOnly' /\ SoloKnows'
<1> DEFINE r == [req[t] EXCEPT !.pc = pc]
<1>1. req[t] \in Request
  BY DEF AloneInv, IInv, TypeOK
<1>2. /\ r \in Request /\ r.pc = pc /\ r.op = req[t].op /\ r.chg = req[t].chg
      /\ r.target = req[t].target /\ r.content = req[t].content
      /\ r.row = req[t].row /\ r.rev = req[t].rev /\ r.ok = req[t].ok
      /\ r.solo = req[t].solo
  BY <1>1 DEF Request, PC
<1>3. req' = [req EXCEPT ![t] = r]
  BY DEF Goto
<1>4. req[t].solo => Knows(req[t], registry, configs, edge)
  BY DEF AloneInv, SoloKnows
<1>5. r.solo => req[t].solo /\ r.pc # "idle" /\ Knows(r, registry', configs', edge')
  BY <1>2, <1>4
<1> HIDE DEF r
<1> QED BY <1>3, <1>5, LocalAlone

\* The end of a transaction, in whatever way.
LEMMA FinishAlone ==
  ASSUME AloneInv, NEW t \in Req, req[t].pc # "idle", Finish(t)
  PROVE  SoloOnly' /\ SoloKnows'
<1>1. req' = [req EXCEPT ![t] = Idle] /\ ~Idle.solo
  BY DEF Finish, Idle
<1> QED BY <1>1, LocalAlone

\* An arrival is alone if nothing was in flight, and then nobody else is.
LEMMA BeginAlone ==
  ASSUME AloneInv, NEW t \in Req, NEW op \in AllOps, NEW first \in PC \ {"idle"},
         NEW chg \in Change \cup {NoChange}, NEW target \in Nat,
         Begin(t, op, first, chg, target),
         \/ /\ first = "load" /\ op \in {"publish", "edit"} /\ chg # NoChange
         \/ /\ first = "flush" /\ op \in {"create", "add"} /\ chg # NoChange
            /\ chg.seen = registry[chg.pub]
         \/ first = "render" /\ op \in {"apply", "render"} /\ chg = NoChange
         \/ first = "fetch" /\ op \in {"rollback", "diff"} /\ chg = NoChange
  PROVE  SoloOnly' /\ SoloKnows'
<1> DEFINE b == [Idle EXCEPT !.pc = first, !.op = op, !.chg = chg,
                             !.target = target, !.solo = (InFlight = {})]
<1>1. /\ req' = [u \in Req |-> IF u = t THEN b ELSE [req[u] EXCEPT !.solo = FALSE]]
      /\ UNCHANGED <<registry, configs, edge, served>>
  BY DEF Begin
<1>2. /\ b.pc = first /\ b.op = op /\ b.chg = chg /\ b.target = target
      /\ b.row = 0 /\ b.rev = 0 /\ b.ok = FALSE /\ b.solo = (InFlight = {})
  BY DEF Idle
<1>3. ASSUME NEW u \in Req \ {t} PROVE ~req'[u].solo /\ req'[u].pc = req[u].pc
  <2>1. req[u] \in Request /\ req'[u] = [req[u] EXCEPT !.solo = FALSE]
    BY <1>1 DEF AloneInv, IInv, TypeOK
  <2> QED BY <2>1 DEF Request
<1>4. req'[t] = b
  BY <1>1
<1> HIDE DEF b
<1>5. SoloOnly'
  <2>1. InFlight = {} => \A u \in Req : req[u].pc = "idle"
    BY DEF InFlight
  <2> QED BY <1>2, <1>3, <1>4, <2>1 DEF SoloOnly
<1>6. Knows(b, registry, configs, edge)
  <2>1. OnItsWay(b)
    BY <1>2 DEF OnItsWay, EditOps, RenderOps
  <2>2. ReadsTrue(b, registry)
    BY <1>2 DEF ReadsTrue
  <2>3. ContentTrue(b, registry, configs, edge)
    BY <1>2 DEF ContentTrue
  <2>4. NumberTrue(b, configs)
    BY <1>2 DEF NumberTrue
  <2> QED BY <2>1, <2>2, <2>3, <2>4 DEF Knows
<1>7. SoloKnows'
  BY <1>1, <1>3, <1>4, <1>6 DEF SoloKnows
<1> QED BY <1>5, <1>7

\* Every arrival is a Begin that knows what it has to.
LEMMA ArriveAlone ==
  ASSUME AloneInv, NEW t \in Req, Arrive(t)
  PROVE  SoloOnly' /\ SoloKnows'
<1> USE DEF AllOps, PC
<1>1. CASE BeginCreate(t)
  <2>1. PICK op \in {"create", "add"}, p \in Pub, v \in Val \ {Absent} :
           /\ registry[p] = Absent
           /\ Begin(t, op, "flush", [pub |-> p, seen |-> Absent, val |-> v], 0)
    BY <1>1 DEF BeginCreate
  <2> DEFINE c == [pub |-> p, seen |-> Absent, val |-> v]
  <2>2. c \in Change /\ c # NoChange /\ c.seen = registry[c.pub]
    BY <2>1, NoChangeAssumption DEF Change, Val
  <2> HIDE DEF c
  <2>3. Begin(t, op, "flush", c, 0)
    BY <2>1 DEF c
  <2> QED BY <2>2, <2>3, BeginAlone
<1>2. CASE BeginEdit(t)
  <2>1. PICK op \in {"publish", "edit"}, p \in Pub, v \in Val :
           Begin(t, op, "load", [pub |-> p, seen |-> Absent, val |-> v], 0)
    BY <1>2 DEF BeginEdit
  <2> DEFINE c == [pub |-> p, seen |-> Absent, val |-> v]
  <2>2. c \in Change /\ c # NoChange
    BY NoChangeAssumption DEF Change, Val
  <2> HIDE DEF c
  <2>3. Begin(t, op, "load", c, 0)
    BY <2>1 DEF c
  <2> QED BY <2>2, <2>3, BeginAlone
<1>3. CASE BeginRender(t)
  BY <1>3, BeginAlone DEF BeginRender
<1>4. CASE BeginFetch(t)
  <2>1. PICK op \in {"rollback", "diff"}, n \in 1 .. Len(configs) + 1 :
           Begin(t, op, "fetch", NoChange, n)
    BY <1>4 DEF BeginFetch
  <2>2. n \in Nat
    BY DEF AloneInv, IInv, TypeOK
  <2> QED BY <2>1, <2>2, BeginAlone
<1> QED BY <1>1, <1>2, <1>3, <1>4 DEF Arrive

\* Loading: the change now says what the registry says.
LEMMA LoadAlone == ASSUME AloneInv, NEW t \in Req, Load(t)
                   PROVE  SoloOnly' /\ SoloKnows'
<1> DEFINE p == req[t].chg.pub
           r == [req[t] EXCEPT !.pc = "flush", !.chg.seen = registry[p]]
<1>1. /\ GoodTx(req[t], configs, served) /\ req[t].pc = "load"
      /\ UNCHANGED <<registry, configs, edge, served>>
  BY IInvGood DEF Load, AloneInv
<1>2. CASE registry[p] = Absent
  BY <1>1, <1>2, FinishAlone DEF Load
<1>3. CASE registry[p] # Absent
  <2>1. req' = [req EXCEPT ![t] = r]
    BY <1>3 DEF Load
  <2>2. req[t].chg \in Change /\ req[t] \in Request
    BY <1>1 DEF GoodTx
  <2>3. /\ r.pc = "flush" /\ r.op = req[t].op /\ r.solo = req[t].solo
        /\ r.chg = [req[t].chg EXCEPT !.seen = registry[p]]
        /\ r.row = req[t].row /\ r.rev = req[t].rev /\ r.ok = req[t].ok
    BY <2>2 DEF Request
  <2>4. r.chg.seen = registry[r.chg.pub] /\ r.row = 0 /\ r.rev = 0 /\ ~r.ok
    <3>1. r.chg.pub = p /\ r.chg.seen = registry[p]
      BY <2>2, <2>3 DEF Change
    <3>2. r.row = 0 /\ r.rev = 0 /\ ~r.ok
      BY <1>1, <2>3 DEF GoodTx
    <3> QED BY <3>1, <3>2
  <2>5. ASSUME req[t].solo PROVE Knows(r, registry, configs, edge)
    <3>1. OnItsWay(req[t])
      BY <2>5 DEF AloneInv, SoloKnows, Knows
    <3>2. r.op \in {"publish", "edit"}
      BY <1>1, <2>3, <3>1 DEF OnItsWay
    <3> HIDE DEF r
    <3>3. OnItsWay(r)
      BY <2>3, <2>4, <3>2 DEF OnItsWay, EditOps
    <3>4. ReadsTrue(r, registry)
      BY <2>4 DEF ReadsTrue
    <3>5. ContentTrue(r, registry, configs, edge)
      BY <2>3, <2>4 DEF ContentTrue
    <3>6. NumberTrue(r, configs)
      BY <2>3, <2>4 DEF NumberTrue
    <3> QED BY <3>3, <3>4, <3>5, <3>6 DEF Knows
  <2> HIDE DEF r
  <2> QED BY <1>1, <2>1, <2>3, <2>5, LocalAlone
<1> QED BY <1>2, <1>3

\* Flushing: whoever is alone finds the row it has loaded.
LEMMA FlushAlone == ASSUME AloneInv, NEW t \in Req, Flush(t)
                    PROVE  SoloOnly' /\ SoloKnows'
<1>1. /\ GoodTx(req[t], configs, served) /\ req[t].pc = "flush"
      /\ UNCHANGED <<registry, configs, edge, served>>
  BY IInvGood DEF Flush, AloneInv
<1>2. req[t].row = 0 /\ req[t].rev = 0 /\ ~req[t].ok
  BY <1>1 DEF GoodTx
<1> DEFINE pc == IF req[t].op \in ApplyOps THEN "render" ELSE "commit"
<1>3. Finish(t) \/ Goto(t, pc)
  BY DEF Flush
<1>4. pc \in PC \ {"idle"}
  BY DEF PC
<1>5. ASSUME NEW r \in Request, Knows(req[t], registry, configs, edge), r.pc = pc,
             r.op = req[t].op, r.chg = req[t].chg, r.row = req[t].row,
             r.rev = req[t].rev, r.ok = req[t].ok
      PROVE  Knows(r, registry, configs, edge)
  <2>1. OnItsWay(req[t]) /\ req[t].op \in EditOps
    BY <1>1, <1>5 DEF Knows, OnItsWay
  <2>2. /\ r.op \in EditOps /\ r.pc \in {"render", "commit"}
        /\ r.pc = "render" => r.op \in ApplyOps
        /\ r.pc = "commit" => r.op \notin ApplyOps
    BY <1>5, <2>1
  <2>3. OnItsWay(r)
    BY <1>2, <1>5, <2>1, <2>2 DEF OnItsWay, EditOps, RenderOps, ApplyOps
  <2>4. ReadsTrue(r, registry)
    BY <1>1, <1>5 DEF Knows, ReadsTrue
  <2>5. ContentTrue(r, registry, configs, edge)
    BY <1>2, <1>5, <2>2 DEF ContentTrue, EditOps, RenderOps, ApplyOps
  <2>6. NumberTrue(r, configs)
    BY <1>2, <1>5, <2>2 DEF NumberTrue, EditOps, RenderOps, ApplyOps
  <2> QED BY <2>3, <2>4, <2>5, <2>6 DEF Knows
<1> HIDE DEF pc
<1> QED BY <1>1, <1>3, <1>4, <1>5, FinishAlone, GotoAlone

\* Rendering: the content is the document of what will be committed.
LEMMA RenderAlone == ASSUME AloneInv, NEW t \in Req, RenderCurrent(t)
                     PROVE  SoloOnly' /\ SoloKnows'
<1> DEFINE r == [req[t] EXCEPT !.pc = "latest", !.content = Rendered(View(t))]
<1>1. /\ GoodTx(req[t], configs, served) /\ req[t].pc = "render"
      /\ UNCHANGED <<registry, configs, edge, served>>
  BY IInvGood DEF RenderCurrent, AloneInv
<1>2. /\ r.pc = "latest" /\ r.op = req[t].op /\ r.chg = req[t].chg
      /\ r.row = req[t].row /\ r.rev = req[t].rev /\ r.ok = req[t].ok
      /\ r.content = Rendered(View(t)) /\ r.solo = req[t].solo
  BY <1>1 DEF GoodTx, Request
<1>3. r.row = 0 /\ r.rev = 0 /\ ~r.ok
  BY <1>1, <1>2 DEF GoodTx
<1>4. req' = [req EXCEPT ![t] = r]
  BY DEF RenderCurrent
<1> HIDE DEF r
<1>5. ASSUME req[t].solo PROVE Knows(r, registry, configs, edge)
  <2>1. Knows(req[t], registry, configs, edge)
    BY <1>5 DEF AloneInv, SoloKnows
  <2>2. r.op \in RenderOps
    BY <1>1, <1>2, <2>1 DEF Knows, OnItsWay
  <2>3. OnItsWay(r)
    BY <1>2, <1>3, <2>1, <2>2 DEF Knows, OnItsWay
  <2>4. ReadsTrue(r, registry)
    BY <1>1, <1>2, <2>1 DEF Knows, ReadsTrue
  <2>5. View(t) = EditedBy(r.chg, registry)
    BY <1>1, <1>2, <2>1, ViewAlone DEF Knows, AloneInv, IInv
  <2>6. ContentTrue(r, registry, configs, edge)
    BY <1>2, <1>3, <2>2, <2>5 DEF ContentTrue, RenderOps
  <2>7. NumberTrue(r, configs)
    BY <1>2, <1>3 DEF NumberTrue
  <2> QED BY <2>3, <2>4, <2>6, <2>7 DEF Knows
<1> QED BY <1>1, <1>2, <1>4, <1>5, LocalAlone

\* Reusing the newest row, or finding that the content is new.
LEMMA LatestAlone == ASSUME AloneInv, NEW t \in Req, Latest(t)
                     PROVE  SoloOnly' /\ SoloKnows'
<1>1. /\ GoodTx(req[t], configs, served) /\ req[t].pc = "latest"
      /\ UNCHANGED <<registry, configs, edge, served>>
  BY IInvGood DEF Latest, AloneInv
<1>2. req[t].row = 0 /\ req[t].rev = 0 /\ ~req[t].ok
  BY <1>1 DEF GoodTx
<1>3. ASSUME Goto(t, "number"),
             configs = << >> \/ \E i \in Newest : configs[i].content # req[t].content
      PROVE  SoloOnly' /\ SoloKnows'
  <2>1. ASSUME NEW r \in Request, Knows(req[t], registry, configs, edge),
               r.pc = "number", r.op = req[t].op, r.chg = req[t].chg,
               r.content = req[t].content, r.row = req[t].row,
               r.rev = req[t].rev, r.ok = req[t].ok
        PROVE  Knows(r, registry, configs, edge)
    <3>1. OnItsWay(r)
      BY <1>1, <1>2, <2>1 DEF Knows, OnItsWay
    <3>2. ReadsTrue(r, registry) /\ r.op \in RenderOps
      BY <1>1, <2>1 DEF Knows, ReadsTrue, OnItsWay
    <3>3. ContentTrue(r, registry, configs, edge)
      BY <1>1, <1>2, <2>1, <3>2 DEF Knows, ContentTrue, RenderOps
    <3>4. NumberTrue(r, configs)
      BY <1>2, <1>3, <2>1, Same DEF NumberTrue
    <3> QED BY <3>1, <3>2, <3>3, <3>4 DEF Knows
  <2>2. "number" \in PC \ {"idle"}
    BY DEF PC
  <2> QED BY <1>1, <1>3, <2>1, <2>2, GotoAlone
<1>4. ASSUME NEW i \in Newest, configs[i].content = req[t].content,
             req' = [req EXCEPT ![t].pc = Stored(t), ![t].row = i,
                                ![t].was = configs[i].applied]
      PROVE  SoloOnly' /\ SoloKnows'
  <2> DEFINE r == [req[t] EXCEPT !.pc = Stored(t), !.row = i,
                                 !.was = configs[i].applied]
  <2>1. /\ r.pc = Stored(t) /\ r.op = req[t].op /\ r.chg = req[t].chg
        /\ r.content = req[t].content /\ r.row = i
        /\ r.rev = req[t].rev /\ r.ok = req[t].ok /\ r.solo = req[t].solo
    BY <1>1 DEF GoodTx, Request
  <2>2. req' = [req EXCEPT ![t] = r]
    BY <1>4
  <2> HIDE DEF r
  <2>3. /\ r.pc \in {"write", "commit"}
        /\ r.pc = "write" => r.op \in ApplyOps
    BY <2>1 DEF Stored
  <2>4. i \in Nat \ {0}
    BY RowType DEF Newest, AloneInv, IInv
  <2>5. ASSUME req[t].solo PROVE Knows(r, registry, configs, edge)
    <3>1. Knows(req[t], registry, configs, edge) /\ r.op \in RenderOps
      BY <1>1, <2>1, <2>5 DEF AloneInv, SoloKnows, Knows, OnItsWay
    <3>2. OnItsWay(r)
      BY <1>2, <2>1, <2>3, <3>1 DEF Knows, OnItsWay, RenderOps
    <3>3. ReadsTrue(r, registry)
      BY <1>1, <2>1, <3>1 DEF Knows, ReadsTrue
    <3>4. ContentTrue(r, registry, configs, edge)
      BY <1>1, <1>2, <2>1, <3>1 DEF Knows, ContentTrue, RenderOps
    <3>5. NumberTrue(r, configs)
      BY <1>2, <2>1, <2>3, <2>4, <3>1, Same DEF NumberTrue, RenderOps
    <3> QED BY <3>2, <3>3, <3>4, <3>5 DEF Knows
  <2>6. r.pc # "idle"
    BY <2>3
  <2> QED BY <1>1, <2>1, <2>2, <2>5, <2>6, LocalAlone
<1>5. \/ /\ Goto(t, "number")
         /\ configs = << >> \/ \E i \in Newest : configs[i].content # req[t].content
      \/ \E i \in Newest : /\ configs[i].content = req[t].content
                           /\ req' = [req EXCEPT ![t].pc = Stored(t), ![t].row = i,
                                        ![t].was = configs[i].applied]
  BY DEF Latest
<1> QED BY <1>3, <1>4, <1>5

\* Taking the next number: it follows every committed one.
LEMMA NumberAlone == ASSUME AloneInv, NEW t \in Req, Number(t)
                     PROVE  SoloOnly' /\ SoloKnows'
<1>1. /\ GoodTx(req[t], configs, served) /\ req[t].pc = "number"
      /\ UNCHANGED <<registry, configs, edge, served>>
  BY IInvGood DEF Number, AloneInv
<1>2. req[t].row = 0 /\ req[t].rev = 0 /\ ~req[t].ok
  BY <1>1 DEF GoodTx
<1>3. PICK n \in NextRevision :
         req' = [req EXCEPT ![t].pc = Stored(t), ![t].rev = n]
  BY DEF Number
<1> DEFINE r == [req[t] EXCEPT !.pc = Stored(t), !.rev = n]
<1>4. /\ r.pc = Stored(t) /\ r.op = req[t].op /\ r.chg = req[t].chg
      /\ r.target = req[t].target /\ r.content = req[t].content
      /\ r.row = req[t].row /\ r.rev = n /\ r.ok = req[t].ok
      /\ r.solo = req[t].solo
  BY <1>1 DEF GoodTx, Request
<1>5. req' = [req EXCEPT ![t] = r]
  BY <1>3
<1> HIDE DEF r
<1>6. /\ r.pc \in {"write", "commit"}
      /\ r.pc = "write" => r.op \in ApplyOps
  BY <1>4 DEF Stored
<1>7. n # 0 /\ \A j \in DOMAIN configs : configs[j].rev < n
  <2>1. n \in Nat \ {0}
    BY NextRevisionFollows DEF AloneInv, IInv
  <2>2. CASE configs = << >>
    BY <2>1, <2>2
  <2>3. CASE configs # << >>
    <3>1. PICK i \in Newest : n = configs[i].rev + 1
      BY <2>3 DEF NextRevision
    <3>2. /\ i \in DOMAIN configs
          /\ \A j \in DOMAIN configs : configs[j].rev <= configs[i].rev
      BY DEF Newest
    <3>3. \A j \in DOMAIN configs : configs[j].rev \in Nat
      BY RowType DEF AloneInv, IInv
    <3> QED BY <2>1, <3>1, <3>2, <3>3
  <2> QED BY <2>2, <2>3
<1>8. ASSUME req[t].solo PROVE Knows(r, registry, configs, edge)
  <2>1. /\ Knows(req[t], registry, configs, edge)
        /\ r.op \in RenderOps \cup {"rollback"}
    BY <1>1, <1>4, <1>8 DEF AloneInv, SoloKnows, Knows, OnItsWay
  <2>2. OnItsWay(r)
    BY <1>2, <1>4, <1>6, <2>1 DEF Knows, OnItsWay, RenderOps
  <2>3. ReadsTrue(r, registry)
    BY <1>1, <1>4, <2>1 DEF Knows, ReadsTrue
  <2>4. ContentTrue(r, registry, configs, edge)
    BY <1>1, <1>2, <1>4, <2>1 DEF Knows, ContentTrue
  <2>5. NumberTrue(r, configs)
    BY <1>1, <1>2, <1>4, <1>7, <2>1 DEF Knows, NumberTrue
  <2> QED BY <2>2, <2>3, <2>4, <2>5 DEF Knows
<1>9. r.pc # "idle"
  BY <1>6
<1> QED BY <1>1, <1>4, <1>5, <1>8, <1>9, LocalAlone

\* Finding the revision to roll back to.
LEMMA FetchAlone == ASSUME AloneInv, NEW t \in Req, Fetch(t)
                    PROVE  SoloOnly' /\ SoloKnows'
<1>1. /\ GoodTx(req[t], configs, served) /\ req[t].pc = "fetch"
      /\ UNCHANGED <<registry, configs, edge, served>>
  BY IInvGood DEF Fetch, AloneInv
<1>2. req[t].row = 0 /\ req[t].rev = 0 /\ ~req[t].ok
  BY <1>1 DEF GoodTx
<1>3. CASE Finish(t)
  BY <1>1, <1>3, FinishAlone
<1>4. ASSUME NEW i \in Rows(req[t].target), req[t].op = "rollback",
             req' = [req EXCEPT ![t].pc = "number",
                                ![t].content = configs[i].content]
      PROVE  SoloOnly' /\ SoloKnows'
  <2> DEFINE r == [req[t] EXCEPT !.pc = "number", !.content = configs[i].content]
  <2>1. /\ r.pc = "number" /\ r.op = "rollback" /\ r.chg = req[t].chg
        /\ r.target = req[t].target /\ r.content = configs[i].content
        /\ r.row = req[t].row /\ r.rev = req[t].rev /\ r.ok = req[t].ok
        /\ r.solo = req[t].solo
    BY <1>1, <1>4 DEF GoodTx, Request
  <2>2. req' = [req EXCEPT ![t] = r]
    BY <1>4
  <2> HIDE DEF r
  <2>3. i \in DOMAIN configs /\ configs[i].rev = r.target
    BY <2>1 DEF Rows
  <2>4. ASSUME req[t].solo PROVE Knows(r, registry, configs, edge)
    <3>1. Knows(req[t], registry, configs, edge)
      BY <2>4 DEF AloneInv, SoloKnows
    <3>2. OnItsWay(r)
      BY <1>2, <1>4, <2>1, <3>1 DEF Knows, OnItsWay
    <3>3. ReadsTrue(r, registry)
      BY <1>1, <2>1, <3>1 DEF Knows, ReadsTrue
    <3>4. ContentTrue(r, registry, configs, edge)
      BY <1>2, <2>1, <2>3 DEF ContentTrue, RenderOps
    <3>5. NumberTrue(r, configs)
      BY <1>2, <2>1 DEF NumberTrue
    <3> QED BY <3>2, <3>3, <3>4, <3>5 DEF Knows
  <2> QED BY <1>1, <2>1, <2>2, <2>4, LocalAlone
<1> QED BY <1>3, <1>4 DEF Fetch

\* A write that fails leaves the transaction as it was.
LEMMA WriteFailsAlone == ASSUME AloneInv, NEW t \in Req, WriteFails(t)
                         PROVE  SoloOnly' /\ SoloKnows'
<1>1. /\ req[t].pc = "write" /\ Goto(t, "mark")
      /\ UNCHANGED <<registry, configs, edge, served>>
  BY DEF WriteFails
<1>2. ASSUME NEW r \in Request, Knows(req[t], registry, configs, edge),
             r.pc = "mark", r.op = req[t].op, r.chg = req[t].chg,
             r.target = req[t].target, r.content = req[t].content,
             r.row = req[t].row, r.rev = req[t].rev, r.ok = req[t].ok
      PROVE  Knows(r, registry, configs, edge)
  BY <1>1, <1>2 DEF Knows, OnItsWay, ReadsTrue, ContentTrue, NumberTrue
<1>3. "mark" \in PC \ {"idle"}
  BY DEF PC
<1> QED BY <1>1, <1>2, <1>3, GotoAlone

\* The flush of the outcome leaves the transaction as it was.
LEMMA MarkAlone == ASSUME AloneInv, NEW t \in Req, Mark(t)
                   PROVE  SoloOnly' /\ SoloKnows'
<1>1. /\ req[t].pc = "mark" /\ Goto(t, "commit")
      /\ UNCHANGED <<registry, configs, edge, served>>
  BY DEF Mark
<1>2. ASSUME NEW r \in Request, Knows(req[t], registry, configs, edge),
             r.pc = "commit", r.op = req[t].op, r.chg = req[t].chg,
             r.target = req[t].target, r.content = req[t].content,
             r.row = req[t].row, r.rev = req[t].rev, r.ok = req[t].ok
      PROVE  Knows(r, registry, configs, edge)
  BY <1>1, <1>2 DEF Knows, OnItsWay, ReadsTrue, ContentTrue, NumberTrue, ApplyOps
<1>3. "commit" \in PC \ {"idle"}
  BY DEF PC
<1> QED BY <1>1, <1>2, <1>3, GotoAlone

\* The file written is the content, and nobody else is there to overwrite it.
LEMMA WriteFileAlone == ASSUME AloneInv, NEW t \in Req, WriteFile(t)
                        PROVE  SoloOnly' /\ SoloKnows'
<1> DEFINE r == [req[t] EXCEPT !.pc = "mark", !.ok = TRUE, !.prev = edge]
<1>1. /\ req' = [req EXCEPT ![t] = r] /\ edge' = req[t].content
      /\ req[t].pc = "write" /\ UNCHANGED <<registry, configs>>
  BY DEF WriteFile
<1>2. /\ r.pc = "mark" /\ r.op = req[t].op /\ r.chg = req[t].chg
      /\ r.target = req[t].target /\ r.content = req[t].content
      /\ r.row = req[t].row /\ r.rev = req[t].rev /\ r.ok = TRUE
      /\ r.solo = req[t].solo
  BY DEF AloneInv, IInv, TypeOK, Request
<1> HIDE DEF r
<1>3. ASSUME req[t].solo PROVE Knows(r, registry, configs, edge')
  <2>1. Knows(req[t], registry, configs, edge)
    BY <1>3 DEF AloneInv, SoloKnows
  <2>2. OnItsWay(r) /\ ReadsTrue(r, registry) /\ NumberTrue(r, configs)
    BY <1>1, <1>2, <2>1 DEF Knows, OnItsWay, ReadsTrue, NumberTrue
  <2>3. ContentTrue(r, registry, configs, edge')
    BY <1>1, <1>2, <2>1 DEF Knows, ContentTrue
  <2> QED BY <2>2, <2>3 DEF Knows
<1> QED BY <1>1, <1>2, <1>3, LocalAlone

\* Every step, whatever the others are doing.
LEMMA NextAlone == AloneInv /\ [Next]_vars => AloneInv'
<1> SUFFICES ASSUME AloneInv, [Next]_vars PROVE AloneInv'
  OBVIOUS
<1>1. IInv'
  BY NextInv DEF AloneInv
<1>2. CASE UNCHANGED vars
  <2>1. SoloOnly' /\ SoloKnows'
    BY <1>2 DEF vars, AloneInv, SoloOnly, SoloKnows
  <2> QED BY <1>1, <2>1 DEF AloneInv
<1>3. ASSUME NEW t \in Req, Arrive(t) PROVE AloneInv'
  BY <1>1, <1>3, ArriveAlone DEF AloneInv
<1>4. ASSUME NEW t \in Req, Step(t) PROVE AloneInv'
  <2>1. ASSUME Commit(t) PROVE SoloOnly' /\ SoloKnows'
    BY <2>1, FinishAlone DEF Commit
  <2> QED BY <1>1, <1>4, <2>1, LoadAlone, FlushAlone, RenderAlone, LatestAlone,
             NumberAlone, FetchAlone, WriteFileAlone, WriteFailsAlone,
             MarkAlone DEF Step, AloneInv
<1>5. ASSUME NEW t \in Req, Abort(t) PROVE AloneInv'
  BY <1>1, <1>5, FinishAlone DEF Abort, AloneInv
<1> QED BY <1>2, <1>3, <1>4, <1>5 DEF Next

\* AloneInv holds for ever.
LEMMA AloneInvariance == Spec => []AloneInv
BY InitAlone, NextAlone, PTL DEF Spec

-----------------------------------------------------------------------------
(* One request after another.                                              *)

\* No two requests are in flight at the same time.
OneAtATime == \A t, u \in InFlight : t = u

\* Then each of them is alone, and a row's number is its place.
AllSolo      == \A t \in InFlight : req[t].solo
NumberedByPlace == \A i \in DOMAIN configs : configs[i].rev = i

SerialInv == AloneInv /\ AllSolo /\ NumberedByPlace

\* The only newest row is the last.
LEMMA NewestIsLast ==
  ASSUME TypeOK, NumberedByPlace
  PROVE  /\ configs # << >> => Newest = {Len(configs)}
         /\ configs = << >> => Newest = {}
<1>1. /\ Len(configs) \in Nat /\ DOMAIN configs = 1 .. Len(configs)
      /\ configs # << >> => Len(configs) # 0
      /\ configs = << >> => DOMAIN configs = {}
  BY DEF TypeOK
<1> QED BY <1>1 DEF Newest, NumberedByPlace

\* The number that is taken is the one of the next place.
LEMMA TakenIsNext ==
  ASSUME SerialInv, NEW t \in Req, req[t].solo, req[t].rev # 0
  PROVE  req[t].rev = Len(configs) + 1
<1>1. /\ \A i \in DOMAIN configs : i < req[t].rev
      /\ req[t].rev = 1 \/ req[t].rev - 1 \in DOMAIN configs
  BY DEF SerialInv, AloneInv, IInv, SoloKnows, Knows, NumberTrue,
         TakenFollows, NumberedByPlace
<1>2. /\ Len(configs) \in Nat /\ DOMAIN configs = 1 .. Len(configs)
      /\ req[t].rev \in Nat
  BY DEF SerialInv, AloneInv, IInv, TypeOK, Request
<1> QED BY <1>1, <1>2

\* Nothing is in flight and nothing is stored at first.
LEMMA InitSerial == Init => SerialInv
<1> SUFFICES ASSUME Init PROVE SerialInv
  OBVIOUS
<1>1. InFlight = {} /\ DOMAIN configs = {}
  BY DEF Init, InFlight, Idle
<1> QED BY <1>1, InitAlone DEF SerialInv, AllSolo, NumberedByPlace

\* A commit puts the row into the place its number says.
LEMMA CommitPlace ==
  ASSUME SerialInv, NEW t \in Req, Commit(t)
  PROVE  NumberedByPlace'
<1>1. req[t].solo
  BY DEF Commit, SerialInv, AllSolo, InFlight
<1>2. CASE req[t].rev # 0
  <2>1. configs' = Append(configs, [rev |-> req[t].rev, content |-> req[t].content,
                                    applied |-> req[t].ok])
    BY <1>2 DEF Commit, ConfigsOf
  <2>2. req[t].rev = Len(configs) + 1
    BY <1>1, <1>2, TakenIsNext
  <2>3. configs \in Seq(Config)
    BY DEF SerialInv, AloneInv, IInv, TypeOK
  <2> HIDE DEF Config
  <2>4. /\ DOMAIN configs' = DOMAIN configs \cup {Len(configs) + 1}
        /\ \A i \in DOMAIN configs : configs'[i] = configs[i]
        /\ configs'[Len(configs) + 1].rev = req[t].rev
    BY <2>1, <2>3
  <2> QED BY <2>2, <2>4 DEF SerialInv, NumberedByPlace
<1>3. CASE req[t].rev = 0
  <2>1. /\ \A i \in DOMAIN configs : configs'[i].rev = configs[i].rev
        /\ DOMAIN configs' \subseteq DOMAIN configs
    BY <1>3, CommitRows DEF SerialInv, AloneInv
  <2> QED BY <2>1 DEF SerialInv, NumberedByPlace
<1> QED BY <1>2, <1>3

\* Every step that leaves at most one request in flight.
LEMMA NextSerial ==
  SerialInv /\ OneAtATime' /\ [Next]_vars => SerialInv'
<1> SUFFICES ASSUME SerialInv, OneAtATime', [Next]_vars PROVE SerialInv'
  OBVIOUS
<1>1. AloneInv' /\ req \in [Req -> Request]
  BY NextAlone DEF SerialInv, AloneInv, IInv, TypeOK
<1>2. CASE UNCHANGED vars
  BY <1>1, <1>2 DEF vars, SerialInv, AllSolo, InFlight, NumberedByPlace
<1>3. ASSUME NEW t \in Req, NEW op, NEW first, NEW chg, NEW target,
             first # "idle", Begin(t, op, first, chg, target)
      PROVE  SerialInv'
  <2>1. /\ req' = [u \in Req |->
                 IF u = t
                 THEN [Idle EXCEPT !.pc = first, !.op = op, !.chg = chg,
                                   !.target = target,
                                   !.solo = (InFlight = {})]
                 ELSE [req[u] EXCEPT !.solo = FALSE]]
        /\ UNCHANGED configs /\ req[t].pc = "idle"
    BY <1>3 DEF Begin
  <2>2. req'[t].pc = first /\ req'[t].solo = (InFlight = {})
    BY <2>1 DEF Idle
  <2>3. ASSUME NEW u \in Req \ {t} PROVE req'[u].pc = req[u].pc
    <3>1. req[u] \in Request /\ req'[u] = [req[u] EXCEPT !.solo = FALSE]
      BY <1>1, <2>1
    <3> QED BY <3>1 DEF Request
  <2>4. InFlight' = {t}
    BY <1>3, <2>2 DEF OneAtATime, InFlight
  <2>5. InFlight = {}
    BY <2>1, <2>3, <2>4 DEF InFlight
  <2>6. AllSolo'
    BY <2>2, <2>4, <2>5 DEF AllSolo
  <2> QED BY <1>1, <2>1, <2>6 DEF SerialInv, NumberedByPlace
<1>4. ASSUME NEW t \in Req, Arrive(t) PROVE SerialInv'
  BY <1>3, <1>4 DEF Arrive, BeginCreate, BeginEdit, BeginRender, BeginFetch
<1>5. ASSUME NEW t \in Req, Step(t) \/ Abort(t) PROVE AllSolo'
  <2> DEFINE Mine == /\ req[t].pc # "idle" /\ \A u \in Req \ {t} : req'[u] = req[u]
                     /\ req'[t].pc # "idle" => req'[t].solo = req[t].solo
  <2>1. req[t] \in Request
    BY <1>1
  <2>2. ASSUME req[t].pc # "idle", Finish(t) PROVE Mine
    BY <1>1, <2>2 DEF Finish, Idle
  <2>3. ASSUME req[t].pc # "idle", NEW pc, Goto(t, pc) PROVE Mine
    BY <1>1, <2>1, <2>3 DEF Goto, Request
  <2>4. ASSUME Load(t) \/ RenderCurrent(t) \/ Latest(t) \/ Number(t) PROVE Mine
    <3>1. req[t].pc # "idle"
      BY <2>4 DEF Load, RenderCurrent, Latest, Number
    <3>2. ASSUME NEW r, req' = [req EXCEPT ![t] = r], r.solo = req[t].solo
          PROVE  Mine
      BY <1>1, <3>1, <3>2
    <3>3. CASE Load(t)
      BY <2>1, <2>2, <3>1, <3>2, <3>3 DEF Load, Request
    <3>4. CASE RenderCurrent(t)
      BY <2>1, <3>2, <3>4 DEF RenderCurrent, Request
    <3>5. CASE Latest(t)
      BY <2>1, <2>3, <3>1, <3>2, <3>5 DEF Latest, Request
    <3>6. CASE Number(t)
      BY <2>1, <3>2, <3>6 DEF Number, Request
    <3> QED BY <2>4, <3>3, <3>4, <3>5, <3>6
  <2>5. ASSUME Fetch(t) PROVE Mine
    BY <1>1, <2>1, <2>2, <2>5 DEF Fetch, Request
  <2>6. ASSUME WriteFile(t) PROVE Mine
    BY <1>1, <2>1, <2>6 DEF WriteFile, Request
  <2>7. ASSUME Flush(t) \/ WriteFails(t) \/ Mark(t) PROVE Mine
    BY <2>2, <2>3, <2>7 DEF Flush, WriteFails, Mark
  <2>8. ASSUME Commit(t) \/ Abort(t) PROVE Mine
    BY <2>2, <2>8 DEF Commit, Abort
  <2>9. Mine
    BY <1>5, <2>4, <2>5, <2>6, <2>7, <2>8 DEF Step
  <2> QED BY <2>9 DEF SerialInv, AllSolo, InFlight
<1>6. ASSUME NEW t \in Req, Step(t) \/ Abort(t) PROVE NumberedByPlace'
  <2>1. UNCHANGED configs \/ Commit(t)
    BY <1>6 DEF Step, Abort, Load, Flush, RenderCurrent, Latest, Number, Fetch,
                WriteFile, WriteFails, Mark
  <2> QED BY <2>1, CommitPlace DEF SerialInv, NumberedByPlace
<1> QED BY <1>1, <1>2, <1>4, <1>5, <1>6 DEF Next, SerialInv

-----------------------------------------------------------------------------
(* While requests come one after another, the code implements ConfigLedger. *)

\* The contents of the stored rows, in order.
History(rows) == [i \in DOMAIN rows |-> rows[i].content]

\* What the edge served before the write that is not committed yet.
Settled(q, file) ==
    LET W == {t \in Req : q[t].pc \in {"mark", "commit"} /\ q[t].ok}
    IN  IF W = {} THEN file ELSE q[CHOOSE t \in W : TRUE].prev

\* The refinement mapping, in these terms.
LEMMA Mapping ==
  Atomic!ledger = <<registry, History(configs), Settled(req, edge)>>
BY DEF Atomic!ledger, History, Settled, Writers

\* Only the request in flight can have written.
LEMMA SettledAlone ==
  ASSUME NEW q, NEW file, NEW t \in Req,
         \A u \in Req \ {t} : q[u].pc \notin {"mark", "commit"}
  PROVE  Settled(q, file) = IF q[t].pc \in {"mark", "commit"} /\ q[t].ok
                            THEN q[t].prev ELSE file
<1> DEFINE W == {u \in Req : q[u].pc \in {"mark", "commit"} /\ q[u].ok}
<1>1. CASE q[t].pc \in {"mark", "commit"} /\ q[t].ok
  <2>1. W = {t}
    BY <1>1
  <2> QED BY <1>1, <2>1 DEF Settled
<1>2. CASE ~(q[t].pc \in {"mark", "commit"} /\ q[t].ok)
  <2>1. W = {}
    BY <1>2
  <2> QED BY <1>2, <2>1 DEF Settled
<1> QED BY <1>1, <1>2

\* The history of the rows and the last of them.
LEMMA HistoryFacts ==
  ASSUME TypeOK
  PROVE  /\ Len(History(configs)) = Len(configs)
         /\ DOMAIN History(configs) = DOMAIN configs
         /\ History(configs) = << >> <=> configs = << >>
         /\ \A i \in DOMAIN configs : History(configs)[i] = configs[i].content
         /\ History(configs) \in Seq(Content)
<1>1. configs \in Seq(Config)
  BY DEF TypeOK
<1>2. \A i \in 1 .. Len(configs) : configs[i].content \in Content
  BY RowType
<1>3. History(configs) = [i \in 1 .. Len(configs) |-> configs[i].content]
  BY <1>1 DEF History
<1>4. History(configs) \in Seq(Content) /\ Len(configs) \in Nat
  BY <1>1, <1>2, <1>3
<1>5. Len(History(configs)) = Len(configs)
  BY <1>1, <1>3, <1>4
<1> QED BY <1>1, <1>3, <1>4, <1>5

\* What a commit that stores a row does to the history.
LEMMA HistoryGrows ==
  ASSUME AloneInv, NEW t \in Req, Commit(t), req[t].rev # 0
  PROVE  History(configs)' = Append(History(configs), req[t].content)
<1>1. configs' = Append(configs, [rev |-> req[t].rev, content |-> req[t].content,
                                  applied |-> req[t].ok])
  BY DEF Commit, ConfigsOf
<1>2. configs \in Seq(Config) /\ TypeOK
  BY DEF AloneInv, IInv, TypeOK
<1> HIDE DEF Config
<1>3. /\ DOMAIN configs' = 1 .. Len(configs) + 1
      /\ \A i \in 1 .. Len(configs) : configs'[i] = configs[i]
      /\ configs'[Len(configs) + 1].content = req[t].content
      /\ DOMAIN configs = 1 .. Len(configs) /\ Len(configs) \in Nat
  BY <1>1, <1>2
<1> DEFINE h == History(configs)
           g == Append(h, req[t].content)
<1>4. req[t].content \in Content
  BY <1>2 DEF TypeOK, Request
<1>5. /\ Len(h) = Len(configs) /\ h \in Seq(Content)
      /\ \A i \in 1 .. Len(configs) : h[i] = configs[i].content
  BY <1>2, <1>3, HistoryFacts
<1> HIDE DEF h
<1>6. /\ DOMAIN g = 1 .. Len(configs) + 1
      /\ \A i \in 1 .. Len(configs) : g[i] = h[i]
      /\ g[Len(configs) + 1] = req[t].content
      /\ g \in Seq(Content)
  BY <1>4, <1>5
<1> HIDE DEF g
<1>7. \A i \in DOMAIN g : g[i] = configs'[i].content
  BY <1>3, <1>5, <1>6
<1>8. g = [i \in DOMAIN g |-> g[i]]
  BY <1>6
<1>9. g = [i \in DOMAIN configs' |-> configs'[i].content]
  BY <1>3, <1>6, <1>7, <1>8
<1> QED BY <1>9 DEF History, h, g

\* What a commit that stores none does to it.
LEMMA HistoryStays ==
  ASSUME AloneInv, NEW t \in Req, Commit(t), req[t].rev = 0
  PROVE  History(configs)' = History(configs)
<1>1. /\ DOMAIN configs' = DOMAIN configs
      /\ \A i \in DOMAIN configs : configs'[i].content = configs[i].content
  BY CommitRows DEF AloneInv
<1> QED BY <1>1 DEF History

\* The history gains the content exactly if the newest row does not hold it.
LEMMA CommitRecords ==
  ASSUME SerialInv, NEW t \in Req, Commit(t), req[t].solo, req[t].op \in RenderOps
  PROVE  IF History(configs) # << >>
            /\ History(configs)[Len(History(configs))] = req[t].content
         THEN History(configs)' = History(configs)
         ELSE History(configs)' = Append(History(configs), req[t].content)
<1>1. /\ AloneInv /\ TypeOK /\ NumberedByPlace
      /\ NumberTrue(req[t], configs) /\ RowHolds
  BY DEF SerialInv, AloneInv, IInv, SoloKnows, Knows
<1>2. /\ Len(configs) \in Nat /\ DOMAIN configs = 1 .. Len(configs)
      /\ configs # << >> => Len(configs) \in DOMAIN configs
  BY <1>1 DEF TypeOK
<1>3. CASE req[t].rev # 0
  <2>1. configs = << >> \/ configs[Len(configs)].content # req[t].content
    <3>1. \/ configs = << >>
          \/ \E i \in Newest : configs[i].content # req[t].content
      BY <1>1, <1>3, Same DEF NumberTrue, RenderOps
    <3> QED BY <1>1, <3>1, NewestIsLast
  <2>2. ~(History(configs) # << >>
          /\ History(configs)[Len(History(configs))] = req[t].content)
    BY <1>1, <1>2, <2>1, HistoryFacts
  <2> QED BY <1>1, <1>3, <2>2, HistoryGrows
<1>4. CASE req[t].rev = 0
  <2>1. req[t].row # 0 /\ req[t].row \in Newest
    BY <1>1, <1>4, Same DEF NumberTrue, Commit
  <2>2. configs # << >> /\ req[t].row = Len(configs)
    BY <1>1, <2>1, NewestIsLast
  <2>3. configs[Len(configs)].content = req[t].content
    BY <1>1, <2>1, <2>2 DEF RowHolds
  <2>4. /\ History(configs) # << >>
        /\ History(configs)[Len(History(configs))] = req[t].content
    BY <1>1, <1>2, <2>2, <2>3, HistoryFacts
  <2> QED BY <1>1, <1>4, <2>4, HistoryStays
<1> QED BY <1>3, <1>4

\* A step that neither commits nor fails changes nothing a caller can see.
LEMMA QuietStep ==
  ASSUME UNCHANGED <<registry, configs>>,
         Settled(req', edge') = Settled(req, edge)
  PROVE  UNCHANGED Atomic!ledger
<1>1. Settled(req, edge)' = Settled(req', edge')
  BY DEF Settled
<1>2. History(configs)' = History(configs)
  BY DEF History
<1> QED BY <1>1, <1>2 DEF Atomic!ledger, History, Settled, Writers

\* A commit is the abstract operation the request asked for.
LEMMA CommitAdvances ==
  ASSUME SerialInv, NEW t \in Req, Commit(t),
         \A u \in Req \ {t} : req[u].pc = "idle"
  PROVE  Atomic!Advance
<1> DEFINE c == req[t].content
           file == IF req[t].ok THEN req[t].prev ELSE edge
<1>1. /\ req[t].solo /\ req[t].pc = "commit" /\ AloneInv /\ TypeOK
      /\ Knows(req[t], registry, configs, edge)
  BY DEF Commit, SerialInv, AllSolo, InFlight, AloneInv, SoloKnows, IInv
<1>2. /\ registry' = EditedBy(req[t].chg, registry) /\ edge' = edge
      /\ req' = [req EXCEPT ![t] = Idle]
  BY Same DEF Commit, Finish
<1>3. Settled(req, edge) = file
  BY <1>1, SettledAlone
<1>4. Settled(req, edge)' = edge
  <2>1. \A u \in Req : req'[u].pc = "idle"
    BY <1>1, <1>2 DEF Idle, TypeOK
  <2>2. Settled(req', edge') = edge'
    BY <2>1, SettledAlone
  <2> QED BY <1>2, <2>2 DEF Settled
<1>5. req[t].ok => edge = c
  BY <1>1 DEF Knows, ContentTrue
<1>6. edge \in {file, c} /\ (~req[t].ok => edge = file)
  BY <1>5
<1>7. Atomic!Edited
  <2>1. CASE registry' = registry
    BY <2>1 DEF Atomic!Edited
  <2>2. CASE registry' # registry
    <3>1. req[t].chg # NoChange /\ req[t] \in Request
      BY <1>1, <1>2, <2>2 DEF EditedBy, TypeOK
    <3>2. req[t].chg \in Change
      BY <3>1 DEF Request
    <3>3. req[t].chg.pub \in Pub /\ req[t].chg.val \in Val
      BY <3>2 DEF Change
    <3>4. registry' = [registry EXCEPT ![req[t].chg.pub] = req[t].chg.val]
      BY <1>2, <2>2 DEF EditedBy
    <3> QED BY <3>3, <3>4 DEF Atomic!Edited, Atomic!Val, Val
  <2> QED BY <2>1, <2>2
<1>8. req[t].op \notin EditOps => registry' = registry
  BY <1>1, <1>2 DEF EditedBy, Knows, OnItsWay
<1> HIDE DEF file
<1>9. CASE req[t].op \in RenderOps
  <2>1. c = Rendered(registry')
    BY <1>1, <1>2, <1>9 DEF Knows, ContentTrue
  <2>2. Atomic!Recorded(c)
    <3>1. IF History(configs) # << >> /\ History(configs)[Len(History(configs))] = c
          THEN History(configs)' = History(configs)
          ELSE History(configs)' = Append(History(configs), c)
      BY <1>1, <1>9, CommitRecords
    <3> QED BY <3>1 DEF Atomic!Recorded, History
  <2>3. c = Atomic!Rendered(registry')
    BY <2>1 DEF Rendered, Atomic!Rendered
  <2>4. CASE req[t].op = "render"
    <3>1. registry' = registry /\ ~req[t].ok
      BY <1>1, <1>8, <2>4 DEF EditOps, Knows, OnItsWay, ApplyOps
    <3>2. Settled(req, edge)' = Settled(req, edge)
      BY <1>3, <1>4, <1>6, <3>1
    <3>3. Atomic!Recorded(Atomic!Rendered(registry))
      BY <2>2, <2>3, <3>1 DEF Atomic!Recorded
    <3> QED BY <3>1, <3>2, <3>3 DEF Atomic!Advance, Atomic!Render, Settled, Writers
  <2>5. CASE req[t].op # "render"
    <3>1. Settled(req, edge)' \in {Settled(req, edge), Atomic!Rendered(registry')}
      BY <1>3, <1>4, <1>6, <2>3
    <3>2. Atomic!Recorded(Atomic!Rendered(registry'))
      BY <2>2, <2>3 DEF Atomic!Recorded
    <3> QED BY <1>7, <3>1, <3>2 DEF Atomic!Advance, Atomic!Publish, Settled, Writers
  <2> QED BY <2>4, <2>5
<1>10. CASE req[t].op = "rollback"
  <2>1. PICK n \in DOMAIN configs : configs[n].content = c
    BY <1>1, <1>10 DEF Knows, ContentTrue
  <2>2. History(configs)' = Append(History(configs), c)
    BY <1>1, <1>10, HistoryGrows DEF Knows, NumberTrue
  <2>3. n \in DOMAIN History(configs) /\ History(configs)[n] = c
    BY <1>1, <2>1, HistoryFacts
  <2>4. /\ History(configs)' = Append(History(configs), History(configs)[n])
        /\ Settled(req, edge)' \in {Settled(req, edge), History(configs)[n]}
        /\ registry' = registry
    BY <1>3, <1>4, <1>6, <1>8, <1>10, <2>2, <2>3 DEF EditOps
  <2> QED BY <2>3, <2>4 DEF Atomic!Advance, Atomic!Rollback, Settled, Writers, History
<1>11. CASE req[t].op \in {"add", "edit"}
  <2>1. ~req[t].ok /\ req[t].rev = 0
    BY <1>1, <1>11 DEF Knows, OnItsWay, ApplyOps, RenderOps
  <2>2. /\ Settled(req, edge)' = Settled(req, edge)
        /\ History(configs)' = History(configs)
    BY <1>1, <1>3, <1>4, <1>6, <2>1, HistoryStays
  <2> QED BY <1>7, <2>2 DEF Atomic!Advance, Atomic!Edit, Settled, Writers, History
<1>12. req[t].op \in RenderOps \cup {"rollback", "add", "edit"}
  <2>1. req[t].op \in AllOps /\ req[t].op # "diff"
    BY <1>1 DEF TypeOK, Request, Knows, OnItsWay
  <2> QED BY <2>1 DEF AllOps, RenderOps
<1> QED BY <1>9, <1>10, <1>11, <1>12

\* A failure leaves the file behind if it has been written.
LEMMA AbortLeaks ==
  ASSUME SerialInv, NEW t \in Req, req[t].pc # "idle", Finish(t),
         UNCHANGED <<registry, configs, edge, served>>,
         \A u \in Req \ {t} : req[u].pc = "idle"
  PROVE  Atomic!Leak
<1>1. req' = [req EXCEPT ![t] = Idle] /\ TypeOK
  BY DEF Finish, SerialInv, AloneInv, IInv
<1>2. \A u \in Req : req'[u].pc = "idle"
  BY <1>1 DEF Idle, TypeOK
<1>3. Settled(req', edge') = edge'
  BY <1>2, SettledAlone
<1>4. edge \in Content
  BY <1>1 DEF TypeOK
<1>5. Settled(req, edge)' \in Content
  BY <1>3, <1>4 DEF Settled
<1>6. History(configs)' = History(configs)
  BY DEF History
<1> QED BY <1>5, <1>6 DEF Atomic!Leak, Atomic!Content, Content, Settled, Writers, History

\* Every step is a step of the ledger or none, while nothing else is in flight.
LEMMA NextAdvances ==
  SerialInv /\ OneAtATime /\ OneAtATime' /\ [Next]_vars
     => [Atomic!Advance]_(Atomic!ledger)
<1> SUFFICES ASSUME SerialInv, OneAtATime, OneAtATime', [Next]_vars
             PROVE  Atomic!Advance \/ UNCHANGED Atomic!ledger
  OBVIOUS
<1>1. req \in [Req -> Request]
  BY DEF SerialInv, AloneInv, IInv, TypeOK
<1>2. CASE UNCHANGED vars
  BY <1>2, QuietStep DEF vars
<1>3. ASSUME NEW t \in Req, req[t].pc # "idle"
      PROVE  \A u \in Req \ {t} : req[u].pc = "idle"
  BY <1>3 DEF OneAtATime, InFlight
<1>4. ASSUME NEW t \in Req, NEW op, NEW first, NEW chg, NEW target,
             first # "idle", Begin(t, op, first, chg, target)
      PROVE  UNCHANGED Atomic!ledger
  <2>1. /\ req' = [u \in Req |->
                 IF u = t
                 THEN [Idle EXCEPT !.pc = first, !.op = op, !.chg = chg,
                                   !.target = target,
                                   !.solo = (InFlight = {})]
                 ELSE [req[u] EXCEPT !.solo = FALSE]]
        /\ UNCHANGED <<registry, configs, edge>> /\ req[t].pc = "idle"
    BY <1>4 DEF Begin
  <2>2. req'[t].pc = first /\ ~req'[t].ok
    BY <2>1 DEF Idle
  <2>3. ASSUME NEW u \in Req \ {t} PROVE req'[u].pc = req[u].pc
    <3>1. req[u] \in Request /\ req'[u] = [req[u] EXCEPT !.solo = FALSE]
      BY <1>1, <2>1
    <3> QED BY <3>1 DEF Request
  <2>4. \A u \in Req \ {t} : req'[u].pc = "idle" /\ req[u].pc = "idle"
    BY <1>4, <2>2, <2>3 DEF OneAtATime, InFlight
  <2>5. Settled(req, edge) = edge
    BY <2>1, <2>4, SettledAlone
  <2>6. Settled(req', edge') = edge'
    BY <2>2, <2>4, SettledAlone
  <2> QED BY <2>1, <2>5, <2>6, QuietStep
<1>5. ASSUME NEW t \in Req, Arrive(t) PROVE UNCHANGED Atomic!ledger
  BY <1>4, <1>5 DEF Arrive, BeginCreate, BeginEdit, BeginRender, BeginFetch
<1>6. ASSUME NEW t \in Req, req[t].pc \notin {"idle", "mark", "commit"},
             \A u \in Req \ {t} : req'[u] = req[u],
             req'[t].pc \notin {"mark", "commit"} \/ ~req'[t].ok \/ req'[t].prev = edge,
             (req'[t].pc \in {"mark", "commit"} /\ req'[t].ok) \/ UNCHANGED edge,
             UNCHANGED <<registry, configs>>
      PROVE  UNCHANGED Atomic!ledger
  <2>1. Settled(req, edge) = edge
    BY <1>3, <1>6, SettledAlone
  <2>2. Settled(req', edge') = edge
    <3>1. \A u \in Req \ {t} : req'[u].pc \notin {"mark", "commit"}
      BY <1>3, <1>6
    <3> QED BY <1>6, <3>1, SettledAlone
  <2> QED BY <1>6, <2>1, <2>2, QuietStep
<1>7. ASSUME NEW t \in Req, Load(t) \/ Flush(t) \/ RenderCurrent(t) \/ Latest(t)
                            \/ Number(t) \/ Fetch(t) \/ WriteFails(t)
      PROVE  UNCHANGED Atomic!ledger
  <2>1. /\ req[t].pc \notin {"idle", "mark", "commit"} /\ ~req[t].ok
        /\ UNCHANGED <<registry, configs, edge>>
    BY <1>7 DEF Load, Flush, RenderCurrent, Latest, Number, Fetch, WriteFails,
                SerialInv, AloneInv, IInv, LateFields
  <2>2. PICK r : req' = [req EXCEPT ![t] = r] /\ ~r.ok
    <3>1. req[t] \in Request /\ ~Idle.ok
      BY <1>1 DEF Idle
    <3>2. CASE Finish(t)
      BY <3>1, <3>2 DEF Finish
    <3>3. CASE \E pc : Goto(t, pc)
      <4>1. PICK pc : Goto(t, pc)
        BY <3>3
      <4> DEFINE s == [req[t] EXCEPT !.pc = pc]
      <4>2. ~s.ok
        BY <2>1, <3>1 DEF Request
      <4>3. req' = [req EXCEPT ![t] = s]
        BY <4>1 DEF Goto
      <4> QED BY <4>2, <4>3
    <3>4. CASE Load(t)
      <4> DEFINE s == [req[t] EXCEPT !.pc = "flush",
                                     !.chg.seen = registry[req[t].chg.pub]]
      <4>1. ~s.ok
        BY <2>1, <3>1 DEF Request
      <4>2. Finish(t) \/ req' = [req EXCEPT ![t] = s]
        BY <3>4 DEF Load
      <4> QED BY <3>2, <4>1, <4>2
    <3>5. CASE RenderCurrent(t)
      <4> DEFINE s == [req[t] EXCEPT !.pc = "latest", !.content = Rendered(View(t))]
      <4>1. ~s.ok
        BY <2>1, <3>1 DEF Request
      <4>2. req' = [req EXCEPT ![t] = s]
        BY <3>5 DEF RenderCurrent
      <4> QED BY <4>1, <4>2
    <3>6. CASE Latest(t)
      <4> DEFINE s(i) == [req[t] EXCEPT !.pc = Stored(t), !.row = i,
                                        !.was = configs[i].applied]
      <4>1. \A i : ~s(i).ok
        BY <2>1, <3>1 DEF Request
      <4>2. Goto(t, "number") \/ \E i \in Newest : req' = [req EXCEPT ![t] = s(i)]
        BY <3>6 DEF Latest
      <4> QED BY <3>3, <4>1, <4>2
    <3>7. CASE Number(t)
      <4> DEFINE s(n) == [req[t] EXCEPT !.pc = Stored(t), !.rev = n]
      <4>1. \A n : ~s(n).ok
        BY <2>1, <3>1 DEF Request
      <4>2. \E n \in NextRevision : req' = [req EXCEPT ![t] = s(n)]
        BY <3>7 DEF Number
      <4> QED BY <4>1, <4>2
    <3>8. CASE Fetch(t)
      <4> DEFINE s(i) == [req[t] EXCEPT !.pc = "number", !.content = configs[i].content]
      <4>1. \A i : ~s(i).ok
        BY <2>1, <3>1 DEF Request
      <4>2. \/ Finish(t)
            \/ \E i \in Rows(req[t].target) : req' = [req EXCEPT ![t] = s(i)]
        BY <3>8 DEF Fetch
      <4> QED BY <3>2, <4>1, <4>2
    <3> QED BY <1>7, <3>2, <3>3, <3>4, <3>5, <3>6, <3>7, <3>8 DEF Flush, WriteFails
  <2>3. req'[t] = r /\ \A u \in Req \ {t} : req'[u] = req[u]
    BY <1>1, <2>2
  <2> QED BY <1>6, <2>1, <2>2, <2>3
<1>8. ASSUME NEW t \in Req, WriteFile(t) PROVE UNCHANGED Atomic!ledger
  <2>1. req' = [req EXCEPT ![t] = [req[t] EXCEPT !.pc = "mark", !.ok = TRUE, !.prev = edge]]
        /\ req[t].pc = "write" /\ UNCHANGED <<registry, configs>>
    BY <1>8 DEF WriteFile
  <2>2. /\ req'[t].pc = "mark" /\ req'[t].ok /\ req'[t].prev = edge
        /\ \A u \in Req \ {t} : req'[u] = req[u]
    BY <1>1, <2>1 DEF Request
  <2> QED BY <1>6, <2>1, <2>2
<1>9. ASSUME NEW t \in Req, Mark(t) PROVE UNCHANGED Atomic!ledger
  <2>1. /\ req[t].pc = "mark" /\ req' = [req EXCEPT ![t].pc = "commit"]
        /\ UNCHANGED <<registry, configs, edge>>
    BY <1>9 DEF Mark, Goto
  <2>2. /\ req'[t].pc = "commit" /\ req'[t].ok = req[t].ok /\ req'[t].prev = req[t].prev
        /\ \A u \in Req \ {t} : req'[u] = req[u]
    BY <1>1, <2>1 DEF Request
  <2>3. \A u \in Req \ {t} : req[u].pc = "idle" /\ req'[u].pc = "idle"
    BY <1>3, <2>1, <2>2
  <2>4. Settled(req, edge) = IF req[t].ok THEN req[t].prev ELSE edge
    BY <2>1, <2>3, SettledAlone
  <2>5. Settled(req', edge') = IF req[t].ok THEN req[t].prev ELSE edge
    BY <2>1, <2>2, <2>3, SettledAlone
  <2> QED BY <2>1, <2>4, <2>5, QuietStep
<1>10. ASSUME NEW t \in Req, Commit(t) PROVE Atomic!Advance
  BY <1>3, <1>10, CommitAdvances DEF Commit
<1>11. ASSUME NEW t \in Req, Abort(t) PROVE Atomic!Advance
  BY <1>3, <1>11, AbortLeaks DEF Abort, Atomic!Advance
<1> QED BY <1>2, <1>5, <1>7, <1>8, <1>9, <1>10, <1>11 DEF Next, Step

-----------------------------------------------------------------------------
(* Theorems.                                                               *)

\* A request that applies with no other in flight leaves at the edge what the
\* registry it commits renders to, or what the chosen revision holds.
THEOREM AloneAppliesLive == Spec => SoloApplyIsLive
<1> DEFINE Live == \A t \in Req :
              Commit(t) /\ req[t].solo /\ req[t].ok =>
                 IF req[t].op = "rollback"
                 THEN \E i \in Rows(req[t].target) : edge' = configs[i].content
                 ELSE edge' = Rendered(registry')
<1>1. AloneInv => Live
  <2> SUFFICES ASSUME AloneInv, NEW t \in Req, Commit(t), req[t].solo, req[t].ok
               PROVE  IF req[t].op = "rollback"
                      THEN \E i \in Rows(req[t].target) : edge' = configs[i].content
                      ELSE edge' = Rendered(registry')
    OBVIOUS
  <2>1. /\ OnItsWay(req[t]) /\ ContentTrue(req[t], registry, configs, edge)
        /\ req[t].pc = "commit" /\ edge' = edge
        /\ registry' = EditedBy(req[t].chg, registry)
    BY Same DEF AloneInv, SoloKnows, Knows, Commit
  <2>2. edge = req[t].content /\ req[t].op \in ApplyOps
    BY <2>1 DEF ContentTrue, OnItsWay
  <2> QED BY <2>1, <2>2 DEF ContentTrue, ApplyOps, RenderOps, Rows
<1>2. AloneInv => [Live]_vars
  BY <1>1
<1>3. Spec => [][Live]_vars
  BY <1>2, AloneInvariance, PTL
<1> QED BY <1>3 DEF SoloApplyIsLive

\* A request alone in flight inserts the next number, used by no other row,
\* and unless it rolls back, only a content that differs from the newest.
THEOREM AloneRevisionIsNew == Spec => SoloRevisionIsNew
<1> DEFINE New == \A t \in Req :
         Commit(t) /\ req[t].solo /\ Len(configs') > Len(configs) =>
            /\ \A i \in DOMAIN configs : configs[i].rev < req[t].rev
            /\ req[t].op # "rollback" =>
                  configs = << >>
                  \/ \E i \in Newest : configs[i].content # req[t].content
<1>1. AloneInv => New
  <2> SUFFICES ASSUME AloneInv, NEW t \in Req, Commit(t), req[t].solo,
                      Len(configs') > Len(configs)
               PROVE  /\ \A i \in DOMAIN configs : configs[i].rev < req[t].rev
                      /\ req[t].op # "rollback" =>
                            configs = << >>
                            \/ \E i \in Newest : configs[i].content # req[t].content
    OBVIOUS
  <2>1. NumberTrue(req[t], configs)
    BY DEF AloneInv, SoloKnows, Knows
  <2>2. req[t].rev # 0
    <3>1. /\ configs' \in Seq(Config) /\ configs \in Seq(Config)
          /\ req[t].rev = 0 => DOMAIN configs' \subseteq DOMAIN configs
      BY CommitRows DEF AloneInv, IInv, TypeOK
    <3>2. /\ Len(configs') \in Nat /\ DOMAIN configs' = 1 .. Len(configs')
          /\ Len(configs) \in Nat /\ DOMAIN configs = 1 .. Len(configs)
      BY <3>1
    <3>3. Len(configs') \in DOMAIN configs' /\ Len(configs') \notin DOMAIN configs
      BY <3>2
    <3> QED BY <3>1, <3>3
  <2> QED BY <2>1, <2>2, Same DEF NumberTrue
<1>2. AloneInv => [New]_vars
  BY <1>1
<1>3. Spec => [][New]_vars
  BY <1>2, AloneInvariance, PTL
<1> QED BY <1>3 DEF SoloRevisionIsNew

\* While requests come one after another, each is alone and rows are
\* numbered by their place.
LEMMA SerialInvariance == Spec /\ []OneAtATime => []SerialInv
BY InitSerial, NextSerial, PTL DEF Spec

\* While requests come one after another, a number names one revision.
THEOREM NumbersNameRevisions == Spec /\ []OneAtATime => []RevisionsAddressable
<1>1. SerialInv => RevisionsAddressable
  BY DEF SerialInv, NumberedByPlace, RevisionsAddressable
<1> QED BY <1>1, SerialInvariance, PTL

\* While requests come one after another, each takes effect on the registry,
\* the revisions and the edge in one step, or leaks the file it wrote.
THEOREM ImplementsLedger == Spec /\ []OneAtATime => AtomicWhenAlone
<1>1. Init => Atomic!Start
  <2> SUFFICES ASSUME Init PROVE Atomic!Start
    OBVIOUS
  <2>1. Writers = {} /\ configs = << >> /\ registry = [p \in Pub |-> Absent]
        /\ edge = NoRoutes
    BY DEF Init, Writers, Idle
  <2>2. [i \in DOMAIN configs |-> configs[i].content] = << >>
    BY <2>1
  <2> QED BY <2>1, <2>2 DEF Atomic!Start, Atomic!NoRoutes, NoRoutes
<1>2. Spec /\ []OneAtATime => Atomic!Start /\ [][Atomic!Advance]_(Atomic!ledger)
  BY <1>1, NextAdvances, SerialInvariance, PTL DEF Spec
<1> QED BY <1>2 DEF AtomicWhenAlone, Atomic!Ledger
==============================================================================
