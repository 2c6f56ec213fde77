-------------------------- MODULE DeployScriptProofs --------------------------
(***************************************************************************)
(* Theorems about DeployScript, for any number of commits, any set of      *)
(* commits that never become ready and any retention.                      *)
(***************************************************************************)
EXTENDS DeployScript, TLAPS

\* Once the migrations have run, the schema is that of the image that is
\* started next.
MigratedBeforeUp == pc \in {"up", "health", "tag", "again"} => latest = schema

\* After compose up, that image runs.
RunsLatest == pc \in {"health", "tag", "again"} => running = latest

\* The tree is known while its image is built.
TreeKnown == pc # "off" => tree \in Version

\* The image that is migrated, and started next, is that of a commit.
BuiltKnown == pc \in {"migrate", "up", "health", "tag", "again"}
                 => latest \in Version

\* What reported success runs with its own schema, so that its entrypoint
\* finds nothing to migrate and nothing it does not know when it restarts.
\* It is also the image that a backup by hand migrates with.
RestartSafe == reported => /\ pc \in {"off", "backup by hand", "archive by hand"}
                           /\ running = schema /\ latest = schema
                           /\ latest \in Version

\* Up to its dump, such a deployment finds the schema of what ran.
CleanStart == clean /\ pc = "backup" => before = schema /\ running = schema

\* The newest dump is a good one while the retention is still to come.
DumpReady == pc \in {"archive", "archive by hand"}
                => dumps # <<>> /\ dumps[Len(dumps)] # {}

IInv == /\ TypeOK /\ TreeKnown /\ BuiltKnown
        /\ MigratedBeforeUp /\ RunsLatest /\ SchemaCoversCode /\ RestartSafe
        /\ CleanStart /\ DumpReady /\ RestorePoint

\* Commits and images are numbers.
LEMMA Numbers == Version \subseteq Nat /\ Image \subseteq Nat /\ None \in Image
BY VersionsAssumption DEF Version, Image, None

\* The retention keeps the newest dump, and as many as it should.
LEMMA RetainedKeeps ==
    ASSUME NEW s \in Seq(SUBSET Image)
    PROVE  LET t == Retained(s)
           IN  /\ t \in Seq(SUBSET Image)
               /\ Len(s) <= MaxFiles + 1 => Len(t) <= MaxFiles + 1
               /\ s # <<>> => t # <<>> /\ t[Len(t)] = s[Len(s)]
<1>1. CASE Len(s) > Keep
  <2> DEFINE t == SubSeq(s, Len(s) - Keep + 1, Len(s))
  <2>1. Retained(s) = t
    BY <1>1 DEF Retained
  <2>2. Len(s) - Keep + 1 \in 1 .. Len(s) /\ Len(s) \in Nat
    BY <1>1, KeepAssumption
  <2>3. t \in Seq(SUBSET Image) /\ Len(t) = Keep
    BY <1>1, <2>2, KeepAssumption
  <2>4. t[Keep] = s[Len(s)]
    BY <1>1, <2>2, KeepAssumption
  <2>5. t # <<>>
    BY <2>3, KeepAssumption
  <2> QED BY <1>1, <2>1, <2>3, <2>4, <2>5, KeepAssumption
<1>2. CASE ~(Len(s) > Keep)
  BY <1>2 DEF Retained
<1> QED BY <1>1, <1>2

\* A dump that has worked is the newest.
LEMMA DumpAppends ==
    ASSUME NEW s \in Seq(SUBSET Image), NEW d \in SUBSET Image
    PROVE  /\ Append(s, d) \in Seq(SUBSET Image) /\ Append(s, d) # <<>>
           /\ Len(s) <= MaxFiles => Len(Append(s, d)) <= MaxFiles + 1
           /\ Append(s, d)[Len(Append(s, d))] = d
BY KeepAssumption

\* A failed dump adds a file.
LEMMA FailedAppends ==
    ASSUME NEW s \in Seq(SUBSET Image), Len(s) < MaxFiles
    PROVE  /\ Failed(s) \in Seq(SUBSET Image)
           /\ Len(Failed(s)) <= MaxFiles + 1
           /\ DOMAIN s \subseteq DOMAIN Failed(s)
           /\ \A i \in DOMAIN s : Failed(s)[i] = s[i]
BY KeepAssumption DEF Failed

\* Nothing runs at first.
LEMMA InitInv == Init => IInv
<1> SUFFICES ASSUME Init PROVE IInv
  OBVIOUS
<1> USE DEF Init
<1>1. dumps \in Seq(SUBSET Image) /\ Len(dumps) <= MaxFiles + 1
  BY KeepAssumption
<1>2. TypeOK
  BY <1>1, Numbers DEF TypeOK
<1>3. SchemaCoversCode
  BY DEF SchemaCoversCode, None
<1> QED BY <1>2, <1>3 DEF IInv, TreeKnown, BuiltKnown, MigratedBeforeUp,
                          RunsLatest, RestartSafe, CleanStart,
                          DumpReady, RestorePoint

\* Every command, the failing ones included, keeps IInv.
LEMMA NextInv == IInv /\ [Next]_vars => IInv'
<1> SUFFICES ASSUME IInv, [Next]_vars PROVE IInv'
  OBVIOUS
<1> USE Numbers
<1> USE DEF IInv, TypeOK, TreeKnown, BuiltKnown, MigratedBeforeUp, RunsLatest,
            SchemaCoversCode, RestartSafe, CleanStart, Exit
<1> DEFINE After == {"images", "build", "migrate", "up", "health", "tag", "again"}
\* Nearly every step leaves the dumps alone.
<1>0. ASSUME UNCHANGED <<dumps, before, clean>>,
             \/ UNCHANGED pc
             \/ pc' \in After /\ pc \in After
             \/ pc' \in {"off", "backup", "backup by hand"}
      PROVE  DumpReady' /\ RestorePoint'
  BY <1>0 DEF DumpReady, RestorePoint
<1>1. CASE Begin
  <2>1. DumpReady' /\ RestorePoint'
    BY <1>1 DEF Begin, DumpReady, RestorePoint
  <2> QED BY <1>1, <2>1 DEF Begin, Version, Image
<1>2. CASE Backup
  <2>0. dumps \in Seq(SUBSET Image) /\ {schema} \in SUBSET Image
    OBVIOUS
  <2>1. CASE /\ dumps' = Append(dumps, {schema}) /\ Len(dumps) <= MaxFiles
             /\ pc' = IF pc = "backup" THEN "archive" ELSE "archive by hand"
             /\ UNCHANGED clean
    <3>1. /\ Append(dumps, {schema}) \in Seq(SUBSET Image)
          /\ Append(dumps, {schema}) # <<>>
          /\ Len(dumps) <= MaxFiles
                => Len(Append(dumps, {schema})) <= MaxFiles + 1
          /\ Append(dumps, {schema})[Len(Append(dumps, {schema}))] = {schema}
      BY <2>0, DumpAppends
    <3>2. /\ dumps' \in Seq(SUBSET Image) /\ Len(dumps') <= MaxFiles + 1
          /\ dumps' # <<>> /\ dumps'[Len(dumps')] = {schema}
      BY ONLY <2>1, <3>1, Zenon
    <3>3. DumpReady'
      BY <3>2 DEF DumpReady
    <3>4. clean' /\ pc' = "archive" => before' = schema
      BY <1>2, <2>1 DEF Backup
    <3>5. RestorePoint'
      BY <2>1, <3>2, <3>4 DEF RestorePoint
    <3>6. TypeOK'
      BY <1>2, <2>1, <3>2 DEF Backup
    <3> QED BY <1>2, <2>1, <3>3, <3>5, <3>6 DEF Backup
  <2>2. CASE /\ \/ Len(dumps) < MaxFiles /\ dumps' = Failed(dumps)
                \/ UNCHANGED dumps
             /\ pc' = AfterBackup
             /\ clean' = FALSE
    <3>1. dumps' \in Seq(SUBSET Image) /\ Len(dumps') <= MaxFiles + 1
      BY <2>2, FailedAppends
    <3>2. pc' \in {"images", "off"}
      BY <2>2 DEF AfterBackup
    <3>3. DumpReady' /\ RestorePoint'
      BY <2>2, <3>2 DEF DumpReady, RestorePoint
    <3>4. reported => pc' = "off"
      BY <1>2, <2>2 DEF Backup, AfterBackup
    <3> QED BY <1>2, <2>2, <3>1, <3>2, <3>3, <3>4 DEF Backup
  <2> QED BY <1>2, <2>1, <2>2 DEF Backup
<1>14. CASE ByHand
  <2>1. DumpReady' /\ RestorePoint'
    BY <1>0, <1>14 DEF ByHand
  <2>2. tree \in Version
    <3>1. tree \in Image /\ tree # None
      BY <1>14 DEF ByHand
    <3> HIDE DEF IInv
    <3> QED BY <3>1 DEF Image
  <2> QED BY <1>14, <2>1, <2>2 DEF ByHand
<1>15. CASE Archive
  <2>0. /\ dumps \in Seq(SUBSET Image) /\ Len(dumps) <= MaxFiles + 1
        /\ dumps # <<>> /\ dumps[Len(dumps)] # {}
    BY <1>15 DEF Archive, DumpReady
  <2>1. /\ dumps' \in Seq(SUBSET Image) /\ Len(dumps') <= MaxFiles + 1
        /\ dumps' # <<>> /\ dumps'[Len(dumps')] = dumps[Len(dumps)]
    BY <1>15, <2>0, RetainedKeeps DEF Archive
  <2>2. latest' \in Image
    BY <1>15 DEF Archive, ArchiveImage
  <2>3. schema' \in Image /\ schema' >= schema
    <3>1. schema \in Nat /\ schema \in Image
      OBVIOUS
    <3>2. CASE schema' = latest' /\ schema <= latest'
      <4> HIDE DEF IInv
      <4> QED BY <2>2, <3>1, <3>2
    <3>3. CASE UNCHANGED schema
      <4> HIDE DEF IInv
      <4> QED BY <3>1, <3>3
    <3> QED BY <1>15, <3>2, <3>3 DEF Archive, Knows, Migrated
  <2>4. pc' \in {"images", "off"} /\ (pc = "archive by hand" => pc' = "off")
    BY <1>15 DEF Archive, AfterBackup
  <2>5. reported => latest' = latest /\ schema' = schema
    <3> SUFFICES ASSUME reported PROVE latest' = latest /\ schema' = schema
      OBVIOUS
    <3>1. latest = schema /\ latest \in Version
      OBVIOUS
    <3>2. latest # None
      <4> HIDE DEF IInv
      <4> QED BY <3>1 DEF Version, None
    <3>3. latest' = latest
      BY <1>15, <3>2 DEF Archive, ArchiveImage
    <3>4. schema' = latest' \/ schema' = schema
      BY <1>15 DEF Archive, Migrated
    <3> QED BY <3>1, <3>3, <3>4
  <2>6. DumpReady'
    BY <2>4 DEF DumpReady
  <2>7. RestorePoint'
    BY <1>15, <2>1, <2>4 DEF Archive, RestorePoint, AfterBackup
  <2>8. SchemaCoversCode'
    <3>1. running \in Nat /\ schema \in Nat /\ running <= schema
      OBVIOUS
    <3>2. running' = running /\ schema' \in Nat
      BY <1>15, <2>3 DEF Archive
    <3> HIDE DEF IInv
    <3> QED BY <2>3, <3>1, <3>2
  <2>9. TypeOK'
    BY <1>15, <2>1, <2>2, <2>3, <2>4 DEF Archive
  <2>10. RestartSafe'
    BY <1>15, <2>4, <2>5 DEF Archive
  <2> QED BY <1>15, <2>4, <2>6, <2>7, <2>8, <2>9, <2>10 DEF Archive
<1>3. CASE Images
  BY <1>0, <1>3 DEF Images
<1>4. CASE Build
  BY <1>0, <1>4 DEF Build, Version, Image
<1>5. CASE Migrate
  <2>0. DumpReady' /\ RestorePoint'
    BY <1>0, <1>5 DEF Migrate
  <2>1. CASE schema' = latest /\ schema <= latest /\ pc' = "up"
    <3>1. /\ running \in Nat /\ schema \in Nat /\ latest \in Nat
          /\ latest \in Image /\ running <= schema
      OBVIOUS
    <3>2. running <= latest
      <4> HIDE DEF IInv
      <4> QED BY <2>1, <3>1
    <3> QED BY <1>5, <2>0, <2>1, <3>1, <3>2 DEF Migrate
  <2>2. CASE UNCHANGED schema /\ pc' = "off"
    BY <1>5, <2>0, <2>2 DEF Migrate
  <2> QED BY <1>5, <2>1, <2>2 DEF Migrate, Knows, Migrated
<1>6. CASE Up
  <2>0. DumpReady' /\ RestorePoint'
    BY <1>0, <1>6 DEF Up
  <2>1. serving' \in BOOLEAN
    BY <1>6 DEF Up
  <2>2. CASE pc' = "health"
    <3>1. running' = latest /\ latest = schema /\ latest \in Nat
      BY <1>6, <2>2 DEF Up
    <3> QED BY <1>6, <2>0, <2>1, <2>2, <3>1 DEF Up
  <2>3. CASE pc' = "off"
    BY <1>6, <2>0, <2>1, <2>3 DEF Up
  <2> QED BY <1>6, <2>2, <2>3 DEF Up
<1>7. CASE Health
  <2>0. DumpReady' /\ RestorePoint'
    BY <1>0, <1>7 DEF Health
  <2>1. CASE reported' = TRUE /\ pc' = "off"
    <3>1. running' = schema' /\ latest' = schema' /\ latest' \in Version
      BY <1>7 DEF Health
    <3> QED BY <1>7, <2>0, <2>1, <3>1 DEF Health
  <2>2. CASE UNCHANGED reported /\ pc' = "tag"
    BY <1>7, <2>0, <2>2 DEF Health
  <2> QED BY <1>7, <2>1, <2>2 DEF Health
<1>8. CASE Tag
  BY <1>0, <1>8 DEF Tag
<1>9. CASE UpAgain
  <2>0. DumpReady' /\ RestorePoint'
    BY <1>0, <1>9 DEF UpAgain
  <2>1. serving' \in BOOLEAN /\ running' = running
    BY <1>9 DEF UpAgain
  <2> QED BY <1>9, <2>0, <2>1 DEF UpAgain
<1>10. CASE Lost
  BY <1>0, <1>10 DEF Lost
<1>11. CASE Crash
  <2>0. DumpReady' /\ RestorePoint'
    BY <1>0, <1>11 DEF Crash, script
  <2> QED BY <1>11, <2>0 DEF Crash, script
<1>12. CASE Start
  <2>0. DumpReady' /\ RestorePoint'
    BY <1>0, <1>12 DEF Start, script
  <2>1. schema' = schema
    <3>1. schema \in Nat /\ running \in Nat
      OBVIOUS
    <3>2. schema <= running /\ running <= schema /\ schema' = running
      BY <1>12 DEF Start, Knows, Migrated
    <3> HIDE DEF IInv
    <3> QED BY <3>1, <3>2
  <2> QED BY <1>12, <2>0, <2>1 DEF Start, script
<1>13. CASE UNCHANGED vars
  <2>0. DumpReady' /\ RestorePoint'
    BY <1>0, <1>13 DEF vars, script
  <2> QED BY <1>13, <2>0 DEF vars, script
<1> QED BY <1>1, <1>2, <1>3, <1>4, <1>5, <1>6, <1>7, <1>8, <1>9, <1>10, <1>11,
           <1>12, <1>13, <1>14, <1>15
        DEF Next, Script

\* The inductive invariant holds for ever.
THEOREM Invariance == Spec => []IInv
<1> QED BY InitInv, NextInv, PTL DEF Spec

\* Every variable has its type.
THEOREM TypeCorrect == Spec => []TypeOK
<1>1. IInv => TypeOK
  BY DEF IInv
<1> QED BY <1>1, Invariance, PTL

\* The backend never runs against a schema older than its code.
THEOREM SchemaCovers == Spec => []SchemaCoversCode
<1>1. IInv => SchemaCoversCode
  BY DEF IInv
<1> QED BY <1>1, Invariance, PTL

\* A backend whose deployment reported success can be restarted: its code
\* knows the schema, until another deployment begins.
THEOREM Restartable == Spec => [](reported => Knows(running))
<1>1. IInv => (reported => Knows(running))
  <2>1. TypeOK => schema \in Nat
    BY Numbers DEF TypeOK
  <2>2. ASSUME schema \in Nat, running = schema PROVE Knows(running)
    BY <2>2 DEF Knows
  <2> QED BY <2>1, <2>2 DEF IInv, RestartSafe
<1> QED BY <1>1, Invariance, PTL

\* A deployment that follows a success and whose dump has not failed keeps, to
\* its end, a newest dump with the schema of the code that ran before it.
THEOREM PointKept == Spec => []RestorePoint
<1>1. IInv => RestorePoint
  BY DEF IInv
<1> QED BY <1>1, Invariance, PTL

\* A dump that can be restored is never lost without another one in its place.
THEOREM DumpsKept == Spec => BackupKept
<1> DEFINE Good(s) == \E i \in DOMAIN s : s[i] # {}
<1>1. IInv /\ [Next]_vars => [Good(dumps) => Good(dumps')]_vars
  <2> SUFFICES ASSUME IInv, Next, Good(dumps) PROVE Good(dumps')
    OBVIOUS
  <2>1. dumps \in Seq(SUBSET Image) /\ {schema} \in SUBSET Image
    BY DEF IInv, TypeOK
  <2>2. CASE Backup
    <3>1. CASE dumps' = Append(dumps, {schema})
      <4>1. dumps' # <<>> /\ dumps'[Len(dumps')] = {schema}
        BY <2>1, <3>1, DumpAppends
      <4>2. dumps' \in Seq(SUBSET Image)
        BY <2>1, <3>1, DumpAppends
      <4>3. Len(dumps') \in DOMAIN dumps'
        BY <4>1, <4>2
      <4> QED BY <4>1, <4>3
    <3>2. CASE Len(dumps) < MaxFiles /\ dumps' = Failed(dumps)
      BY <2>1, <3>2, FailedAppends
    <3>3. CASE UNCHANGED dumps
      BY <3>3
    <3> QED BY <2>2, <3>1, <3>2, <3>3 DEF Backup
  <2>3. CASE Archive
    <3>1. dumps # <<>> /\ dumps[Len(dumps)] # {}
      BY <2>3 DEF Archive, IInv, DumpReady
    <3>2. /\ dumps' \in Seq(SUBSET Image) /\ dumps' # <<>>
          /\ dumps'[Len(dumps')] = dumps[Len(dumps)]
      BY <2>1, <2>3, <3>1, RetainedKeeps DEF Archive
    <3>3. Len(dumps') \in DOMAIN dumps'
      BY <3>2
    <3> QED BY <3>1, <3>2, <3>3
  <2>4. CASE ~Backup /\ ~Archive
    <3>1. dumps' = dumps
      BY <2>4 DEF Next, Script, Begin, ByHand, Images, Build, Migrate, Up,
                  Health, Tag, UpAgain, Lost, Crash, Start
    <3> QED BY <3>1
  <2> QED BY <2>2, <2>3, <2>4
<1> QED BY <1>1, Invariance, PTL DEF Spec, BackupKept
===============================================================================
