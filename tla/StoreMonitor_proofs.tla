------------------------ MODULE StoreMonitor_proofs ------------------------
(***************************************************************************)
(* Theorems about StoreMonitor, for any number of workers, stores, ids and *)
(* versions and any retention: runs are numbered without gaps and          *)
(* retention keeps the newest ones; while every homepage can be reached, a *)
(* delta is against the last run; a registered store is on its schedule,   *)
(* but for one whose registration or removal raised, until the restart; in *)
(* Postgres the runs of a store are its own.                               *)
(***************************************************************************)
EXTENDS StoreMonitor, FiniteSetTheorems, TLAPS

-----------------------------------------------------------------------------
(* Runs and their retention.                                               *)

\* Runs have different numbers, no larger than how many were filed.
Numbered ==
  \A i \in Ids :
    /\ \A r \in history[i] : r.no \in 1..filed[i]
    /\ \A r, q \in history[i] : r.no = q.no => r = q

\* What a finalization found too old stays too old.
DropsOld ==
  \A w \in Workers : pc[w] = "chosen" =>
    \A r \in drop[w] : r.no + Retain <= filed[task[w].id]

RunsInv == TypeOK /\ Numbered /\ DropsOld /\ NewestKept

\* The newest run of a store is the last one filed.
LEMMA NewestIsFiled ==
  ASSUME TypeOK, Numbered, NewestKept, NEW i \in Ids
  PROVE  Newest(i) = filed[i]
<1> USE RetainAssumption
<1>1. filed[i] \in Nat
  BY DEF TypeOK
<1>2. CASE filed[i] = 0
  <2>1. history[i] = {}
    BY <1>2 DEF Numbered
  <2>2. QED
    BY <2>1, <1>2 DEF Newest
<1>3. CASE filed[i] # 0
  <2>1. PICK r \in history[i] : r.no = filed[i]
    <3>1. filed[i] \in 1..filed[i] /\ filed[i] + Retain > filed[i]
      BY <1>1, <1>3
    <3>2. QED
      BY <3>1 DEF NewestKept
  <2> DEFINE S == {q.no : q \in history[i]}
  <2>2. filed[i] \in S /\ \A n \in S : n \in 1..filed[i]
    BY <2>1 DEF Numbered
  <2>3. \A m \in S : (\A n \in S : m >= n) => m = filed[i]
    BY <2>2, <1>1
  <2>4. \A n \in S : filed[i] >= n
    BY <2>2, <1>1
  <2>5. Max(S) \in S /\ \A n \in S : Max(S) >= n
    BY <2>2, <2>4 DEF Max
  <2>6. Max(S) = filed[i]
    BY <2>3, <2>5
  <2>7. QED
    BY <2>1, <2>6 DEF Newest
<1>4. QED
  BY <1>2, <1>3

\* A run that has Retain newer ones is that far behind the last one filed.
LEMMA OutdatedAreOld ==
  ASSUME TypeOK, Numbered, NEW i \in Ids, NEW r \in Outdated(i)
  PROVE  r.no + Retain <= filed[i]
<1> USE RetainAssumption
<1>1. filed[i] \in Nat /\ r \in history[i] /\ r.no \in 1..filed[i]
  BY DEF TypeOK, Numbered, Outdated
<1> DEFINE T == (r.no + 1)..filed[i]
           f == [q \in Newer(i, r) |-> q.no]
<1>2. \A q \in Newer(i, r) : q \in history[i] /\ q.no \in T
  <2> SUFFICES ASSUME NEW q \in Newer(i, r) PROVE q \in history[i] /\ q.no \in T
    OBVIOUS
  <2>1. q \in history[i] /\ q.no > r.no
    BY DEF Newer
  <2>2. q.no \in 1..filed[i]
    BY <2>1 DEF Numbered
  <2>3. QED
    BY <2>1, <2>2, <1>1
<1>3. \A p, q \in Newer(i, r) : p.no = q.no => p = q
  BY <1>2 DEF Numbered
<1>4. f \in Injection(Newer(i, r), T)
  BY <1>2, <1>3 DEF Injection, IsInjective
<1>5. IsFiniteSet(T) /\ Cardinality(T) = filed[i] - r.no
  <2>1. r.no + 1 \in Int /\ filed[i] \in Int
    BY <1>1
  <2>2. IsFiniteSet(T) /\ Cardinality(T) = IF r.no + 1 > filed[i] THEN 0 ELSE filed[i] - (r.no + 1) + 1
    BY <2>1, FS_Interval
  <2>3. QED
    BY <2>2, <1>1
<1> HIDE DEF T, f
<1>6. IsFiniteSet(Newer(i, r)) /\ Cardinality(Newer(i, r)) <= Cardinality(T)
  BY <1>4, <1>5, FS_Injection
<1>7. Cardinality(Newer(i, r)) \in Nat
  BY <1>6, FS_CardinalityType
<1>8. Cardinality(Newer(i, r)) >= Retain
  BY DEF Outdated
<1>9. QED
  BY <1>1, <1>5, <1>6, <1>7, <1>8

LEMMA InitRuns == Init => RunsInv
<1> SUFFICES ASSUME Init PROVE RunsInv
  OBVIOUS
<1> USE BoundsAssumption
<1>1. TypeOK
  BY DEF Init, TypeOK, Versions, Places, Tasks, Modes, Keys
<1>2. Numbered /\ DropsOld /\ NewestKept
  BY RetainAssumption DEF Init, Numbered, DropsOld, NewestKept
<1>3. QED
  BY <1>1, <1>2 DEF RunsInv

\* The row of a registered store.
LEMMA RowType ==
  ASSUME TypeOK, NEW i \in Registered
  PROVE  i \in Ids /\ stores[i] \in [url : Urls, mode : Modes]
BY DEF TypeOK, Registered

\* A worker at work has a task, on an id and in the shape of Tasks.
LEMMA TaskType ==
  ASSUME TypeOK, NEW w \in Workers, pc[w] # "idle"
  PROVE  /\ task[w] \in Tasks /\ task[w].id \in Ids /\ task[w].url \in Urls
         /\ task[w].seen \in Versions
         /\ \A row \in Rows : Key(w, row) \in Keys
BY DEF TypeOK, Tasks, Key, Keys

LEMMA VisitType ==
  ASSUME TypeOK, NEW i \in Registered, NEW kind \in {"full", "cheap"},
         NEW reached \in BOOLEAN
  PROVE  Visit(i, kind, reached) \in Tasks
BY RowType DEF TypeOK, Visit, Tasks

LEMMA WrittenType ==
  ASSUME TypeOK, NEW w \in Workers, pc[w] # "idle", NEW row \in Rows
  PROVE  Written(w, row) \in [Keys -> 0..MaxVersion]
<1>1. task[w].seen \in 0..MaxVersion
  BY TaskType, BoundsAssumption DEF Versions
<1>2. QED
  BY <1>1 DEF TypeOK, Written

\* The types of what a worker alone changes, and of what only admins change.
WorkTypeOK ==
  /\ pc \in [Workers -> Places]
  /\ task \in [Workers -> Tasks \cup {NoTask}]
  /\ \A w \in Workers : pc[w] # "idle" => task[w] \in Tasks
  /\ had \in [Workers -> 0..MaxVersion]
  /\ base \in [Workers -> Nat]
  /\ drop \in [Workers -> SUBSET [no : Nat, of : Urls]]

RowTypeOK ==
  /\ stores \in [Ids -> [url : Urls, mode : Modes] \cup {NoStore}]
  /\ lastId \in 0..MaxId
  /\ jobs \in [Ids -> SUBSET {"full", "cheap"}]
  /\ joining \in [Ids -> [at : {"no", "committed", "refreshed"},
                         mode : SUBSET {"full", "cheap"}]]
  /\ removing \subseteq Ids
  /\ stranded \subseteq Ids

RunTypeOK ==
  /\ history \in [Ids -> SUBSET [no : Nat, of : Urls]]
  /\ filed \in [Ids -> Nat]
  /\ audited \in [Ids -> [Urls -> 0..MaxVersion]]

LEMMA TypeSplit ==
  TypeOK <=> /\ site \in [Urls -> Versions]
             /\ snapshot \in [Keys -> 0..MaxVersion]
             /\ WorkTypeOK /\ RowTypeOK /\ RunTypeOK
BY DEF TypeOK, WorkTypeOK, RowTypeOK, RunTypeOK

LEMMA TypeNext ==
  ASSUME site' \in [Urls -> Versions], snapshot' \in [Keys -> 0..MaxVersion],
         WorkTypeOK', RowTypeOK', RunTypeOK'
  PROVE  TypeOK'
BY DEF TypeOK, WorkTypeOK, RowTypeOK, RunTypeOK

LEMMA WorkUnchanged ==
  ASSUME WorkTypeOK, UNCHANGED workVars
  PROVE  WorkTypeOK'
BY DEF WorkTypeOK, workVars

LEMMA RowsUnchanged ==
  ASSUME RowTypeOK, UNCHANGED rowVars
  PROVE  RowTypeOK'
BY DEF RowTypeOK, rowVars

LEMMA RunsUnchanged ==
  ASSUME RunTypeOK, UNCHANGED runVars
  PROVE  RunTypeOK'
BY DEF RunTypeOK, runVars

LEMMA IdleType ==
  ASSUME WorkTypeOK, NEW w \in Workers, Idle(w)
  PROVE  WorkTypeOK'
<1> USE BoundsAssumption
<1>1. pc' \in [Workers -> Places] /\ task' \in [Workers -> Tasks \cup {NoTask}]
  BY DEF WorkTypeOK, Idle, Places
<1>2. \A v \in Workers : pc'[v] # "idle" => task'[v] \in Tasks
  BY DEF WorkTypeOK, Idle
<1>3. /\ had' \in [Workers -> 0..MaxVersion]
      /\ base' \in [Workers -> Nat]
      /\ drop' \in [Workers -> SUBSET [no : Nat, of : Urls]]
  BY DEF WorkTypeOK, Idle
<1>4. QED
  BY <1>1, <1>2, <1>3 DEF WorkTypeOK

LEMMA CrawlType ==
  ASSUME TypeOK, NEW w \in Workers, NEW i \in Registered, NEW kind \in {"full", "cheap"},
         Crawl(w, i, kind)
  PROVE  TypeOK'
<1> USE BoundsAssumption
<1>1. PICK reached \in BOOLEAN : task' = [task EXCEPT ![w] = Visit(i, kind, reached)]
  BY FlagsAssumption DEF Crawl
<1>2. Visit(i, kind, reached) \in Tasks
  BY VisitType
<1>3. WorkTypeOK'
  BY <1>1, <1>2 DEF TypeOK, WorkTypeOK, Crawl, Places
<1>4. UNCHANGED <<site, snapshot>> /\ UNCHANGED rowVars /\ UNCHANGED runVars
  BY DEF Crawl
<1>5. QED
  BY <1>3, <1>4, TypeSplit, TypeNext, RowsUnchanged, RunsUnchanged

\* What an admin's or a merchant's step leaves alone.
LEMMA OthersType ==
  ASSUME TypeOK, UNCHANGED snapshot, UNCHANGED runVars, UNCHANGED workVars,
         RowTypeOK', site' \in [Urls -> Versions]
  PROVE  TypeOK'
BY TypeSplit, TypeNext, RunsUnchanged, WorkUnchanged

\* What a worker's step that files nothing leaves alone.
LEMMA WorkerType ==
  ASSUME TypeOK, UNCHANGED site, UNCHANGED rowVars, UNCHANGED runVars,
         WorkTypeOK', snapshot' \in [Keys -> 0..MaxVersion]
  PROVE  TypeOK'
BY TypeSplit, TypeNext, RunsUnchanged, RowsUnchanged

LEMMA NextType ==
  ASSUME RunsInv, [Next]_vars
  PROVE  TypeOK'
<1> USE BoundsAssumption
<1>0. TypeOK /\ Numbered /\ NewestKept /\ WorkTypeOK /\ RowTypeOK /\ RunTypeOK
  BY TypeSplit DEF RunsInv
<1>1. ASSUME NEW u \in Urls, Edit(u) PROVE TypeOK'
  <2>1. site' \in [Urls -> Versions]
    BY <1>0, <1>1 DEF Edit, TypeOK, Versions
  <2>2. UNCHANGED rowVars /\ UNCHANGED snapshot /\ UNCHANGED runVars /\ UNCHANGED workVars
    BY <1>1 DEF Edit
  <2>3. QED
    BY <2>1, <2>2, <1>0, OthersType, RowsUnchanged
<1>2. ASSUME NEW u \in Urls, NEW mode \in Modes, Register(u, mode) PROVE TypeOK'
  <2>1. NewId \in Ids /\ mode \in SUBSET {"full", "cheap"}
    BY <1>2 DEF Register, Modes
  <2>2. stores' \in [Ids -> [url : Urls, mode : Modes] \cup {NoStore}]
    BY <1>0, <1>2, <2>1 DEF Register, RowTypeOK
  <2>3. lastId' \in 0..MaxId
    BY <1>2, <2>1 DEF Register, Ids
  <2>4. joining' \in [Ids -> [at : {"no", "committed", "refreshed"},
                              mode : SUBSET {"full", "cheap"}]]
    BY <1>0, <1>2, <2>1 DEF Register, RowTypeOK
  <2>5. UNCHANGED <<site, jobs, removing, stranded, snapshot>> /\ UNCHANGED runVars /\ UNCHANGED workVars
    BY <1>2 DEF Register
  <2>6. RowTypeOK'
    BY <1>0, <2>2, <2>3, <2>4, <2>5 DEF RowTypeOK
  <2>7. QED
    BY <2>5, <2>6, <1>0, OthersType, TypeSplit
<1>3. ASSUME NEW i \in Ids, BeginRemove(i) \/ AdminStep(i) PROVE TypeOK'
  <2>1. UNCHANGED <<site, snapshot>> /\ UNCHANGED runVars /\ UNCHANGED workVars
    BY <1>3 DEF BeginRemove, AdminStep, Refresh, RefreshFails, Schedule, EndRemove, RemoveFails
  <2>2. CASE BeginRemove(i)
    BY <2>1, <2>2, <1>0, OthersType, TypeSplit DEF BeginRemove, RowTypeOK
  <2>3. CASE Refresh(i)
    BY <2>1, <2>3, <1>0, OthersType, TypeSplit DEF Refresh, RowTypeOK
  <2>4. CASE Schedule(i)
    BY <2>1, <2>4, <1>0, OthersType, TypeSplit DEF Schedule, RowTypeOK
  <2>5. CASE EndRemove(i)
    BY <2>1, <2>5, <1>0, OthersType, TypeSplit DEF EndRemove, RowTypeOK
  <2>6. CASE RefreshFails(i)
    BY <2>1, <2>6, <1>0, OthersType, TypeSplit DEF RefreshFails, RowTypeOK
  <2>7. CASE RemoveFails(i)
    BY <2>1, <2>7, <1>0, OthersType, TypeSplit DEF RemoveFails, RowTypeOK
  <2>8. QED
    BY <1>3, <2>2, <2>3, <2>4, <2>5, <2>6, <2>7 DEF AdminStep
<1>4. ASSUME NEW w \in Workers, Idle(w), UNCHANGED <<site, rowVars, snapshot, runVars>>
      PROVE  TypeOK'
  <2>1. UNCHANGED <<site, snapshot>> /\ UNCHANGED rowVars /\ UNCHANGED runVars
    BY <1>4
  <2>2. QED
    BY <2>1, <1>0, <1>4, IdleType, WorkerType, TypeSplit
<1>5. ASSUME NEW w \in Workers, NEW i \in Ids, StartCheck(w, i) PROVE TypeOK'
  <2>1. Visit(i, "cheap", TRUE) \in Tasks
    BY <1>0, <1>5, VisitType DEF StartCheck
  <2>2. WorkTypeOK'
    BY <1>0, <1>5, <2>1 DEF StartCheck, WorkTypeOK, Places
  <2>3. UNCHANGED <<site, snapshot>> /\ UNCHANGED rowVars /\ UNCHANGED runVars
    BY <1>5 DEF StartCheck
  <2>4. QED
    BY <2>2, <2>3, <1>0, WorkerType, TypeSplit
<1>6. ASSUME NEW w \in Workers, NEW i \in Ids, StartAudit(w, i) PROVE TypeOK'
  BY <1>0, <1>6, CrawlType DEF StartAudit
<1>7. ASSUME NEW w \in Workers, Recheck(w) PROVE TypeOK'
  BY <1>0, <1>7, CrawlType DEF Recheck
<1>8. ASSUME NEW w \in Workers, Look(w) \/ Load(w) PROVE TypeOK'
  <2>1. pc[w] # "idle"
    BY <1>8 DEF Look, Load
  <2>2. snapshot[Key(w, "registered")] \in 0..MaxVersion /\ snapshot[Key(w, HomeRow)] \in 0..MaxVersion
    BY <1>0, <2>1, TaskType, FlagsAssumption DEF TypeOK, Rows
  <2>3. /\ had' \in [Workers -> 0..MaxVersion]
        /\ pc' \in [Workers -> Places] /\ \A v \in Workers : pc[v] # pc'[v] => v = w
    BY <1>0, <1>8, <2>2 DEF Look, Load, WorkTypeOK, Places
  <2>4. UNCHANGED <<site, snapshot, task, base, drop>> /\ UNCHANGED rowVars /\ UNCHANGED runVars
    BY <1>8 DEF Look, Load
  <2>5. task[w] \in Tasks
    BY <2>1, <1>0, TaskType
  <2>6. WorkTypeOK'
    BY <1>0, <2>3, <2>4, <2>5 DEF WorkTypeOK
  <2>7. QED
    BY <2>4, <2>6, <1>0, WorkerType, TypeSplit
<1>9. ASSUME NEW w \in Workers, Note(w) PROVE TypeOK'
  <2>1. pc[w] # "idle" /\ task[w] \in Tasks
    BY <1>0, <1>9, TaskType DEF Note
  <2>2. snapshot' \in [Keys -> 0..MaxVersion]
    BY <1>0, <1>9, <2>1, WrittenType DEF Note, Rows
  <2>3. UNCHANGED site /\ UNCHANGED rowVars /\ UNCHANGED runVars
    BY <1>9 DEF Note
  <2>4. WorkTypeOK'
    <3>1. CASE Changed(w)
      BY <1>0, <1>9, <2>1, <3>1 DEF Note, WorkTypeOK, Places
    <3>2. CASE ~Changed(w)
      BY <1>0, <1>9, <3>2, IdleType DEF Note
    <3>3. QED
      BY <3>1, <3>2
  <2>5. QED
    BY <2>2, <2>3, <2>4, <1>0, WorkerType
<1>10. ASSUME NEW w \in Workers, Save(w) PROVE TypeOK'
  <2>1. pc[w] # "idle" /\ task[w] \in Tasks /\ task[w].id \in Ids
    BY <1>0, <1>10, TaskType DEF Save
  <2>2. PreviousRun(task[w].id) \in Nat
    BY <1>0, <2>1, NewestIsFiled DEF PreviousRun, RunTypeOK
  <2>3. WorkTypeOK'
    BY <1>0, <1>10, <2>1, <2>2 DEF Save, WorkTypeOK, Places
  <2>4. UNCHANGED <<site, snapshot>> /\ UNCHANGED rowVars /\ UNCHANGED runVars
    BY <1>10 DEF Save
  <2>5. QED
    BY <2>3, <2>4, <1>0, WorkerType, TypeSplit
<1>11. ASSUME NEW w \in Workers, File(w) PROVE TypeOK'
  <2> DEFINE i == task[w].id
             u == task[w].url
             new == [no |-> filed[i] + 1, of |-> u]
  <2>1. pc[w] # "idle" /\ task[w] \in Tasks /\ i \in Ids /\ u \in Urls /\ task[w].seen \in Versions
    BY <1>0, <1>11, TaskType DEF File
  <2>2. new \in [no : Nat, of : Urls]
    BY <1>0, <2>1 DEF RunTypeOK
  <2>3. /\ filed' = [filed EXCEPT ![i] = @ + 1]
        /\ history' = [history EXCEPT ![i] = @ \cup {new}]
    BY <1>11 DEF File
  <2>4. Max({audited[i][u], task[w].seen}) \in 0..MaxVersion
    <3>1. audited[i][u] \in 0..MaxVersion /\ task[w].seen \in 0..MaxVersion
      BY <1>0, <2>1 DEF RunTypeOK, Versions
    <3>2. \A a, b \in 0..MaxVersion : Max({a, b}) \in {a, b}
      <4>1. ASSUME NEW a \in 0..MaxVersion, NEW b \in 0..MaxVersion PROVE Max({a, b}) \in {a, b}
        <5>1. \E x \in {a, b} : \A y \in {a, b} : x >= y
          BY <4>1
        <5>2. QED
          BY <5>1 DEF Max
      <4>2. QED
        BY <4>1
    <3>3. QED
      BY <3>1, <3>2
  <2>5. audited' \in [Ids -> [Urls -> 0..MaxVersion]]
    <3>1. CASE task[w].reached
      <4>1. audited' = [audited EXCEPT ![i][u] = Max({audited[i][u], task[w].seen})]
        BY <1>11, <3>1 DEF File
      <4> HIDE DEF i, u
      <4>2. QED
        BY <1>0, <2>1, <2>4, <4>1 DEF RunTypeOK
    <3>2. CASE ~task[w].reached
      BY <1>0, <1>11, <3>2 DEF File, RunTypeOK
    <3>3. QED
      BY <3>1, <3>2
  <2>6. RunTypeOK'
    <3> HIDE DEF i, new
    <3>1. history' \in [Ids -> SUBSET [no : Nat, of : Urls]] /\ filed' \in [Ids -> Nat]
      BY <1>0, <2>1, <2>2, <2>3 DEF RunTypeOK
    <3>2. QED
      BY <2>5, <3>1 DEF RunTypeOK
  <2>7. snapshot' \in [Keys -> 0..MaxVersion]
    BY <1>0, <1>11, <2>1, WrittenType, FlagsAssumption, TypeSplit DEF File
  <2>8. WorkTypeOK'
    BY <1>0, <1>11, <2>1 DEF File, WorkTypeOK, Places
  <2>9. UNCHANGED site /\ UNCHANGED rowVars
    BY <1>11 DEF File
  <2>10. QED
    BY <2>6, <2>7, <2>8, <2>9, <1>0, TypeSplit, TypeNext, RowsUnchanged
<1>12. ASSUME NEW w \in Workers, Choose(w) PROVE TypeOK'
  <2>1. pc[w] # "idle" /\ task[w] \in Tasks /\ task[w].id \in Ids
    BY <1>0, <1>12, TaskType DEF Choose
  <2>2. Outdated(task[w].id) \in SUBSET [no : Nat, of : Urls]
    BY <1>0, <2>1 DEF RunTypeOK, Outdated
  <2>3. UNCHANGED <<site, snapshot>> /\ UNCHANGED rowVars /\ UNCHANGED runVars
    BY <1>12 DEF Choose
  <2>4. WorkTypeOK'
    <3>1. CASE Outdated(task[w].id) = {}
      BY <1>0, <1>12, <3>1, IdleType DEF Choose
    <3>2. CASE Outdated(task[w].id) # {}
      BY <1>0, <1>12, <2>1, <2>2, <3>2 DEF Choose, WorkTypeOK, Places
    <3>3. QED
      BY <3>1, <3>2
  <2>5. QED
    BY <2>3, <2>4, <1>0, WorkerType, TypeSplit
<1>13. ASSUME NEW w \in Workers, Discard(w) PROVE TypeOK'
  <2>1. WorkTypeOK'
    BY <1>0, <1>13, IdleType DEF Discard
  <2>2. history' \in [Ids -> SUBSET [no : Nat, of : Urls]]
    BY <1>0, <1>13 DEF Discard, RunTypeOK
  <2>3. UNCHANGED <<site, snapshot, filed, audited>> /\ UNCHANGED rowVars
    BY <1>13 DEF Discard
  <2>4. RunTypeOK'
    BY <1>0, <2>2, <2>3 DEF RunTypeOK
  <2>5. QED
    BY <2>1, <2>3, <2>4, <1>0, TypeSplit, TypeNext, RowsUnchanged
<1>14. ASSUME Restart PROVE TypeOK'
  <2>1. RowTypeOK'
    <3>1. Resumed \in [Ids -> SUBSET {"full", "cheap"}]
      BY <1>0, RowType DEF Resumed, Modes
    <3>2. UNCHANGED <<stores, lastId>> /\ jobs' = Resumed /\ removing' = {} /\ stranded' = {}
      BY <1>14 DEF Restart
    <3>3. joining' \in [Ids -> [at : {"no", "committed", "refreshed"},
                                mode : SUBSET {"full", "cheap"}]]
      BY <1>14 DEF Restart
    <3>4. QED
      BY <1>0, <3>1, <3>2, <3>3 DEF RowTypeOK
  <2>2. WorkTypeOK'
    BY <1>14 DEF Restart, WorkTypeOK, Places
  <2>3. UNCHANGED <<site, snapshot>> /\ UNCHANGED runVars
    BY <1>14 DEF Restart
  <2>4. QED
    BY <2>1, <2>2, <2>3, <1>0, TypeSplit, TypeNext, RunsUnchanged
<1>15. ASSUME UNCHANGED vars PROVE TypeOK'
  <2>1. UNCHANGED <<site, snapshot>> /\ UNCHANGED rowVars /\ UNCHANGED runVars /\ UNCHANGED workVars
    BY <1>15 DEF vars
  <2>2. QED
    BY <2>1, <1>0, OthersType, RowsUnchanged, TypeSplit
<1>16. ASSUME NEW w \in Workers, WorkerStep(w) \/ Fail(w) PROVE TypeOK'
  <2>1. ASSUME NoteFails(w) \/ RecheckFails(w) \/ SaveFails(w) \/ FileFails(w) \/ Fail(w)
        PROVE  TypeOK'
    BY <1>4, <2>1 DEF NoteFails, RecheckFails, SaveFails, FileFails, Fail
  <2>2. QED
    BY <1>16, <1>7, <1>8, <1>9, <1>10, <1>11, <1>12, <1>13, <2>1 DEF WorkerStep
<1>17. QED
  BY <1>1, <1>2, <1>3, <1>5, <1>6, <1>14, <1>15, <1>16 DEF Next

\* A step that files, chooses and discards nothing.
Quiet ==
  /\ UNCHANGED <<history, filed>>
  /\ \A w \in Workers : pc'[w] = "chosen" =>
       pc[w] = "chosen" /\ drop'[w] = drop[w] /\ task'[w] = task[w]

LEMMA QuietRuns ==
  ASSUME RunsInv, Quiet
  PROVE  Numbered' /\ DropsOld' /\ NewestKept'
BY DEF RunsInv, Quiet, Numbered, DropsOld, NewestKept

LEMMA IdleQuiet ==
  ASSUME RunsInv, NEW w \in Workers, Idle(w), UNCHANGED <<history, filed>>
  PROVE  Quiet
<1>1. pc'[w] = "idle" /\ \A v \in Workers \ {w} : pc'[v] = pc[v] /\ drop'[v] = drop[v] /\ task'[v] = task[v]
  BY DEF RunsInv, TypeOK, Idle
<1>2. QED
  BY <1>1 DEF Quiet

LEMMA QuietSteps ==
  ASSUME RunsInv, [Next]_vars,
         \A w \in Workers : ~File(w) /\ ~Choose(w) /\ ~Discard(w)
  PROVE  Quiet
<1> USE DEF RunsInv, TypeOK
<1>1. CASE Restart
  BY <1>1 DEF Restart, Quiet, runVars
<1>2. CASE UNCHANGED vars
  BY <1>2 DEF vars, workVars, runVars, Quiet
<1>3. ASSUME NEW u \in Urls, Edit(u) \/ \E mode \in Modes : Register(u, mode) PROVE Quiet
  BY <1>3 DEF Edit, Register, workVars, runVars, Quiet
<1>4. ASSUME NEW i \in Ids, BeginRemove(i) \/ AdminStep(i) PROVE Quiet
  BY <1>4 DEF BeginRemove, AdminStep, Refresh, RefreshFails, Schedule, EndRemove, RemoveFails, workVars, runVars, Quiet
<1>5. ASSUME NEW w \in Workers, NEW i \in Ids, StartCheck(w, i) \/ StartAudit(w, i) PROVE Quiet
  BY <1>5 DEF StartCheck, StartAudit, Crawl, runVars, Quiet
<1>6. ASSUME NEW w \in Workers, Look(w) \/ Recheck(w) \/ Load(w) \/ Save(w) PROVE Quiet
  BY <1>6 DEF Look, Recheck, Crawl, Load, Save, runVars, Quiet
<1>7. ASSUME NEW w \in Workers, Note(w) PROVE Quiet
  <2>1. UNCHANGED <<history, filed>>
    BY <1>7 DEF Note, runVars
  <2>2. CASE Changed(w)
    BY <1>7, <2>1, <2>2 DEF Note, Quiet
  <2>3. CASE ~Changed(w)
    BY <1>7, <2>1, <2>3, IdleQuiet DEF Note
  <2>4. QED
    BY <2>2, <2>3
<1>8. ASSUME NEW w \in Workers, NoteFails(w) \/ RecheckFails(w) \/ SaveFails(w) \/ FileFails(w) \/ Fail(w)
      PROVE  Quiet
  BY <1>8, IdleQuiet DEF NoteFails, RecheckFails, SaveFails, FileFails, Fail, runVars
<1>9. QED
  BY <1>1, <1>2, <1>3, <1>4, <1>5, <1>6, <1>7, <1>8 DEF Next, WorkerStep

LEMMA FileRuns ==
  ASSUME RunsInv, NEW w \in Workers, File(w)
  PROVE  Numbered' /\ DropsOld' /\ NewestKept'
<1> USE RetainAssumption
<1> DEFINE i == task[w].id
           new == [no |-> filed[i] + 1, of |-> task[w].url]
<1>1. TypeOK /\ i \in Ids /\ filed \in [Ids -> Nat] /\ history \in [Ids -> SUBSET [no : Nat, of : Urls]]
  BY TaskType DEF RunsInv, File, TypeOK
<1>2. filed' = [filed EXCEPT ![i] = @ + 1] /\ history' = [history EXCEPT ![i] = @ \cup {new}]
  BY DEF File
<1>3. \A j \in Ids \ {i} : filed'[j] = filed[j] /\ history'[j] = history[j]
  BY <1>1, <1>2
<1>4. filed'[i] = filed[i] + 1 /\ history'[i] = history[i] \cup {new} /\ new.no = filed[i] + 1
  BY <1>1, <1>2
<1>5. filed[i] \in Nat /\ \A r \in history[i] : r.no \in 1..filed[i]
  BY <1>1 DEF RunsInv, Numbered
<1> HIDE DEF i, new
<1>6. Numbered'
  <2>1. ASSUME NEW j \in Ids \ {i}
        PROVE  /\ \A r \in history'[j] : r.no \in 1..filed'[j]
               /\ \A r, q \in history'[j] : r.no = q.no => r = q
    BY <1>3, <2>1 DEF RunsInv, Numbered
  <2>2. \A r \in history'[i] : r.no \in 1..filed'[i]
    BY <1>4, <1>5
  <2>3. \A r, q \in history'[i] : r.no = q.no => r = q
    <3> SUFFICES ASSUME NEW r \in history'[i], NEW q \in history'[i], r.no = q.no
                 PROVE  r = q
      OBVIOUS
    <3>1. CASE r \in history[i] /\ q \in history[i]
      BY <3>1, <1>1 DEF RunsInv, Numbered
    <3>2. CASE r = new \/ q = new
      <4>1. r.no = filed[i] + 1 /\ q.no = filed[i] + 1
        BY <3>2, <1>4
      <4>2. r \notin history[i] /\ q \notin history[i]
        BY <4>1, <1>5
      <4>3. QED
        BY <4>2, <1>4
    <3>3. QED
      BY <3>1, <3>2, <1>4
  <2>4. QED
    BY <2>1, <2>2, <2>3 DEF Numbered
<1>7. DropsOld'
  <2> SUFFICES ASSUME NEW v \in Workers, pc'[v] = "chosen", NEW r \in drop'[v]
               PROVE  r.no + Retain <= filed'[task'[v].id]
    BY DEF DropsOld
  <2>1. UNCHANGED <<task, drop>> /\ pc[v] = "chosen"
    BY <1>1 DEF File, TypeOK
  <2>2. r.no + Retain <= filed[task[v].id]
    BY <2>1 DEF RunsInv, DropsOld
  <2>3. task[v].id \in Ids /\ r.no \in Nat
    BY <1>1, <2>1, TaskType DEF TypeOK
  <2>4. filed[task[v].id] <= filed'[task[v].id] /\ filed[task[v].id] \in Nat /\ filed'[task[v].id] \in Nat
    BY <1>1, <1>3, <1>4, <2>3
  <2>5. QED
    BY <2>1, <2>2, <2>3, <2>4
<1>8. NewestKept'
  <2> SUFFICES ASSUME NEW j \in Ids, NEW n \in 1..filed'[j], n + Retain > filed'[j]
               PROVE  \E r \in history'[j] : r.no = n
    BY DEF NewestKept
  <2>1. CASE j # i
    BY <2>1, <1>3 DEF RunsInv, NewestKept
  <2>2. CASE j = i /\ n = filed[i] + 1
    BY <2>2, <1>4
  <2>3. CASE j = i /\ n # filed[i] + 1
    <3>1. n \in 1..filed[i] /\ n + Retain > filed[i]
      BY <2>3, <1>4, <1>5
    <3>2. QED
      BY <3>1, <2>3, <1>1, <1>4 DEF RunsInv, NewestKept
  <2>4. QED
    BY <2>1, <2>2, <2>3
<1>9. QED
  BY <1>6, <1>7, <1>8

LEMMA ChooseRuns ==
  ASSUME RunsInv, NEW w \in Workers, Choose(w)
  PROVE  Numbered' /\ DropsOld' /\ NewestKept'
<1>1. TypeOK /\ task[w].id \in Ids /\ UNCHANGED <<history, filed>>
  BY TaskType DEF RunsInv, Choose, runVars
<1>2. CASE Outdated(task[w].id) = {}
  BY <1>1, <1>2, IdleQuiet, QuietRuns DEF Choose
<1>3. CASE Outdated(task[w].id) # {}
  <2>1. Numbered' /\ NewestKept'
    BY <1>1 DEF RunsInv, Numbered, NewestKept
  <2>2. DropsOld'
    <3> SUFFICES ASSUME NEW v \in Workers, pc'[v] = "chosen", NEW r \in drop'[v]
                 PROVE  r.no + Retain <= filed'[task'[v].id]
      BY DEF DropsOld
    <3>1. UNCHANGED task
      BY <1>3 DEF Choose
    <3>2. CASE v = w
      <4>1. drop'[w] = Outdated(task[w].id)
        BY <1>1, <1>3 DEF Choose, TypeOK
      <4>2. r.no + Retain <= filed[task[w].id]
        BY <3>2, <4>1, <1>1, OutdatedAreOld DEF RunsInv
      <4>3. QED
        BY <4>2, <3>1, <3>2, <1>1
    <3>3. CASE v # w
      <4>1. pc[v] = "chosen" /\ drop'[v] = drop[v]
        BY <1>1, <1>3, <3>3 DEF Choose, TypeOK
      <4>2. QED
        BY <4>1, <3>1, <1>1 DEF RunsInv, DropsOld
    <3>4. QED
      BY <3>2, <3>3
  <2>3. QED
    BY <2>1, <2>2
<1>4. QED
  BY <1>2, <1>3

LEMMA DiscardRuns ==
  ASSUME RunsInv, NEW w \in Workers, Discard(w)
  PROVE  Numbered' /\ DropsOld' /\ NewestKept'
<1> USE RetainAssumption
<1> DEFINE i == task[w].id
<1>1. TypeOK /\ i \in Ids /\ UNCHANGED filed
  BY TaskType DEF RunsInv, Discard
<1>2. /\ history'[i] = history[i] \ drop[w]
      /\ \A j \in Ids \ {i} : history'[j] = history[j]
  BY <1>1 DEF Discard, TypeOK
<1>3. \A r \in drop[w] : r.no + Retain <= filed[i]
  BY DEF RunsInv, DropsOld, Discard
<1> HIDE DEF i
<1>4. Numbered'
  <2>1. \A j \in Ids : history'[j] \subseteq history[j]
    BY <1>2
  <2>2. QED
    BY <2>1, <1>1 DEF RunsInv, Numbered
<1>5. DropsOld'
  <2>1. pc'[w] = "idle" /\ \A v \in Workers \ {w} : pc'[v] = pc[v] /\ drop'[v] = drop[v] /\ task'[v] = task[v]
    BY <1>1 DEF Discard, Idle, TypeOK
  <2>2. QED
    BY <2>1, <1>1 DEF RunsInv, DropsOld
<1>6. NewestKept'
  <2> SUFFICES ASSUME NEW j \in Ids, NEW n \in 1..filed[j], n + Retain > filed[j]
               PROVE  \E r \in history'[j] : r.no = n
    BY <1>1 DEF NewestKept
  <2>1. PICK r \in history[j] : r.no = n
    BY DEF RunsInv, NewestKept
  <2>2. CASE j # i
    BY <2>1, <2>2, <1>2
  <2>3. CASE j = i
    <3>1. filed[i] \in Nat
      BY <1>1 DEF TypeOK
    <3>2. r \notin drop[w]
      BY <2>1, <2>3, <1>3, <3>1
    <3>3. QED
      BY <2>1, <2>3, <3>2, <1>2
  <2>4. QED
    BY <2>2, <2>3
<1>7. QED
  BY <1>4, <1>5, <1>6

LEMMA NextRuns ==
  ASSUME RunsInv, [Next]_vars
  PROVE  RunsInv'
<1>1. TypeOK'
  BY NextType
<1>2. Numbered' /\ DropsOld' /\ NewestKept'
  BY QuietSteps, QuietRuns, FileRuns, ChooseRuns, DiscardRuns
<1>3. QED
  BY <1>1, <1>2 DEF RunsInv

LEMMA RunsHold == SafeSpec => []RunsInv
<1>1. QED
  BY InitRuns, NextRuns, PTL DEF SafeSpec

\* Every variable has its type, whatever fails and however audits overlap.
THEOREM TypeCorrect == SafeSpec => []TypeOK
<1>1. RunsInv => TypeOK
  BY DEF RunsInv
<1>2. QED
  BY <1>1, RunsHold, PTL

\* Retention never takes one of the newest runs of a store.
THEOREM NewestKeptHolds == SafeSpec => []NewestKept
<1>1. RunsInv => NewestKept
  BY DEF RunsInv
<1>2. QED
  BY <1>1, RunsHold, PTL

-----------------------------------------------------------------------------
(* Deltas, while every homepage can be reached: the snapshot of the        *)
(* homepage is the lock that lets one finalization of a store at a time    *)
(* pass from its select of the previous run to its commit.                 *)

AllReached == \A w \in Workers : pc[w] # "idle" => task[w].reached

OneSaved ==
  \A w, v \in Workers :
    pc[w] = "saved" /\ pc[v] = "saved" /\ task[w].id = task[v].id => w = v

BaseIsLast == \A w \in Workers : pc[w] = "saved" => base[w] = filed[task[w].id]

DeltaInv == RunsInv /\ AllReached /\ OneSaved /\ BaseIsLast

\* A step that does not take a worker to "saved" and files nothing.
Calm ==
  /\ UNCHANGED filed
  /\ \A w \in Workers : pc'[w] # "idle" =>
       \/ task'[w].reached
       \/ pc[w] # "idle" /\ task'[w] = task[w]
  /\ \A w \in Workers : pc'[w] = "saved" =>
       pc[w] = "saved" /\ base'[w] = base[w] /\ task'[w] = task[w]

LEMMA CalmDelta ==
  ASSUME DeltaInv, Calm
  PROVE  AllReached' /\ OneSaved' /\ BaseIsLast'
<1>1. AllReached'
  BY DEF DeltaInv, Calm, AllReached
<1>2. OneSaved' /\ BaseIsLast'
  BY DEF DeltaInv, Calm, OneSaved, BaseIsLast
<1>3. QED
  BY <1>1, <1>2

LEMMA IdleCalm ==
  ASSUME RunsInv, NEW w \in Workers, Idle(w), UNCHANGED filed
  PROVE  Calm
<1>1. pc'[w] = "idle" /\ \A v \in Workers \ {w} : pc'[v] = pc[v] /\ base'[v] = base[v] /\ task'[v] = task[v]
  BY DEF RunsInv, TypeOK, Idle
<1>2. QED
  BY <1>1 DEF Calm

LEMMA CrawlCalm ==
  ASSUME MayBlock = FALSE, RunsInv, NEW w \in Workers, NEW i, NEW kind, Crawl(w, i, kind)
  PROVE  Calm
<1>1. task' = [task EXCEPT ![w] = Visit(i, kind, TRUE)]
  BY DEF Crawl
<1>2. task'[w].reached /\ pc'[w] = "crawled"
  BY <1>1 DEF RunsInv, TypeOK, Visit, Crawl
<1>3. \A v \in Workers \ {w} : pc'[v] = pc[v] /\ base'[v] = base[v] /\ task'[v] = task[v]
  BY <1>1 DEF RunsInv, TypeOK, Crawl
<1>4. UNCHANGED filed
  BY DEF Crawl, runVars
<1>5. QED
  BY <1>2, <1>3, <1>4 DEF Calm

LEMMA CalmSteps ==
  ASSUME MayBlock = FALSE, RunsInv, [Next]_vars, \A w \in Workers : ~Save(w) /\ ~File(w)
  PROVE  Calm
<1> USE DEF RunsInv, TypeOK
<1>1. CASE Restart
  BY <1>1 DEF Restart, Calm, runVars
<1>2. CASE UNCHANGED vars
  BY <1>2 DEF vars, workVars, runVars, Calm
<1>3. ASSUME NEW u \in Urls, Edit(u) \/ \E mode \in Modes : Register(u, mode) PROVE Calm
  BY <1>3 DEF Edit, Register, workVars, runVars, Calm
<1>4. ASSUME NEW i \in Ids, BeginRemove(i) \/ AdminStep(i) PROVE Calm
  BY <1>4 DEF BeginRemove, AdminStep, Refresh, RefreshFails, Schedule, EndRemove, RemoveFails, workVars, runVars, Calm
<1>5. ASSUME NEW w \in Workers, NEW i \in Ids, StartCheck(w, i) PROVE Calm
  <2>1. task'[w].reached /\ pc'[w] = "fetched"
    BY <1>5 DEF StartCheck, Visit
  <2>2. \A v \in Workers \ {w} : pc'[v] = pc[v] /\ base'[v] = base[v] /\ task'[v] = task[v]
    BY <1>5 DEF StartCheck
  <2>3. QED
    BY <1>5, <2>1, <2>2 DEF StartCheck, Calm, runVars
<1>6. ASSUME NEW w \in Workers, NEW i \in Ids, StartAudit(w, i) PROVE Calm
  BY <1>6, CrawlCalm DEF StartAudit
<1>7. ASSUME NEW w \in Workers, Recheck(w) PROVE Calm
  BY <1>7, CrawlCalm DEF Recheck
<1>8. ASSUME NEW w \in Workers, Look(w) \/ Load(w) PROVE Calm
  BY <1>8 DEF Look, Load, runVars, Calm
<1>9. ASSUME NEW w \in Workers, Note(w) \/ Choose(w) \/ Discard(w) PROVE Calm
  <2>1. UNCHANGED filed
    BY <1>9 DEF Note, Choose, Discard, runVars
  <2>2. CASE Idle(w)
    BY <2>1, <2>2, IdleCalm
  <2>3. CASE ~Idle(w)
    BY <1>9, <2>1, <2>3 DEF Note, Choose, Discard, Calm
  <2>4. QED
    BY <2>2, <2>3
<1>10. ASSUME NEW w \in Workers, NoteFails(w) \/ RecheckFails(w) \/ SaveFails(w) \/ FileFails(w) \/ Fail(w)
       PROVE  Calm
  BY <1>10, IdleCalm DEF NoteFails, RecheckFails, SaveFails, FileFails, Fail, runVars
<1>11. QED
  BY <1>1, <1>2, <1>3, <1>4, <1>5, <1>6, <1>7, <1>8, <1>9, <1>10 DEF Next, WorkerStep

LEMMA SaveDelta ==
  ASSUME DeltaInv, NEW w \in Workers, Save(w)
  PROVE  AllReached' /\ OneSaved' /\ BaseIsLast'
<1>1. TypeOK /\ Numbered /\ NewestKept /\ pc[w] = "loaded" /\ UNCHANGED <<task, filed>>
  BY DEF DeltaInv, RunsInv, Save, runVars
<1>2. task[w].id \in Ids /\ task[w].reached
  BY <1>1, TaskType DEF DeltaInv, AllReached
<1>3. base'[w] = filed[task[w].id] /\ pc'[w] = "saved"
  BY <1>1, <1>2, NewestIsFiled DEF Save, PreviousRun, TypeOK
<1>4. \A v \in Workers \ {w} : pc'[v] = pc[v] /\ base'[v] = base[v]
  BY <1>1 DEF Save, TypeOK
<1>5. \A v \in Workers : pc[v] = "saved" => task[v].id # task[w].id
  <2>1. Flushed(task[w].id) = {}
    BY <1>2 DEF Save, RowLocked
  <2>2. QED
    BY <2>1 DEF Flushed, On, Working, DeltaInv, AllReached
<1>6. AllReached'
  BY <1>1, <1>2, <1>4 DEF DeltaInv, AllReached
<1>7. OneSaved'
  BY <1>1, <1>4, <1>5 DEF DeltaInv, OneSaved
<1>8. BaseIsLast'
  BY <1>1, <1>3, <1>4 DEF DeltaInv, BaseIsLast
<1>9. QED
  BY <1>6, <1>7, <1>8

LEMMA FileDelta ==
  ASSUME DeltaInv, NEW w \in Workers, File(w)
  PROVE  AllReached' /\ OneSaved' /\ BaseIsLast'
<1>1. TypeOK /\ UNCHANGED <<task, base>> /\ task[w].id \in Ids /\ pc[w] = "saved"
  BY TaskType DEF DeltaInv, RunsInv, File
<1>2. pc'[w] = "filed" /\ \A v \in Workers \ {w} : pc'[v] = pc[v]
  BY <1>1 DEF File, TypeOK
<1>3. AllReached' /\ OneSaved'
  BY <1>1, <1>2 DEF DeltaInv, AllReached, OneSaved
<1>4. \A i \in Ids : i # task[w].id => filed'[i] = filed[i]
  BY <1>1 DEF File, TypeOK
<1>5. ASSUME NEW v \in Workers, pc'[v] = "saved" PROVE base'[v] = filed'[task'[v].id]
  <2>1. v # w /\ pc[v] = "saved" /\ task[v].id \in Ids
    BY <1>1, <1>2, <1>5, TaskType
  <2>2. task[v].id # task[w].id
    BY <1>1, <2>1 DEF DeltaInv, OneSaved
  <2>3. QED
    BY <1>1, <1>4, <2>1, <2>2 DEF DeltaInv, BaseIsLast
<1>6. QED
  BY <1>3, <1>5 DEF BaseIsLast

LEMMA InitDelta == Init => DeltaInv
<1> SUFFICES ASSUME Init PROVE DeltaInv
  OBVIOUS
<1>1. AllReached /\ OneSaved /\ BaseIsLast
  BY DEF Init, AllReached, OneSaved, BaseIsLast
<1>2. QED
  BY <1>1, InitRuns DEF DeltaInv

LEMMA NextDelta ==
  ASSUME MayBlock = FALSE, DeltaInv, [Next]_vars PROVE DeltaInv'
<1>1. RunsInv'
  BY NextRuns DEF DeltaInv
<1>2. AllReached' /\ OneSaved' /\ BaseIsLast'
  BY CalmSteps, CalmDelta, SaveDelta, FileDelta DEF DeltaInv
<1>3. QED
  BY <1>1, <1>2 DEF DeltaInv

\* While every homepage can be reached, a delta is against the run that is
\* the newest one when the delta is filed, however many audits of the store
\* run at once.
THEOREM DeltaAgainstLastHolds ==
  ASSUME MayBlock = FALSE PROVE SafeSpec => DeltaAgainstLast
<1> DEFINE Step ==
      \A w \in Workers : pc[w] = "saved" /\ pc'[w] = "filed" => base[w] = Newest(task[w].id)
<1>1. Init => DeltaInv
  BY InitDelta
<1>2. DeltaInv /\ [Next]_vars => DeltaInv'
  BY NextDelta
<1>3. DeltaInv => Step
  <2> SUFFICES ASSUME DeltaInv, NEW w \in Workers, pc[w] = "saved"
               PROVE  base[w] = Newest(task[w].id)
    OBVIOUS
  <2>1. TypeOK /\ Numbered /\ NewestKept /\ base[w] = filed[task[w].id]
    BY DEF DeltaInv, RunsInv, BaseIsLast
  <2>2. task[w].id \in Ids
    BY <2>1, TaskType
  <2>3. QED
    BY <2>1, <2>2, NewestIsFiled
<1>4. DeltaInv /\ [Next]_vars => [Step]_vars
  BY <1>3
<1>5. QED
  BY <1>1, <1>2, <1>4, PTL DEF SafeSpec, DeltaAgainstLast

-----------------------------------------------------------------------------
(* The schedule, whatever fails.                                           *)

\* A store that is being removed still has its row.
RemovingRegistered == removing \subseteq Registered

\* schedule_store will use the mode in the row.
JoiningMode ==
  \A i \in Registered : joining[i].at # "no" => joining[i].mode = stores[i].mode

ScheduleInv == RunsInv /\ RemovingRegistered /\ JoiningMode /\ MonitoredIsScheduled

LEMMA NextSchedule ==
  ASSUME ScheduleInv, [Next]_vars
  PROVE  RemovingRegistered' /\ JoiningMode' /\ MonitoredIsScheduled'
<1> USE DEF RemovingRegistered, JoiningMode, MonitoredIsScheduled, Registered
<1>0. RowTypeOK /\ RemovingRegistered /\ JoiningMode /\ MonitoredIsScheduled
  BY TypeSplit DEF ScheduleInv, RunsInv
<1>1. CASE UNCHANGED rowVars
  BY <1>0, <1>1 DEF rowVars
<1>2. ASSUME NEW u \in Urls, NEW mode \in Modes, Register(u, mode)
      PROVE  RemovingRegistered' /\ JoiningMode' /\ MonitoredIsScheduled'
  <2> DEFINE row == [url |-> u, mode |-> mode]
  <2>1. NewId \in Ids /\ row # NoStore
    BY <1>2, MarkersAssumption DEF Register, Modes
  <2>2. /\ stores' = [stores EXCEPT ![NewId] = row]
        /\ joining' = [joining EXCEPT ![NewId] = [at |-> "committed", mode |-> mode]]
        /\ UNCHANGED <<jobs, removing, stranded>>
    BY <1>2 DEF Register
  <2>3. \A i \in Ids \ {NewId} : stores'[i] = stores[i] /\ joining'[i] = joining[i]
    BY <1>0, <2>2 DEF RowTypeOK
  <2>4. /\ stores'[NewId] = row /\ joining'[NewId].at = "committed"
        /\ joining'[NewId].mode = mode
    BY <1>0, <2>1, <2>2 DEF RowTypeOK
  <2> HIDE DEF row
  <2>5. RemovingRegistered'
    BY <1>0, <2>1, <2>2, <2>3, <2>4
  <2>6. JoiningMode' /\ MonitoredIsScheduled'
    BY <1>0, <2>2, <2>3, <2>4 DEF row
  <2>7. QED
    BY <2>5, <2>6
<1>3. ASSUME NEW i \in Ids, BeginRemove(i)
      PROVE  RemovingRegistered' /\ JoiningMode' /\ MonitoredIsScheduled'
  BY <1>0, <1>3 DEF BeginRemove, RowTypeOK
<1>4. ASSUME NEW i \in Ids, Refresh(i)
      PROVE  RemovingRegistered' /\ JoiningMode' /\ MonitoredIsScheduled'
  <2>1. UNCHANGED <<stores, jobs, removing, stranded>>
    BY <1>4 DEF Refresh
  <2>2. \A j \in Ids \ {i} : joining'[j] = joining[j]
    BY <1>0, <1>4 DEF Refresh, RowTypeOK
  <2>3. i \in Registered => joining'[i].at = "refreshed" /\ joining'[i].mode = joining[i].mode
    BY <1>0, <1>4 DEF Refresh, RowTypeOK
  <2>4. i \in Registered => joining[i].at # "no"
    BY <1>4 DEF Refresh
  <2>5. QED
    BY <1>0, <2>1, <2>2, <2>3, <2>4
<1>5. ASSUME NEW i \in Ids, Schedule(i)
      PROVE  RemovingRegistered' /\ JoiningMode' /\ MonitoredIsScheduled'
  <2>1. UNCHANGED <<stores, removing>> /\ stranded' = stranded \ {i}
    BY <1>5 DEF Schedule
  <2>2. \A j \in Ids \ {i} : joining'[j] = joining[j] /\ jobs'[j] = jobs[j]
    BY <1>0, <1>5 DEF Schedule, RowTypeOK
  <2>3. joining'[i].at = "no" /\ jobs'[i] = jobs[i] \cup joining[i].mode
    BY <1>0, <1>5 DEF Schedule, RowTypeOK
  <2>4. i \in Registered => joining[i].mode = stores[i].mode
    BY <1>0, <1>5 DEF Schedule
  <2>5. QED
    BY <1>0, <2>1, <2>2, <2>3, <2>4
<1>6. ASSUME NEW i \in Ids, EndRemove(i)
      PROVE  RemovingRegistered' /\ JoiningMode' /\ MonitoredIsScheduled'
  <2>1. /\ stores' = [stores EXCEPT ![i] = NoStore] /\ removing' = removing \ {i}
        /\ stranded' = stranded \ {i} /\ UNCHANGED <<jobs, joining>>
    BY <1>6 DEF EndRemove
  <2>2. stores'[i] = NoStore /\ \A j \in Ids \ {i} : stores'[j] = stores[j]
    BY <1>0, <2>1 DEF RowTypeOK
  <2>3. QED
    BY <1>0, <2>1, <2>2
<1>7. CASE Restart
  BY <1>0, <1>7 DEF Restart, Resumed
<1>13. ASSUME NEW i \in Ids, RefreshFails(i)
      PROVE  RemovingRegistered' /\ JoiningMode' /\ MonitoredIsScheduled'
  <2>1. UNCHANGED <<stores, jobs, removing>> /\ stranded' = stranded \cup ({i} \cap Registered)
    BY <1>13 DEF RefreshFails
  <2>2. \A j \in Ids \ {i} : joining'[j] = joining[j]
    BY <1>0, <1>13 DEF RefreshFails, RowTypeOK
  <2>3. joining'[i].at = "no"
    BY <1>0, <1>13 DEF RefreshFails, RowTypeOK
  <2>4. QED
    BY <1>0, <2>1, <2>2, <2>3
<1>14. ASSUME NEW i \in Ids, RemoveFails(i)
      PROVE  RemovingRegistered' /\ JoiningMode' /\ MonitoredIsScheduled'
  <2>1. /\ UNCHANGED <<stores, jobs, joining>> /\ removing' = removing \ {i}
        /\ stranded' = stranded \cup ({i} \cap Registered)
    BY <1>14 DEF RemoveFails
  <2>2. QED
    BY <1>0, <2>1
<1>8. ASSUME NEW u \in Urls, Edit(u) PROVE UNCHANGED rowVars
  BY <1>8 DEF Edit
<1>9. ASSUME NEW w \in Workers, NEW i \in Ids, StartCheck(w, i) \/ StartAudit(w, i)
      PROVE  UNCHANGED rowVars
  BY <1>9 DEF StartCheck, StartAudit, Crawl
<1>10. ASSUME NEW w \in Workers, WorkerStep(w) \/ Fail(w) PROVE UNCHANGED rowVars
  BY <1>10 DEF WorkerStep, Look, Note, NoteFails, Recheck, Crawl, RecheckFails, Load, Save,
     SaveFails, File, FileFails, Choose, Discard, Fail
<1>11. CASE UNCHANGED vars
  BY <1>1, <1>11 DEF vars
<1>12. QED
  BY <1>1, <1>2, <1>3, <1>4, <1>5, <1>6, <1>7, <1>8, <1>9, <1>10, <1>11, <1>13, <1>14
  DEF Next, AdminStep

\* Every registered store is on its schedule, on SQLite and on Postgres,
\* whatever restarts, fails or is registered, audited and removed at once; one
\* whose registration or removal raised is the exception, until the restart.
THEOREM MonitoredIsScheduledHolds == SafeSpec => []MonitoredIsScheduled
<1>1. Init => ScheduleInv
  <2> SUFFICES ASSUME Init PROVE ScheduleInv
    OBVIOUS
  <2>1. RemovingRegistered /\ JoiningMode /\ MonitoredIsScheduled
    BY DEF Init, RemovingRegistered, JoiningMode, MonitoredIsScheduled, Registered
  <2>2. QED
    BY <2>1, InitRuns DEF ScheduleInv
<1>2. ScheduleInv /\ [Next]_vars => ScheduleInv'
  <2> SUFFICES ASSUME ScheduleInv, [Next]_vars PROVE ScheduleInv'
    OBVIOUS
  <2>1. RunsInv'
    BY NextRuns DEF ScheduleInv
  <2>2. RemovingRegistered' /\ JoiningMode' /\ MonitoredIsScheduled'
    BY NextSchedule
  <2>3. QED
    BY <2>1, <2>2 DEF ScheduleInv
<1>3. ScheduleInv => MonitoredIsScheduled
  BY DEF ScheduleInv
<1>4. QED
  BY <1>1, <1>2, <1>3, PTL DEF SafeSpec

-----------------------------------------------------------------------------
(* Whose runs they are, where ids are not reused and foreign keys hold.    *)

\* Nothing has an id that was not handed out.
IdsHandedOut ==
  /\ \A i \in Registered : i <= lastId
  /\ \A w \in Workers : pc[w] # "idle" => task[w].id <= lastId

\* A store that was audited keeps its row.
AuditedStays == \A i \in Ids : history[i] # {} => i \in Registered

\* A worker whose store is still registered works on its URL.
TaskIsOwn ==
  \A w \in Workers : pc[w] # "idle" /\ task[w].id \in Registered =>
    task[w].url = stores[task[w].id].url

OwnInv == RunsInv /\ IdsHandedOut /\ AuditedStays /\ TaskIsOwn /\ HistoryIsOwn

\* A step that registers, deletes and files nothing.
Loyal ==
  /\ UNCHANGED <<stores, lastId>>
  /\ \A i \in Ids : history'[i] \subseteq history[i]
  /\ \A w \in Workers : pc'[w] # "idle" =>
       \/ pc[w] # "idle" /\ task'[w] = task[w]
       \/ task'[w].id \in Registered /\ task'[w].url = stores[task'[w].id].url

LEMMA LoyalOwn ==
  ASSUME OwnInv, Loyal
  PROVE  IdsHandedOut' /\ AuditedStays' /\ TaskIsOwn' /\ HistoryIsOwn'
<1>1. Registered' = Registered
  BY DEF Loyal, Registered
<1>2. IdsHandedOut'
  BY <1>1 DEF OwnInv, Loyal, IdsHandedOut
<1>3. AuditedStays'
  BY <1>1 DEF OwnInv, Loyal, AuditedStays
<1>4. TaskIsOwn'
  BY <1>1 DEF OwnInv, Loyal, TaskIsOwn
<1>5. HistoryIsOwn'
  BY <1>1 DEF OwnInv, Loyal, HistoryIsOwn, Registered
<1>6. QED
  BY <1>2, <1>3, <1>4, <1>5

LEMMA IdleLoyal ==
  ASSUME RunsInv, NEW w \in Workers, Idle(w), UNCHANGED <<stores, lastId>>,
         \A i \in Ids : history'[i] \subseteq history[i]
  PROVE  Loyal
<1>1. pc'[w] = "idle" /\ \A v \in Workers \ {w} : pc'[v] = pc[v] /\ task'[v] = task[v]
  BY DEF RunsInv, TypeOK, Idle
<1>2. QED
  BY <1>1 DEF Loyal

LEMMA VisitLoyal ==
  ASSUME RunsInv, NEW w \in Workers, NEW i \in Registered, NEW kind, NEW reached,
         task' = [task EXCEPT ![w] = Visit(i, kind, reached)],
         \A v \in Workers \ {w} : pc'[v] = pc[v],
         UNCHANGED <<stores, lastId, history>>
  PROVE  Loyal
<1>1. task'[w].id = i /\ task'[w].url = stores[i].url
  BY DEF RunsInv, TypeOK, Visit
<1>2. \A v \in Workers \ {w} : task'[v] = task[v]
  BY DEF RunsInv, TypeOK
<1>3. QED
  BY <1>1, <1>2 DEF Loyal

LEMMA CrawlLoyal ==
  ASSUME RunsInv, NEW w \in Workers, NEW i \in Registered, NEW kind, Crawl(w, i, kind)
  PROVE  Loyal
<1>1. PICK reached : task' = [task EXCEPT ![w] = Visit(i, kind, reached)]
  BY DEF Crawl
<1>2. \A v \in Workers \ {w} : pc'[v] = pc[v]
  BY DEF RunsInv, TypeOK, Crawl
<1>3. UNCHANGED <<stores, lastId, history>>
  BY DEF Crawl, rowVars, runVars
<1>4. QED
  BY <1>1, <1>2, <1>3, VisitLoyal

LEMMA LoyalSteps ==
  ASSUME RunsInv, [Next]_vars,
         \A u \in Urls, mode \in Modes : ~Register(u, mode),
         \A i \in Ids : ~EndRemove(i),
         \A w \in Workers : ~File(w)
  PROVE  Loyal
<1> USE DEF RunsInv, TypeOK
<1>1. CASE Restart
  BY <1>1 DEF Restart, Loyal, runVars
<1>2. CASE UNCHANGED vars
  BY <1>2 DEF vars, workVars, runVars, rowVars, Loyal
<1>3. ASSUME NEW u \in Urls, Edit(u) PROVE Loyal
  BY <1>3 DEF Edit, workVars, runVars, rowVars, Loyal
<1>4. ASSUME NEW i \in Ids,
             BeginRemove(i) \/ Refresh(i) \/ RefreshFails(i) \/ Schedule(i) \/ RemoveFails(i)
      PROVE  Loyal
  BY <1>4 DEF BeginRemove, Refresh, RefreshFails, Schedule, RemoveFails, workVars, runVars, Loyal
<1>5. ASSUME NEW w \in Workers, NEW i \in Ids, StartCheck(w, i) PROVE Loyal
  <2>1. \A v \in Workers \ {w} : pc'[v] = pc[v]
    BY <1>5 DEF StartCheck
  <2>2. /\ UNCHANGED <<stores, lastId, history>> /\ i \in Registered
        /\ task' = [task EXCEPT ![w] = Visit(i, "cheap", TRUE)]
    BY <1>5 DEF StartCheck, rowVars, runVars
  <2>3. QED
    BY <2>1, <2>2, VisitLoyal
<1>6. ASSUME NEW w \in Workers, NEW i \in Ids, StartAudit(w, i) PROVE Loyal
  BY <1>6, CrawlLoyal DEF StartAudit
<1>7. ASSUME NEW w \in Workers, Recheck(w) PROVE Loyal
  BY <1>7, CrawlLoyal DEF Recheck
<1>8. ASSUME NEW w \in Workers, Look(w) \/ Load(w) \/ Save(w) PROVE Loyal
  <2>1. \A v \in Workers \ {w} : pc'[v] = pc[v]
    BY <1>8 DEF Look, Load, Save
  <2>2. UNCHANGED <<stores, lastId, history, task>> /\ pc[w] # "idle"
    BY <1>8 DEF Look, Load, Save, rowVars, runVars
  <2>3. QED
    BY <2>1, <2>2 DEF Loyal
<1>9. ASSUME NEW w \in Workers, Note(w) \/ Choose(w) \/ Discard(w) PROVE Loyal
  <2>1. UNCHANGED <<stores, lastId>> /\ \A i \in Ids : history'[i] \subseteq history[i]
    BY <1>9 DEF Note, Choose, Discard, rowVars, runVars
  <2>2. CASE Idle(w)
    BY <2>1, <2>2, IdleLoyal
  <2>3. CASE ~Idle(w)
    <3>1. UNCHANGED task /\ pc[w] # "idle" /\ \A v \in Workers \ {w} : pc'[v] = pc[v]
      BY <1>9, <2>3 DEF Note, Choose, Discard
    <3>2. QED
      BY <2>1, <3>1 DEF Loyal
  <2>4. QED
    BY <2>2, <2>3
<1>10. ASSUME NEW w \in Workers, NoteFails(w) \/ RecheckFails(w) \/ SaveFails(w) \/ FileFails(w) \/ Fail(w)
       PROVE  Loyal
  BY <1>10, IdleLoyal DEF NoteFails, RecheckFails, SaveFails, FileFails, Fail, runVars, rowVars
<1>11. QED
  BY <1>1, <1>2, <1>3, <1>4, <1>5, <1>6, <1>7, <1>8, <1>9, <1>10 DEF Next, AdminStep, WorkerStep

LEMMA RegisterOwn ==
  ASSUME ForeignKeys = TRUE, OwnInv, NEW u \in Urls, NEW mode \in Modes, Register(u, mode)
  PROVE  IdsHandedOut' /\ AuditedStays' /\ TaskIsOwn' /\ HistoryIsOwn'
<1> DEFINE n == lastId + 1
           row == [url |-> u, mode |-> mode]
<1>0. RowTypeOK /\ TypeOK /\ lastId \in Nat /\ Ids \subseteq Nat
  BY BoundsAssumption, TypeSplit DEF OwnInv, RunsInv, RowTypeOK, Ids
<1>1. n \in Ids /\ row # NoStore
  BY MarkersAssumption DEF Register, NewId, Modes
<1>2. /\ stores' = [stores EXCEPT ![n] = row] /\ lastId' = n
      /\ UNCHANGED <<history, pc, task>>
  BY DEF Register, NewId, runVars, workVars
<1>3. n \notin Registered /\ \A w \in Workers : pc[w] # "idle" => task[w].id # n /\ task[w].id \in Nat
  <2>1. \A i \in Registered : i <= lastId
    BY DEF OwnInv, IdsHandedOut
  <2>2. ASSUME NEW w \in Workers, pc[w] # "idle" PROVE task[w].id # n /\ task[w].id \in Nat
    <3>1. task[w].id \in Nat
      BY <1>0, <2>2, TaskType
    <3>2. task[w].id <= lastId
      BY <2>2 DEF OwnInv, IdsHandedOut
    <3>3. QED
      BY <1>0, <3>1, <3>2
  <2>3. QED
    BY <1>0, <2>1, <2>2
<1>4. history[n] = {}
  BY <1>1, <1>3 DEF OwnInv, AuditedStays
<1>5. stores'[n] = row /\ \A i \in Ids \ {n} : stores'[i] = stores[i]
  BY <1>0, <1>1, <1>2 DEF RowTypeOK
<1>6. Registered' = Registered \cup {n}
  BY <1>1, <1>5 DEF Registered
<1>7. IdsHandedOut'
  <2>1. \A i \in Registered : i \in Nat /\ i <= lastId
    BY <1>0 DEF OwnInv, IdsHandedOut, Registered
  <2>2. \A w \in Workers : pc[w] # "idle" => task[w].id <= lastId /\ task[w].id \in Nat
    BY <1>3 DEF OwnInv, IdsHandedOut
  <2>3. \A i \in Registered' : i <= n
    BY <1>0, <1>6, <2>1
  <2>4. QED
    BY <1>0, <1>2, <2>2, <2>3 DEF IdsHandedOut
<1> HIDE DEF n, row
<1>8. AuditedStays'
  BY <1>2, <1>6 DEF OwnInv, AuditedStays
<1>9. TaskIsOwn'
  <2> SUFFICES ASSUME NEW w \in Workers, pc[w] # "idle", task[w].id \in Registered'
               PROVE  task[w].url = stores'[task[w].id].url
    BY <1>2 DEF TaskIsOwn
  <2>1. task[w].id \in Registered /\ task[w].id \in Ids \ {n}
    BY <1>0, <1>3, <1>6, TaskType
  <2>2. QED
    BY <2>1, <1>5 DEF OwnInv, TaskIsOwn
<1>10. HistoryIsOwn'
  <2> SUFFICES ASSUME NEW i \in Registered', NEW r \in history[i]
               PROVE  r.of = stores'[i].url
    BY <1>2 DEF HistoryIsOwn
  <2>1. i \in Registered /\ i # n
    BY <1>3, <1>4, <1>6
  <2>2. stores'[i] = stores[i]
    BY <2>1, <1>5 DEF Registered
  <2>3. QED
    BY <2>1, <2>2 DEF OwnInv, HistoryIsOwn
<1>11. QED
  BY <1>7, <1>8, <1>9, <1>10

LEMMA EndRemoveOwn ==
  ASSUME ForeignKeys = TRUE, OwnInv, NEW i \in Ids, EndRemove(i)
  PROVE  IdsHandedOut' /\ AuditedStays' /\ TaskIsOwn' /\ HistoryIsOwn'
<1>0. RowTypeOK
  BY TypeSplit DEF OwnInv, RunsInv
<1>1. UNCHANGED <<lastId, history, pc, task>>
  BY DEF EndRemove, runVars, workVars
<1>2. history[i] = {} /\ stores' = [stores EXCEPT ![i] = NoStore]
  BY DEF EndRemove, Forbidden, Referred
<1>3. \A j \in Ids \ {i} : stores'[j] = stores[j]
  BY <1>0, <1>2 DEF RowTypeOK
<1>4. Registered' = Registered \ {i}
  BY <1>0, <1>2 DEF RowTypeOK, Registered
<1>5. IdsHandedOut' /\ AuditedStays'
  BY <1>1, <1>2, <1>4 DEF OwnInv, IdsHandedOut, AuditedStays
<1>6. TaskIsOwn' /\ HistoryIsOwn'
  BY <1>1, <1>3, <1>4 DEF OwnInv, TaskIsOwn, HistoryIsOwn, Registered
<1>7. QED
  BY <1>5, <1>6

LEMMA FileOwn ==
  ASSUME OwnInv, NEW w \in Workers, File(w)
  PROVE  IdsHandedOut' /\ AuditedStays' /\ TaskIsOwn' /\ HistoryIsOwn'
<1> DEFINE i == task[w].id
           new == [no |-> filed[i] + 1, of |-> task[w].url]
<1>1. TypeOK /\ i \in Registered /\ pc[w] = "saved"
  BY DEF OwnInv, RunsInv, File
<1>2. UNCHANGED <<stores, lastId, task>> /\ pc'[w] = "filed"
      /\ \A v \in Workers \ {w} : pc'[v] = pc[v]
  BY <1>1 DEF File, rowVars, TypeOK
<1>3. history' = [history EXCEPT ![i] = @ \cup {new}]
  BY DEF File
<1>4. new.of = stores[i].url
  BY <1>1 DEF OwnInv, TaskIsOwn
<1>5. Registered' = Registered /\ i \in Ids
  BY <1>1, <1>2 DEF Registered
<1> HIDE DEF i, new
<1>6. history'[i] = history[i] \cup {new} /\ \A j \in Ids \ {i} : history'[j] = history[j]
  BY <1>1, <1>3, <1>5 DEF TypeOK
<1>7. IdsHandedOut' /\ TaskIsOwn'
  BY <1>1, <1>2, <1>5 DEF OwnInv, IdsHandedOut, TaskIsOwn
<1>8. AuditedStays'
  BY <1>1, <1>5, <1>6 DEF OwnInv, AuditedStays
<1>9. HistoryIsOwn'
  <2> SUFFICES ASSUME NEW j \in Registered, NEW r \in history'[j]
               PROVE  r.of = stores[j].url
    BY <1>2, <1>5 DEF HistoryIsOwn
  <2>1. CASE r \in history[j]
    BY <2>1 DEF OwnInv, HistoryIsOwn
  <2>2. CASE r \notin history[j]
    BY <2>2, <1>4, <1>6 DEF Registered
  <2>3. QED
    BY <2>1, <2>2
<1>10. QED
  BY <1>7, <1>8, <1>9

LEMMA InitOwn == Init => OwnInv
<1> SUFFICES ASSUME Init PROVE OwnInv
  OBVIOUS
<1>1. IdsHandedOut /\ AuditedStays /\ TaskIsOwn /\ HistoryIsOwn
  BY DEF Init, IdsHandedOut, AuditedStays, TaskIsOwn, HistoryIsOwn, Registered
<1>2. QED
  BY <1>1, InitRuns DEF OwnInv

LEMMA NextOwn ==
  ASSUME ForeignKeys = TRUE, OwnInv, [Next]_vars PROVE OwnInv'
<1>1. RunsInv'
  BY NextRuns DEF OwnInv
<1>2. IdsHandedOut' /\ AuditedStays' /\ TaskIsOwn' /\ HistoryIsOwn'
  BY LoyalSteps, LoyalOwn, RegisterOwn, EndRemoveOwn, FileOwn DEF OwnInv
<1>3. QED
  BY <1>1, <1>2 DEF OwnInv

\* In Postgres every run listed for a registered store is an audit of that
\* store: removal is refused once there are runs, and an id is never reused.
THEOREM HistoryIsOwnHolds ==
  ASSUME ForeignKeys = TRUE PROVE SafeSpec => []HistoryIsOwn
<1>1. Init => OwnInv
  BY InitOwn
<1>2. OwnInv /\ [Next]_vars => OwnInv'
  BY NextOwn
<1>3. OwnInv => HistoryIsOwn
  BY DEF OwnInv
<1>4. QED
  BY <1>1, <1>2, <1>3, PTL DEF SafeSpec

-----------------------------------------------------------------------------
(* What a cheap check recorded is audited, or its audit is under way: in   *)
(* Postgres, with homepages that can be reached and are stored under the   *)
(* spelling the crawl uses, and while nothing fails.                       *)

\* Nothing was recorded under an id that was not handed out.
FreshIds == \A k \in Keys : k[1] > lastId => snapshot[k] = 0

\* A snapshot shows a version the homepage has had.
NotAhead == \A k \in Keys : snapshot[k] <= site[k[2]]

\* A worker saw a version the homepage has had.  A cheap check that found a
\* change left a snapshot, which its audit then loads: it cannot clash.
Sound(w) ==
  pc[w] # "idle" =>
    /\ task[w].seen <= site[task[w].url]
    /\ pc[w] \in {"fetched", "looked", "changed"} => task[w].kind = "cheap"
    /\ task[w].kind = "cheap" /\ pc[w] \in {"changed", "crawled"} =>
         snapshot[Key(w, "registered")] > 0
    /\ task[w].kind = "cheap" /\ pc[w] = "loaded" => had[w] > 0

\* The snapshot a cheap check of i reads, and the newest audit behind it.
Shown(i) == snapshot[<<i, stores[i].url, "registered">>]
Covered(i) == audited[i][stores[i].url]

\* A cheap check of i that is about to audit what it recorded.
Owing(w, i) ==
  /\ pc[w] # "idle" /\ task[w].id = i /\ task[w].kind = "cheap"
  /\ \/ pc[w] = "changed"
     \/ pc[w] \in {"crawled", "loaded", "saved"} /\ Shown(i) <= task[w].seen

Owed == \A i \in Registered : Shown(i) <= Covered(i) \/ \E w \in Workers : Owing(w, i)

ChangeInv ==
  /\ DeltaInv /\ OwnInv
  /\ FreshIds /\ NotAhead /\ (\A w \in Workers : Sound(w)) /\ Owed

\* What the steps below have to show.
Kept == FreshIds /\ NotAhead /\ (\A w \in Workers : Sound(w)) /\ Owed

LEMMA ChangeInvCovers == ChangeInv => ChangeAudited
<1> SUFFICES ASSUME ChangeInv, NEW i \in Ids, NEW u \in Urls,
                    i \in Registered, stores[i].url = u,
                    snapshot[<<i, u, "registered">>] > audited[i][u] \/
                    ~(snapshot[<<i, u, "registered">>] <= audited[i][u])
             PROVE  \E w \in On(i) : task[w].kind = "cheap"
  BY DEF ChangeAudited
<1>1. TypeOK /\ <<i, u, "registered">> \in Keys
  BY DEF ChangeInv, OwnInv, RunsInv, Keys, Rows
<1>2. ~(Shown(i) <= Covered(i))
  BY <1>1, BoundsAssumption DEF Shown, Covered, TypeOK
<1>3. PICK w \in Workers : Owing(w, i)
  BY <1>2 DEF ChangeInv, Owed
<1>4. QED
  BY <1>3 DEF Owing, On, Working

LEMMA ChangeTypes ==
  ASSUME ChangeInv
  PROVE  /\ RunsInv /\ TypeOK
         /\ site \in [Urls -> Nat] /\ snapshot \in [Keys -> Nat]
         /\ audited \in [Ids -> [Urls -> Nat]] /\ had \in [Workers -> Nat]
         /\ lastId \in Nat
         /\ \A i \in Registered : /\ i \in Ids /\ stores[i].url \in Urls
                                  /\ \A row \in Rows : <<i, stores[i].url, row>> \in Keys
         /\ \A w \in Workers : pc[w] # "idle" =>
              /\ task[w].id \in Ids /\ task[w].url \in Urls
              /\ task[w].seen \in Nat /\ task[w].seen > 0 /\ task[w].reached
              /\ \A row \in Rows : Key(w, row) \in Keys
<1>0. RunsInv /\ TypeOK /\ AllReached
  BY DEF ChangeInv, DeltaInv, RunsInv
<1>1. Versions \subseteq Nat /\ 0 .. MaxVersion \subseteq Nat /\ 0 .. MaxId \subseteq Nat
      /\ \A v \in Versions : v > 0
  BY BoundsAssumption DEF Versions
<1>2. /\ site \in [Urls -> Nat] /\ snapshot \in [Keys -> Nat]
      /\ audited \in [Ids -> [Urls -> Nat]] /\ had \in [Workers -> Nat]
      /\ lastId \in Nat
  <2>1. site \in [Urls -> Versions] /\ snapshot \in [Keys -> 0 .. MaxVersion]
    BY <1>0 DEF TypeOK
  <2>2. had \in [Workers -> 0 .. MaxVersion] /\ lastId \in 0 .. MaxId
    BY <1>0 DEF TypeOK
  <2>3. audited \in [Ids -> [Urls -> 0 .. MaxVersion]]
    BY <1>0 DEF TypeOK
  <2>4. [Urls -> 0 .. MaxVersion] \subseteq [Urls -> Nat]
    BY <1>1
  <2>5. audited \in [Ids -> [Urls -> Nat]]
    BY <2>3, <2>4
  <2>6. QED
    BY <1>1, <2>1, <2>2, <2>5
<1>3. \A i \in Registered : /\ i \in Ids /\ stores[i].url \in Urls
                            /\ \A row \in Rows : <<i, stores[i].url, row>> \in Keys
  BY <1>0, RowType DEF Keys
<1>4. \A w \in Workers : pc[w] # "idle" =>
        /\ task[w].id \in Ids /\ task[w].url \in Urls
        /\ task[w].seen \in Nat /\ task[w].seen > 0 /\ task[w].reached
        /\ \A row \in Rows : Key(w, row) \in Keys
  BY <1>0, <1>1, TaskType DEF AllReached
<1>5. QED
  BY <1>0, <1>2, <1>3, <1>4

\* A step of one worker that writes no snapshot.
LEMMA OneWorker ==
  ASSUME ChangeInv, NEW w \in Workers,
         UNCHANGED <<site, stores, lastId, snapshot, audited>>,
         \A v \in Workers \ {w} : UNCHANGED <<pc[v], task[v], had[v]>>,
         Sound(w)',
         \A i \in Registered : Owing(w, i) => Owing(w, i)'
  PROVE  Kept'
<1>1. Registered' = Registered /\ \A i \in Registered : Shown(i)' = Shown(i) /\ Covered(i)' = Covered(i)
  BY DEF Registered, Shown, Covered
<1>2. \A v \in Workers \ {w} : Sound(v)'
  BY DEF ChangeInv, Sound, Key
<1>3. \A v \in Workers \ {w}, i \in Registered : Owing(v, i) => Owing(v, i)'
  BY <1>1 DEF Owing
<1>4. Owed'
  BY <1>1, <1>3 DEF ChangeInv, Owed
<1>5. FreshIds' /\ NotAhead'
  BY DEF ChangeInv, FreshIds, NotAhead
<1>6. QED
  BY <1>2, <1>4, <1>5 DEF Kept

\* A worker that owes nothing goes idle.
LEMMA IdleChange ==
  ASSUME ChangeInv, NEW w \in Workers, Idle(w),
         UNCHANGED <<site, stores, lastId, snapshot, audited>>,
         \A i \in Registered : ~Owing(w, i)
  PROVE  Kept'
<1>1. /\ pc'[w] = "idle"
      /\ \A v \in Workers \ {w} : UNCHANGED <<pc[v], task[v], had[v]>>
  BY ChangeTypes DEF Idle, TypeOK
<1>2. Sound(w)'
  BY <1>1 DEF Sound
<1>3. QED
  BY <1>1, <1>2, OneWorker

\* A crawl sees the homepage as it is now, no older than any snapshot.
LEMMA CrawlChange ==
  ASSUME MayBlock = FALSE, ChangeInv, NEW w \in Workers, NEW i \in Registered,
         NEW kind \in {"full", "cheap"}, Crawl(w, i, kind),
         \A j \in Registered : Owing(w, j) => i = j /\ kind = "cheap",
         kind = "cheap" => Shown(i) > 0
  PROVE  Kept'
<1>1. /\ task' = [task EXCEPT ![w] = Visit(i, kind, TRUE)]
      /\ pc' = [pc EXCEPT ![w] = "crawled"] /\ had' = [had EXCEPT ![w] = 0]
      /\ UNCHANGED <<site, stores, lastId, snapshot, audited>>
  BY DEF Crawl, rowVars, runVars
<1>2. /\ \A v \in Workers \ {w} : UNCHANGED <<pc[v], task[v], had[v]>>
      /\ pc'[w] = "crawled" /\ task'[w] = Visit(i, kind, TRUE)
  BY <1>1, ChangeTypes DEF TypeOK
<1>3. /\ task'[w].id = i /\ task'[w].url = stores[i].url /\ task'[w].kind = kind
      /\ task'[w].seen = site[stores[i].url]
  BY <1>2 DEF Visit
<1>4. Shown(i) <= site[stores[i].url]
  <2>1. <<i, stores[i].url, "registered">> \in Keys
    BY ChangeTypes DEF Rows
  <2>2. QED
    BY <2>1 DEF ChangeInv, NotAhead, Shown
<1>5. Sound(w)'
  <2>1. Key(w, "registered")' = <<i, stores[i].url, "registered">>
    BY <1>3 DEF Key
  <2>2. site[stores[i].url] \in Nat
    BY ChangeTypes
  <2>3. task'[w].seen <= site'[task'[w].url]
    <3>1. site' = site
      BY <1>1
    <3>2. site[stores[i].url] <= site[stores[i].url]
      BY <2>2
    <3>3. QED
      BY <1>3, <3>1, <3>2
  <2>4. kind = "cheap" => snapshot'[Key(w, "registered")'] > 0
    BY <1>1, <2>1 DEF Shown
  <2>5. QED
    BY <1>2, <1>3, <2>3, <2>4 DEF Sound
<1>6. \A j \in Registered : Owing(w, j) => Owing(w, j)'
  BY <1>1, <1>2, <1>3, <1>4 DEF Owing, Shown
<1>7. QED
  BY <1>1, <1>2, <1>5, <1>6, OneWorker

\* The steps of a worker that write no snapshot.
LEMMA WorkerChange ==
  ASSUME HomeRow = "registered", MayBlock = FALSE, ChangeInv, NEW w \in Workers,
         \/ \E i \in Ids : StartCheck(w, i) \/ StartAudit(w, i)
         \/ Look(w) \/ NoteFails(w) \/ Recheck(w) \/ RecheckFails(w)
         \/ Load(w) \/ Save(w) \/ SaveFails(w) \/ FileFails(w) \/ Choose(w) \/ Discard(w)
  PROVE  Kept'
<1> USE ChangeTypes
<1>0. TypeOK /\ Sound(w)
  BY DEF ChangeInv
<1>1. ASSUME NEW i \in Ids, StartCheck(w, i) PROVE Kept'
  <2>1. /\ task' = [task EXCEPT ![w] = Visit(i, "cheap", TRUE)]
        /\ pc' = [pc EXCEPT ![w] = "fetched"] /\ i \in Registered /\ pc[w] = "idle"
        /\ UNCHANGED <<site, stores, lastId, snapshot, audited, had>>
    BY <1>1 DEF StartCheck, rowVars, runVars
  <2>2. /\ \A v \in Workers \ {w} : UNCHANGED <<pc[v], task[v], had[v]>>
        /\ pc'[w] = "fetched" /\ task'[w] = Visit(i, "cheap", TRUE)
    BY <1>0, <2>1 DEF TypeOK
  <2>3. /\ task'[w].seen = site[stores[i].url] /\ task'[w].url = stores[i].url
        /\ task'[w].kind = "cheap"
    BY <2>2 DEF Visit
  <2>4. site'[stores[i].url] = site[stores[i].url] /\ site[stores[i].url] \in Nat
    BY <2>1
  <2>5. Sound(w)'
    <3>1. task'[w].seen <= site'[task'[w].url]
      BY <2>3, <2>4
    <3>2. QED
      BY <2>2, <2>3, <3>1 DEF Sound
  <2>6. \A j \in Registered : ~Owing(w, j)
    BY <2>1 DEF Owing
  <2>7. QED
    BY <2>1, <2>2, <2>5, <2>6, OneWorker
<1>2. ASSUME NEW i \in Ids, StartAudit(w, i) PROVE Kept'
  BY <1>2, CrawlChange DEF StartAudit, Owing
<1>3. CASE Recheck(w)
  <2> DEFINE i == task[w].id
  <2>1. pc[w] = "changed" /\ i \in Registered /\ Crawl(w, i, "cheap")
    BY <1>3 DEF Recheck
  <2>2. Key(w, "registered") = <<i, stores[i].url, "registered">>
    BY <2>1 DEF ChangeInv, OwnInv, TaskIsOwn, Key
  <2>3. Shown(i) > 0
    BY <1>0, <2>1, <2>2 DEF Sound, Shown
  <2>4. QED
    BY <2>1, <2>3, CrawlChange DEF Owing
<1>4. CASE Look(w) \/ Load(w) \/ Save(w)
  <2>1. /\ UNCHANGED <<site, stores, lastId, snapshot, audited, task>> /\ pc[w] # "idle"
        /\ \A v \in Workers \ {w} : UNCHANGED <<pc[v], task[v], had[v]>>
    BY <1>0, <1>4 DEF Look, Load, Save, rowVars, runVars, TypeOK
  <2>2. \/ pc[w] = "fetched" /\ pc'[w] = "looked"
        \/ pc[w] = "crawled" /\ pc'[w] = "loaded" /\ had'[w] = snapshot[Key(w, "registered")]
        \/ pc[w] = "loaded" /\ pc'[w] = "saved"
    BY <1>0, <1>4, <2>1 DEF Look, Load, Save, TypeOK
  <2>3. Sound(w)'
    BY <1>0, <2>1, <2>2 DEF Sound
  <2>4. \A i \in Registered : Owing(w, i) => Owing(w, i)'
    BY <2>1, <2>2 DEF Owing, Shown
  <2>5. QED
    BY <2>1, <2>3, <2>4, OneWorker
<1>5. CASE NoteFails(w) \/ RecheckFails(w) \/ SaveFails(w) \/ FileFails(w)
  <2>1. Idle(w) /\ UNCHANGED <<site, stores, lastId, snapshot, audited>>
    BY <1>5 DEF NoteFails, RecheckFails, SaveFails, FileFails, rowVars, runVars
  <2>2. \A i \in Registered : ~Owing(w, i)
    <3>1. CASE NoteFails(w)
      BY <3>1 DEF NoteFails, Owing
    <3>2. CASE RecheckFails(w) \/ FileFails(w)
      BY <3>2 DEF RecheckFails, FileFails, Owing
    <3>3. CASE SaveFails(w)
      BY <1>0, <3>3 DEF SaveFails, Clash, Sound, Owing
    <3>4. QED
      BY <1>5, <3>1, <3>2, <3>3
  <2>3. QED
    BY <2>1, <2>2, IdleChange
<1>6. CASE Choose(w) \/ Discard(w)
  <2>1. /\ UNCHANGED <<site, stores, lastId, snapshot, audited>>
        /\ pc[w] \in {"filed", "chosen"}
    BY <1>6 DEF Choose, Discard, rowVars, runVars
  <2>2. \A i \in Registered : ~Owing(w, i)
    BY <2>1 DEF Owing
  <2>3. CASE Idle(w)
    BY <2>1, <2>2, <2>3, IdleChange
  <2>4. CASE ~Idle(w)
    <3>1. /\ UNCHANGED <<task, had>> /\ pc'[w] = "chosen" /\ pc[w] = "filed"
          /\ \A v \in Workers \ {w} : pc'[v] = pc[v]
      BY <1>0, <1>6, <2>4 DEF Choose, Discard, TypeOK
    <3>2. Sound(w)'
      BY <1>0, <2>1, <3>1 DEF Sound
    <3>3. QED
      BY <2>1, <2>2, <3>1, <3>2, OneWorker
  <2>5. QED
    BY <2>3, <2>4
<1>7. QED
  BY <1>1, <1>2, <1>3, <1>4, <1>5, <1>6

\* What a session writes in the row of its store is the version it saw.
LEMMA WrittenRow ==
  ASSUME ChangeInv, NEW w \in Workers, pc[w] # "idle",
         snapshot' = Written(w, "registered")
  PROVE  /\ \A k \in Keys : k # Key(w, "registered") => snapshot'[k] = snapshot[k]
         /\ Differs(w) => snapshot'[Key(w, "registered")] = task[w].seen
         /\ ~Differs(w) => snapshot' = snapshot
         /\ \A k \in Keys : snapshot[k] > 0 => snapshot'[k] > 0
<1>1. snapshot \in [Keys -> Nat] /\ Key(w, "registered") \in Keys /\ task[w].seen > 0
  BY ChangeTypes DEF Rows
<1>2. /\ \A k \in Keys : k # Key(w, "registered") => snapshot'[k] = snapshot[k]
      /\ Differs(w) => snapshot'[Key(w, "registered")] = task[w].seen
      /\ ~Differs(w) => snapshot' = snapshot
  BY <1>1 DEF Written
<1>3. QED
  BY <1>1, <1>2

\* A version that was written is one the homepage had, under an id in use.
LEMMA WrittenKept ==
  ASSUME ChangeInv, NEW w \in Workers, pc[w] # "idle",
         snapshot' = Written(w, "registered"), UNCHANGED <<site, lastId>>
  PROVE  FreshIds' /\ NotAhead'
<1> DEFINE key == Key(w, "registered")
<1>1. /\ \A k \in Keys : k # key => snapshot'[k] = snapshot[k]
      /\ snapshot'[key] \in {task[w].seen, snapshot[key]}
  BY WrittenRow
<1>2. /\ key \in Keys /\ key[1] = task[w].id /\ key[2] = task[w].url
      /\ task[w].id \in Nat /\ lastId \in Nat /\ task[w].id <= lastId
  <2>1. key \in Keys /\ task[w].id \in Ids /\ lastId \in Nat
    BY ChangeTypes DEF Rows
  <2>2. task[w].id <= lastId
    BY DEF ChangeInv, OwnInv, IdsHandedOut
  <2>3. key[1] = task[w].id /\ key[2] = task[w].url
    BY DEF Key
  <2>4. QED
    BY <2>1, <2>2, <2>3 DEF Ids
<1>3. FreshIds'
  BY <1>1, <1>2 DEF ChangeInv, FreshIds
<1>4. task[w].seen <= site[key[2]]
  BY <1>2 DEF ChangeInv, Sound
<1>5. NotAhead'
  BY <1>1, <1>2, <1>4 DEF ChangeInv, NotAhead
<1>6. QED
  BY <1>3, <1>5

LEMMA NoteChange ==
  ASSUME ChangeInv, NEW w \in Workers, Note(w) PROVE Kept'
<1>0. /\ TypeOK /\ pc[w] = "looked" /\ Sound(w) /\ task[w].id \in Registered
      /\ snapshot' = Written(w, "registered")
      /\ UNCHANGED <<site, stores, lastId, audited>>
  BY ChangeTypes DEF ChangeInv, Note, Rejected, rowVars, runVars
<1> PICK i \in Registered : i = task[w].id
  BY <1>0
<1>1. CASE ~Differs(w)
  <2>1. Idle(w) /\ UNCHANGED snapshot
    BY <1>0, <1>1, WrittenRow DEF Note, Changed
  <2>2. \A j \in Registered : ~Owing(w, j)
    BY <1>0 DEF Owing
  <2>3. QED
    BY <1>0, <2>1, <2>2, IdleChange
<1>2. CASE Differs(w)
  <2>1. /\ UNCHANGED <<task, had>> /\ pc'[w] = "changed"
        /\ \A v \in Workers \ {w} : pc'[v] = pc[v]
    BY <1>0, <1>2 DEF Note, Changed, TypeOK
  <2>2. FreshIds' /\ NotAhead'
    BY <1>0, WrittenKept
  <2>3. \A v \in Workers \ {w} : Sound(v)'
    <3> SUFFICES ASSUME NEW v \in Workers \ {w} PROVE Sound(v)'
      OBVIOUS
    <3>1. pc[v] # "idle" => Key(v, "registered") \in Keys
      BY ChangeTypes DEF Rows
    <3>2. pc[v] # "idle" /\ snapshot[Key(v, "registered")] > 0
            => snapshot'[Key(v, "registered")] > 0
      BY <1>0, <3>1, WrittenRow
    <3>3. Key(v, "registered")' = Key(v, "registered") /\ Sound(v)
      BY <2>1 DEF Key, ChangeInv
    <3>4. QED
      BY <1>0, <2>1, <3>2, <3>3 DEF Sound
  <2>4. Sound(w)'
    <3>1. snapshot'[Key(w, "registered")] = task[w].seen /\ task[w].seen > 0
      BY <1>0, <1>2, WrittenRow, ChangeTypes
    <3>2. Key(w, "registered")' = Key(w, "registered")
      BY <2>1 DEF Key
    <3>3. QED
      BY <1>0, <2>1, <3>1, <3>2 DEF Sound
  <2>5. Owing(w, i)'
    BY <1>0, <2>1 DEF Owing, Sound
  <2>6. ASSUME NEW j \in Registered, j # i
        PROVE  /\ Shown(j)' = Shown(j) /\ Covered(j)' = Covered(j)
               /\ \A v \in Workers : Owing(v, j) => Owing(v, j)'
    <3>1. <<j, stores[j].url, "registered">> \in Keys
      BY ChangeTypes DEF Rows
    <3>2. <<j, stores[j].url, "registered">> # Key(w, "registered")
      BY <2>6 DEF Key
    <3>3. Shown(j)' = Shown(j) /\ Covered(j)' = Covered(j)
      BY <1>0, <3>1, <3>2, WrittenRow DEF Shown, Covered
    <3>4. ASSUME NEW v \in Workers, Owing(v, j) PROVE Owing(v, j)'
      <4>1. v # w
        BY <2>6, <3>4 DEF Owing
      <4>2. QED
        BY <2>1, <3>3, <3>4, <4>1 DEF Owing
    <3>5. QED
      BY <3>3, <3>4
  <2>7. Owed'
    <3>1. Registered' = Registered
      BY <1>0 DEF Registered
    <3>2. QED
      BY <2>5, <2>6, <3>1 DEF ChangeInv, Owed
  <2>8. QED
    BY <2>2, <2>3, <2>4, <2>7 DEF Kept
<1>3. QED
  BY <1>1, <1>2

LEMMA MaxOfTwo ==
  ASSUME NEW a \in Nat, NEW b \in Nat
  PROVE  Max({a, b}) \in Nat /\ a <= Max({a, b}) /\ b <= Max({a, b})
<1>1. \E x \in {a, b} : \A y \in {a, b} : x >= y
  BY a >= b \/ b >= a
<1>2. Max({a, b}) \in {a, b} /\ \A y \in {a, b} : Max({a, b}) >= y
  BY <1>1 DEF Max
<1>3. QED
  BY <1>2

\* An audit covers what it saw, and whatever it owed.
LEMMA FileChange ==
  ASSUME HomeRow = "registered", ChangeInv, NEW w \in Workers, File(w) PROVE Kept'
<1> USE ChangeTypes
<1>0. /\ TypeOK /\ pc[w] = "saved" /\ task[w].reached /\ task[w].id \in Registered
      /\ snapshot' = Written(w, "registered")
      /\ UNCHANGED <<site, stores, lastId, task, had>>
      /\ pc' = [pc EXCEPT ![w] = "filed"]
  BY DEF ChangeInv, File, rowVars
<1> PICK i \in Registered : i = task[w].id
  BY <1>0
<1> DEFINE u == stores[i].url
           seen == task[w].seen
<1>1. u = task[w].url /\ u \in Urls /\ i \in Ids /\ seen \in Nat
  BY <1>0 DEF ChangeInv, OwnInv, TaskIsOwn
<1>2. pc'[w] = "filed" /\ \A v \in Workers \ {w} : pc'[v] = pc[v]
  BY <1>0 DEF TypeOK
<1>3. /\ audited'[i][u] = Max({audited[i][u], seen})
      /\ \A j \in Ids \ {i} : audited'[j] = audited[j]
  <2>1. audited' = [audited EXCEPT ![i][u] = Max({@, seen})]
    BY <1>0, <1>1 DEF File
  <2>2. QED
    BY <1>1, <2>1
<1>4. seen <= Covered(i)' /\ Covered(i) <= Covered(i)' /\ Covered(i) \in Nat /\ Covered(i)' \in Nat
  <2>1. Covered(i) = audited[i][u] /\ Covered(i)' = Max({audited[i][u], seen})
    BY <1>0, <1>3 DEF Covered
  <2>2. audited[i][u] \in Nat
    BY <1>1
  <2>3. QED
    BY <1>1, <2>1, <2>2, MaxOfTwo
<1>5. /\ <<i, u, "registered">> = Key(w, "registered")
      /\ <<i, u, "registered">> \in Keys
  BY <1>1 DEF Key, Rows
<1>6. Shown(i) \in Nat /\ Shown(i)' = IF Differs(w) THEN seen ELSE Shown(i)
  BY <1>0, <1>5, WrittenRow DEF Shown
<1>7. FreshIds' /\ NotAhead'
  BY <1>0, WrittenKept
<1>8. ASSUME NEW v \in Workers PROVE Sound(v)'
  <2>1. CASE v = w
    BY <1>0, <1>2, <2>1 DEF ChangeInv, Sound
  <2>2. CASE v # w
    <3>1. pc[v] # "idle" => Key(v, "registered") \in Keys
      BY DEF Rows
    <3>2. pc[v] # "idle" /\ snapshot[Key(v, "registered")] > 0
            => snapshot'[Key(v, "registered")] > 0
      BY <1>0, <3>1, WrittenRow
    <3>3. Key(v, "registered")' = Key(v, "registered") /\ Sound(v)
      BY <1>0 DEF Key, ChangeInv
    <3>4. QED
      BY <1>0, <1>2, <2>2, <3>2, <3>3 DEF Sound
  <2>3. QED
    BY <2>1, <2>2
<1>9. Shown(i)' <= Covered(i)' \/ \E v \in Workers : Owing(v, i)'
  <2>1. CASE Differs(w)
    BY <1>4, <1>6, <2>1
  <2>2. CASE ~Differs(w) /\ Shown(i) <= Covered(i)
    BY <1>4, <1>6, <2>2
  <2>3. ASSUME ~Differs(w), NEW v \in Workers, Owing(v, i)
        PROVE  Shown(i)' <= Covered(i)' \/ Owing(v, i)'
    <3>1. CASE v = w
      <4>1. Shown(i) <= seen
        BY <1>0, <2>3, <3>1 DEF Owing
      <4>2. QED
        BY <1>1, <1>4, <1>6, <2>3, <4>1
    <3>2. CASE v # w
      BY <1>0, <1>2, <1>6, <2>3, <3>2 DEF Owing
    <3>3. QED
      BY <3>1, <3>2
  <2>4. QED
    BY <2>1, <2>2, <2>3 DEF ChangeInv, Owed
<1>10. ASSUME NEW j \in Registered, j # i
       PROVE  Shown(j)' <= Covered(j)' \/ \E v \in Workers : Owing(v, j)'
  <2>1. /\ <<j, stores[j].url, "registered">> \in Keys /\ j \in Ids
        /\ <<j, stores[j].url, "registered">> # Key(w, "registered")
    BY <1>10 DEF Rows, Key
  <2>2. Shown(j)' = Shown(j) /\ Covered(j)' = Covered(j)
    BY <1>0, <1>3, <1>10, <2>1, WrittenRow DEF Shown, Covered
  <2>3. ASSUME NEW v \in Workers, Owing(v, j) PROVE Owing(v, j)'
    <3>1. v # w
      BY <1>10, <2>3 DEF Owing
    <3>2. QED
      BY <1>0, <1>2, <2>2, <2>3, <3>1 DEF Owing
  <2>4. QED
    BY <2>2, <2>3 DEF ChangeInv, Owed
<1>11. Owed'
  <2>1. Registered' = Registered
    BY <1>0 DEF Registered
  <2>2. QED
    BY <1>9, <1>10, <2>1 DEF Owed
<1>12. QED
  BY <1>7, <1>8, <1>11 DEF Kept

\* The steps of merchants and admins that neither add nor delete a row.
LEMMA OthersChange ==
  ASSUME ChangeInv, UNCHANGED <<stores, lastId, snapshot, runVars, workVars>>,
         \A u \in Urls : site[u] <= site'[u] /\ site'[u] \in Nat
  PROVE  Kept'
<1> USE ChangeTypes
<1>1. Registered' = Registered /\ \A i \in Ids : Shown(i)' = Shown(i) /\ Covered(i)' = Covered(i)
  BY DEF Registered, Shown, Covered, runVars
<1>2. \A v \in Workers, i \in Ids : Owing(v, i) => Owing(v, i)'
  BY <1>1 DEF Owing, workVars
<1>3. Owed'
  BY <1>1, <1>2 DEF ChangeInv, Owed
<1>4. FreshIds'
  BY DEF ChangeInv, FreshIds
<1>5. NotAhead'
  <2> SUFFICES ASSUME NEW k \in Keys PROVE snapshot[k] <= site'[k[2]]
    BY DEF NotAhead
  <2>1. k[2] \in Urls
    BY DEF Keys
  <2>2. snapshot[k] <= site[k[2]] /\ snapshot[k] \in Nat /\ site[k[2]] \in Nat
    BY <2>1 DEF ChangeInv, NotAhead
  <2>3. QED
    BY <2>1, <2>2
<1>6. ASSUME NEW v \in Workers PROVE Sound(v)'
  <2> SUFFICES ASSUME pc[v] # "idle" PROVE Sound(v)'
    BY DEF Sound, workVars
  <2>1. task[v].url \in Urls /\ task[v].seen \in Nat /\ site[task[v].url] \in Nat
    OBVIOUS
  <2>2. task[v].seen <= site'[task[v].url]
    BY <2>1 DEF ChangeInv, Sound
  <2>3. QED
    BY <2>2 DEF ChangeInv, Sound, Key, workVars
<1>7. QED
  BY <1>3, <1>4, <1>5, <1>6 DEF Kept

LEMMA RegisterChange ==
  ASSUME ForeignKeys = TRUE, ChangeInv, NEW u \in Urls, NEW mode \in Modes, Register(u, mode)
  PROVE  Kept'
<1> DEFINE row == [url |-> u, mode |-> mode]
<1> PICK n \in Ids : n = lastId + 1
  BY DEF Register, NewId
<1>0. /\ lastId \in Nat /\ lastId' = n /\ stores' = [stores EXCEPT ![n] = row]
      /\ UNCHANGED <<site, snapshot, audited, pc, task, had>>
      /\ stores \in [Ids -> [url : Urls, mode : Modes] \cup {NoStore}]
  BY ChangeTypes DEF Register, NewId, runVars, workVars, TypeOK
<1>1. /\ stores'[n] = row /\ row.url = u
      /\ \A i \in Ids \ {n} : stores'[i] = stores[i]
  BY <1>0
<1> HIDE DEF row
<1>2. /\ Registered' \subseteq Registered \cup {n} /\ n \notin Registered
      /\ \A i \in Registered : i \in Ids /\ i # n
  BY <1>0, <1>1 DEF Registered, ChangeInv, OwnInv, IdsHandedOut
<1>3. FreshIds'
  <2> SUFFICES ASSUME NEW k \in Keys, k[1] > n PROVE snapshot[k] = 0
    BY <1>0 DEF FreshIds
  <2>1. k[1] \in Nat
    BY DEF Keys, Ids
  <2>2. QED
    BY <1>0, <2>1 DEF ChangeInv, FreshIds
<1>4. NotAhead' /\ \A v \in Workers : Sound(v)'
  BY <1>0 DEF ChangeInv, NotAhead, Sound, Key
<1>5. Shown(n)' <= Covered(n)'
  <2>1. <<n, u, "registered">> \in Keys /\ <<n, u, "registered">>[1] = n
    BY <1>0 DEF Keys, Rows
  <2>2. Shown(n)' = 0 /\ Covered(n)' = audited[n][u]
    BY <1>0, <1>1, <2>1 DEF Shown, Covered, ChangeInv, FreshIds
  <2>3. audited[n][u] \in Nat
    BY <1>0, ChangeTypes
  <2>4. QED
    BY <2>2, <2>3
<1>6. ASSUME NEW i \in Registered PROVE Shown(i)' <= Covered(i)' \/ \E v \in Workers : Owing(v, i)'
  <2>1. Shown(i)' = Shown(i) /\ Covered(i)' = Covered(i)
    BY <1>0, <1>1, <1>2 DEF Shown, Covered
  <2>2. \A v \in Workers : Owing(v, i) => Owing(v, i)'
    BY <1>0, <2>1 DEF Owing
  <2>3. QED
    BY <2>1, <2>2 DEF ChangeInv, Owed
<1>7. Owed'
  BY <1>2, <1>5, <1>6 DEF Owed
<1>8. QED
  BY <1>3, <1>4, <1>7 DEF Kept

LEMMA EndRemoveChange ==
  ASSUME ChangeInv, NEW n \in Ids, EndRemove(n) PROVE Kept'
<1>0. /\ UNCHANGED <<site, lastId, snapshot, audited, pc, task, had>>
      /\ stores' = [stores EXCEPT ![n] = NoStore]
      /\ stores \in [Ids -> [url : Urls, mode : Modes] \cup {NoStore}]
  BY ChangeTypes DEF EndRemove, runVars, workVars, TypeOK
<1>1. Registered' \subseteq Registered /\ \A i \in Registered' : stores'[i] = stores[i]
  BY <1>0 DEF Registered
<1>2. FreshIds' /\ NotAhead' /\ \A v \in Workers : Sound(v)'
  BY <1>0 DEF ChangeInv, FreshIds, NotAhead, Sound, Key
<1>3. ASSUME NEW i \in Registered' PROVE Shown(i)' <= Covered(i)' \/ \E v \in Workers : Owing(v, i)'
  <2>1. Shown(i)' = Shown(i) /\ Covered(i)' = Covered(i)
    BY <1>0, <1>1 DEF Shown, Covered
  <2>2. \A v \in Workers : Owing(v, i) => Owing(v, i)'
    BY <1>0, <2>1 DEF Owing
  <2>3. QED
    BY <1>1, <2>1, <2>2 DEF ChangeInv, Owed
<1>4. Owed'
  BY <1>3 DEF Owed
<1>5. QED
  BY <1>2, <1>4 DEF Kept

LEMMA InitChange == Init => ChangeInv
<1> SUFFICES ASSUME Init PROVE ChangeInv
  OBVIOUS
<1>1. FreshIds /\ Owed
  BY DEF Init, FreshIds, Owed, Registered
<1>2. NotAhead
  BY DEF Init, NotAhead, Keys
<1>3. \A w \in Workers : Sound(w)
  BY DEF Init, Sound
<1>4. QED
  BY <1>1, <1>2, <1>3, InitDelta, InitOwn DEF ChangeInv

LEMMA NextChange ==
  ASSUME ForeignKeys = TRUE, HomeRow = "registered", MayBlock = FALSE, MayFail = FALSE,
         ChangeInv, [Next]_vars
  PROVE  ChangeInv'
<1>0. DeltaInv' /\ OwnInv'
  BY NextDelta, NextOwn DEF ChangeInv
<1>1. site \in [Urls -> Nat]
  BY ChangeTypes
<1>2. ASSUME UNCHANGED vars PROVE Kept'
  <2>1. UNCHANGED <<site, stores, lastId, snapshot, runVars, workVars>>
    BY <1>2 DEF vars, rowVars
  <2>2. \A v \in Urls : site[v] <= site'[v] /\ site'[v] \in Nat
    BY <1>1, <2>1
  <2>3. QED
    BY <2>1, <2>2, OthersChange
<1>3. ASSUME NEW u \in Urls, Edit(u) PROVE Kept'
  <2>1. site' = [site EXCEPT ![u] = @ + 1] /\ UNCHANGED <<stores, lastId, snapshot, runVars, workVars>>
    BY <1>3 DEF Edit, rowVars
  <2>2. \A v \in Urls : site[v] <= site'[v] /\ site'[v] \in Nat
    BY <1>1, <2>1
  <2>3. QED
    BY <2>1, <2>2, OthersChange
<1>4. ASSUME NEW i \in Ids,
             BeginRemove(i) \/ Refresh(i) \/ RefreshFails(i) \/ Schedule(i) \/ RemoveFails(i)
      PROVE  Kept'
  <2>1. UNCHANGED <<site, stores, lastId, snapshot, runVars, workVars>>
    BY <1>4 DEF BeginRemove, Refresh, RefreshFails, Schedule, RemoveFails
  <2>2. QED
    BY <1>1, <2>1, OthersChange
<1>5. ASSUME NEW w \in Workers, WorkerStep(w) \/ \E i \in Ids : StartCheck(w, i) \/ StartAudit(w, i)
      PROVE  Kept'
  BY <1>5, WorkerChange, NoteChange, FileChange DEF WorkerStep
<1>6. ~Restart /\ \A w \in Workers : ~Fail(w)
  BY DEF Restart, Fail
<1>7. Kept'
  BY <1>2, <1>3, <1>4, <1>5, <1>6, RegisterChange, EndRemoveChange DEF Next, AdminStep
<1>8. QED
  BY <1>0, <1>7 DEF ChangeInv, Kept

\* In Postgres, with homepages that can be reached and whose registered
\* spelling is the one the mapper writes, and while nothing fails: whatever a
\* cheap check recorded as seen is covered by an audit or by one under way,
\* however many audits of the store run at once.
THEOREM ChangeAuditedHolds ==
  ASSUME ForeignKeys = TRUE, HomeRow = "registered", MayBlock = FALSE, MayFail = FALSE
  PROVE  SafeSpec => []ChangeAudited
<1>1. Init => ChangeInv
  BY InitChange
<1>2. ChangeInv /\ [Next]_vars => ChangeInv'
  BY NextChange
<1>3. QED
  BY <1>1, <1>2, ChangeInvCovers, PTL DEF SafeSpec
=============================================================================
