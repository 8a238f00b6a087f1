---------------------------- MODULE StoreMonitor ----------------------------
(***************************************************************************)
(* Monitored stores: MonitorService (app/monitor_service.py), its jobs in  *)
(* the scheduler (app/scheduling.py) and the rows of MonitoredStore,       *)
(* PageSnapshot and AuditRun.                                              *)
(*                                                                         *)
(* A worker is one coroutine of the service: a cheap check the scheduler   *)
(* fires, or a full audit that the scheduler, an admin's re-run or a       *)
(* policy change starts; any number of them may be at work on one store.   *)
(* Cheap check and finalization each use one session that reads, and       *)
(* later writes; the steps below are its reads, its flush and its commit.  *)
(* A crawl is one step, which sees one version of the store's homepage.    *)
(*                                                                         *)
(* SQLite, the default database, does not enforce foreign keys and hands   *)
(* out the largest id + 1, so it reuses the id of a removed store;         *)
(* Postgres enforces them and takes ids from a sequence.                   *)
(***************************************************************************)
EXTENDS Naturals, FiniteSets, FiniteSetsExt

CONSTANTS
  Workers,      \* coroutines that may be at work at once
  Urls,         \* the stores admins register, as they spell them
  MaxId,        \* bound: ids handed out
  MaxVersion,   \* bound: versions of a store's homepage
  MaxRuns,      \* bound: runs filed per id before re-runs stop
  Retain,       \* Settings.audit_run_retention_count
  ForeignKeys,  \* the database enforces foreign keys: Postgres
  HomeRow,      \* the row a crawl writes for the homepage: see Rows
  MayBlock,     \* a crawl may find the homepage unreachable
  MayFail,      \* an audit, a registration or a removal may fail, or the process
                \* restart, at any point
  NoStore,      \* there is no such row
  NoTask        \* the worker is idle

Ids == 1..MaxId

\* PageSnapshot is looked up by URL.  The mapper normalises the URL of the
\* homepage: a store registered in that spelling has one row for cheap checks
\* and crawls, and two rows otherwise ("https://shop" and "https://shop/").
Rows == {"registered", "mapped"}

ASSUME BoundsAssumption ==
  MaxId \in Nat /\ MaxVersion \in Nat \ {0} /\ MaxRuns \in Nat
ASSUME RetainAssumption == Retain \in Nat \ {0}
ASSUME FlagsAssumption ==
  {ForeignKeys, MayBlock, MayFail} \subseteq BOOLEAN /\ HomeRow \in Rows
ASSUME MarkersAssumption ==
  NoStore \notin [url : Urls, mode : SUBSET {"full", "cheap"}]

VARIABLES
  site,      \* site[u]: version of the homepage of u now
  stores,    \* stores[i]: the row of MonitoredStore with id i
  lastId,    \* the largest id handed out
  jobs,      \* jobs[i]: what the scheduler runs for id i
  joining,   \* joining[i]: where the registration that got id i is, its mode
  removing,  \* ids a remove_store is at work on
  stranded,  \* ids a registration or a removal raised on, not scheduled since
  snapshot,  \* snapshot[k]: version in the PageSnapshot with key k, 0 for none
  history,   \* history[i]: the "full" AuditRuns with store_id i
  filed,     \* filed[i]: how many were ever filed
  audited,   \* audited[i][u]: newest homepage of u that a run of id i saw
  pc,        \* pc[w]: where worker w is
  task,      \* task[w]: what it works on
  had,       \* had[w]: version in the snapshot its session loaded
  base,      \* base[w]: number of the run it compares with, 0 for none
  drop       \* drop[w]: runs it found too old

rowVars == <<stores, lastId, jobs, joining, removing, stranded>>
workVars == <<pc, task, had, base, drop>>
runVars == <<history, filed, audited>>
vars == <<site, rowVars, snapshot, runVars, workVars>>

-----------------------------------------------------------------------------
Registered == {i \in Ids : stores[i] # NoStore}

Modes == {{"full"}, {"cheap"}, {"full", "cheap"}}

Keys == Ids \X Urls \X Rows

\* The row that a worker's session reads and writes.
Key(w, row) == <<task[w].id, task[w].url, row>>

Working == {w \in Workers : pc[w] # "idle"}

On(i) == {w \in Working : task[w].id = i}

\* Audits of i that flushed their snapshots and did not commit yet.
Flushed(i) == {w \in On(i) : pc[w] = "saved" /\ task[w].reached}

\* SQLite has one writer at a time.
Locked == ~ForeignKeys /\ \E i \in Ids : Flushed(i) # {}

\* Postgres locks the snapshots that were written.
RowLocked(i, row) == Locked \/ (row = HomeRow /\ Flushed(i) # {})

Newest(i) == IF history[i] = {} THEN 0 ELSE Max({r.no : r \in history[i]})

Init ==
  /\ site = [u \in Urls |-> 1]
  /\ stores = [i \in Ids |-> NoStore]
  /\ lastId = 0
  /\ jobs = [i \in Ids |-> {}]
  /\ joining = [i \in Ids |-> [at |-> "no", mode |-> {}]]
  /\ removing = {}
  /\ stranded = {}
  /\ snapshot = [k \in Keys |-> 0]
  /\ history = [i \in Ids |-> {}]
  /\ filed = [i \in Ids |-> 0]
  /\ audited = [i \in Ids |-> [u \in Urls |-> 0]]
  /\ pc = [w \in Workers |-> "idle"]
  /\ task = [w \in Workers |-> NoTask]
  /\ had = [w \in Workers |-> 0]
  /\ base = [w \in Workers |-> 0]
  /\ drop = [w \in Workers |-> {}]

\* The merchant edits the homepage.
Edit(u) ==
  /\ site[u] < MaxVersion
  /\ site' = [site EXCEPT ![u] = @ + 1]
  /\ UNCHANGED <<rowVars, snapshot, runVars, workVars>>

-----------------------------------------------------------------------------
(* Registration and removal.                                               *)

NewId ==
  IF ForeignKeys THEN lastId + 1 ELSE Max({0} \cup Registered) + 1

\* register_store commits the row; url is unique.  refresh is awaited.
\* Bound: one registration of an id is under way at a time.
Register(u, mode) ==
  /\ NewId \in Ids
  /\ joining[NewId].at = "no"
  /\ ~Locked
  /\ \A i \in Registered : stores[i].url # u
  /\ stores' = [stores EXCEPT ![NewId] = [url |-> u, mode |-> mode]]
  /\ lastId' = NewId
  /\ joining' = [joining EXCEPT ![NewId] = [at |-> "committed", mode |-> mode]]
  /\ UNCHANGED <<site, jobs, removing, stranded, snapshot, runVars, workVars>>

\* session.refresh finds the row.
Refresh(i) ==
  /\ joining[i].at = "committed"
  /\ i \in Registered
  /\ joining' = [joining EXCEPT ![i].at = "refreshed"]
  /\ UNCHANGED <<site, stores, lastId, jobs, removing, stranded, snapshot, runVars,
                 workVars>>

\* It raises when the row is gone again, or the database fails; the row, if
\* it is there, stays and is not scheduled.
RefreshFails(i) ==
  /\ joining[i].at = "committed"
  /\ MayFail \/ i \notin Registered
  /\ joining' = [joining EXCEPT ![i].at = "no"]
  /\ stranded' = stranded \cup ({i} \cap Registered)
  /\ UNCHANGED <<site, stores, lastId, jobs, removing, snapshot, runVars, workVars>>

\* schedule_store, with the mode it was registered with.
Schedule(i) ==
  /\ joining[i].at = "refreshed"
  /\ joining' = [joining EXCEPT ![i].at = "no"]
  /\ jobs' = [jobs EXCEPT ![i] = @ \cup joining[i].mode]
  /\ stranded' = stranded \ {i}
  /\ UNCHANGED <<site, stores, lastId, removing, snapshot, runVars, workVars>>

\* remove_store unschedules first.  Bound: one removal of an id at a time.
BeginRemove(i) ==
  /\ i \in Registered \ removing
  /\ removing' = removing \cup {i}
  /\ jobs' = [jobs EXCEPT ![i] = {}]
  /\ UNCHANGED <<site, stores, lastId, joining, stranded, snapshot, runVars, workVars>>

\* Rows of PageSnapshot and AuditRun refer to the store.
Referred(i) ==
  history[i] # {} \/ \E u \in Urls, row \in Rows : snapshot[<<i, u, row>>] # 0

\* A foreign key that is enforced forbids the delete.
Forbidden(i) == ForeignKeys /\ Referred(i)

\* It then gets the row, deletes it and commits.
EndRemove(i) ==
  /\ i \in removing
  /\ ~RowLocked(i, HomeRow) /\ ~Forbidden(i)
  /\ removing' = removing \ {i}
  /\ stores' = [stores EXCEPT ![i] = NoStore]
  /\ stranded' = stranded \ {i}
  /\ UNCHANGED <<site, lastId, jobs, joining, snapshot, runVars, workVars>>

\* One of these raises; the jobs stay away.
RemoveFails(i) ==
  /\ i \in removing
  /\ MayFail \/ (~RowLocked(i, HomeRow) /\ Forbidden(i))
  /\ removing' = removing \ {i}
  /\ stranded' = stranded \cup ({i} \cap Registered)
  /\ UNCHANGED <<site, stores, lastId, jobs, joining, snapshot, runVars, workVars>>

-----------------------------------------------------------------------------
(* A cheap check.                                                          *)

Idle(w) ==
  /\ pc' = [pc EXCEPT ![w] = "idle"]
  /\ task' = [task EXCEPT ![w] = NoTask]
  /\ had' = [had EXCEPT ![w] = 0]
  /\ base' = [base EXCEPT ![w] = 0]
  /\ drop' = [drop EXCEPT ![w] = {}]

Visit(i, kind, reached) ==
  [id |-> i, url |-> stores[i].url, kind |-> kind,
   seen |-> site[stores[i].url], reached |-> reached]

\* The scheduler fires, never twice at once for one job; run_cheap_check
\* finds the store and fetches its homepage.
StartCheck(w, i) ==
  /\ pc[w] = "idle"
  /\ "cheap" \in jobs[i]
  /\ \A v \in On(i) : task[v].kind # "cheap"
  /\ i \in Registered
  /\ task' = [task EXCEPT ![w] = Visit(i, "cheap", TRUE)]
  /\ pc' = [pc EXCEPT ![w] = "fetched"]
  /\ UNCHANGED <<site, rowVars, snapshot, runVars, had, base, drop>>

\* Its session selects the snapshot.
Look(w) ==
  /\ pc[w] = "fetched"
  /\ had' = [had EXCEPT ![w] = snapshot[Key(w, "registered")]]
  /\ pc' = [pc EXCEPT ![w] = "looked"]
  /\ UNCHANGED <<site, rowVars, snapshot, runVars, task, base, drop>>

\* The session inserts a snapshot that another session inserted meanwhile.
Clash(w, row) == had[w] = 0 /\ snapshot[Key(w, row)] # 0

\* The row of the store is gone, or the insert violates uq_page_snapshot.
Rejected(w, row) == task[w].id \notin Registered \/ Clash(w, row)

Differs(w) == had[w] # task[w].seen

\* An attribute that was set to the value it was loaded with is not written.
Written(w, row) ==
  IF Differs(w) THEN [snapshot EXCEPT ![Key(w, row)] = task[w].seen] ELSE snapshot

ChangedSince(w) == had[w] # 0 /\ Differs(w)      \* mutant
Changed(w) == Differs(w)

\* The commit of the snapshot and of the "cheap_check" run.
Note(w) ==
  /\ pc[w] = "looked"
  /\ ~RowLocked(task[w].id, "registered")
  /\ ~Rejected(w, "registered")
  /\ snapshot' = Written(w, "registered")
  /\ IF Changed(w)
     THEN /\ pc' = [pc EXCEPT ![w] = "changed"]
          /\ UNCHANGED <<task, had, base, drop>>
     ELSE Idle(w)
  /\ UNCHANGED <<site, rowVars, runVars>>

NoteFails(w) ==
  /\ pc[w] = "looked"
  /\ ~RowLocked(task[w].id, "registered")
  /\ Rejected(w, "registered")
  /\ Idle(w)
  /\ UNCHANGED <<site, rowVars, snapshot, runVars>>

-----------------------------------------------------------------------------
(* A full audit.                                                           *)

Crawl(w, i, kind) ==
  /\ \E reached \in {TRUE} \cup {~MayBlock} :
       task' = [task EXCEPT ![w] = Visit(i, kind, reached)]
  /\ pc' = [pc EXCEPT ![w] = "crawled"]
  /\ had' = [had EXCEPT ![w] = 0]
  /\ UNCHANGED <<site, rowVars, snapshot, runVars, base, drop>>

\* The scheduler, an admin or a policy change starts run_full_audit, which
\* finds the store and crawls it.
StartAudit(w, i) ==
  /\ pc[w] = "idle"
  /\ i \in Registered
  /\ filed[i] < MaxRuns
  /\ Crawl(w, i, "full")

\* A cheap check that found a change awaits run_full_audit, which loads the
\* store of that id again.
Recheck(w) ==
  /\ pc[w] = "changed"
  /\ task[w].id \in Registered
  /\ Crawl(w, task[w].id, "cheap")

\* "store not found"
RecheckFails(w) ==
  /\ pc[w] = "changed"
  /\ task[w].id \notin Registered
  /\ Idle(w)
  /\ UNCHANGED <<site, rowVars, snapshot, runVars>>

\* _finalize_full_audit selects the snapshot of each page it reached.
Load(w) ==
  /\ pc[w] = "crawled"
  /\ had' = [had EXCEPT ![w] = IF task[w].reached THEN snapshot[Key(w, HomeRow)] ELSE 0]
  /\ pc' = [pc EXCEPT ![w] = "loaded"]
  /\ UNCHANGED <<site, rowVars, snapshot, runVars, task, base, drop>>

OldestRun(i) ==                                   \* mutant
  IF history[i] = {} THEN 0 ELSE Min({r.no : r \in history[i]})
\* The select of previous_run: newest first, the first one.
PreviousRun(i) == Newest(i)

\* Before the select of previous_run the session flushes the snapshots it
\* wrote, which waits for other writers of these rows.
Save(w) ==
  /\ pc[w] = "loaded"
  /\ task[w].reached => ~RowLocked(task[w].id, HomeRow) /\ ~Clash(w, HomeRow)
  /\ base' = [base EXCEPT ![w] = PreviousRun(task[w].id)]
  /\ pc' = [pc EXCEPT ![w] = "saved"]
  /\ UNCHANGED <<site, rowVars, snapshot, runVars, task, had, drop>>

SaveFails(w) ==
  /\ pc[w] = "loaded"
  /\ task[w].reached /\ ~RowLocked(task[w].id, HomeRow) /\ Clash(w, HomeRow)
  /\ Idle(w)
  /\ UNCHANGED <<site, rowVars, snapshot, runVars>>

\* In SQLite a session that flushed nothing waits for the one that did.
MayCommit(w) == task[w].reached \/ ~Locked

\* The commit of the new AuditRun, its delta and the snapshots.
File(w) ==
  /\ pc[w] = "saved"
  /\ MayCommit(w)
  /\ LET i == task[w].id
     IN  /\ i \in Registered
         /\ filed' = [filed EXCEPT ![i] = @ + 1]
         /\ history' = [history EXCEPT ![i] = @ \cup
              {[no |-> filed[i] + 1, of |-> task[w].url]}]
         /\ IF task[w].reached
            THEN /\ snapshot' = Written(w, HomeRow)
                 /\ audited' = [audited EXCEPT ![i][task[w].url] = Max({@, task[w].seen})]
            ELSE UNCHANGED <<snapshot, audited>>
  /\ pc' = [pc EXCEPT ![w] = "filed"]
  /\ UNCHANGED <<site, rowVars, task, had, base, drop>>

\* store_row is None, or its UPDATE matches no row.
FileFails(w) ==
  /\ pc[w] = "saved"
  /\ MayCommit(w)
  /\ task[w].id \notin Registered
  /\ Idle(w)
  /\ UNCHANGED <<site, rowVars, snapshot, runVars>>

Newer(i, r) == {q \in history[i] : q.no > r.no}

OutdatedEarly(i) ==                               \* mutant
  {r \in history[i] : Cardinality(Newer(i, r)) + 1 >= Retain}
\* newest first, OFFSET audit_run_retention_count
Outdated(i) == {r \in history[i] : Cardinality(Newer(i, r)) >= Retain}

\* After its commit the finalization selects the runs beyond the retention.
Choose(w) ==
  /\ pc[w] = "filed"
  /\ IF Outdated(task[w].id) = {} THEN Idle(w)
     ELSE /\ drop' = [drop EXCEPT ![w] = Outdated(task[w].id)]
          /\ pc' = [pc EXCEPT ![w] = "chosen"]
          /\ UNCHANGED <<task, had, base>>
  /\ UNCHANGED <<site, rowVars, snapshot, runVars>>

\* It gets and deletes those that are still there, and commits again.
Discard(w) ==
  /\ pc[w] = "chosen"
  /\ ~Locked
  /\ history' = [history EXCEPT ![task[w].id] = @ \ drop[w]]
  /\ Idle(w)
  /\ UNCHANGED <<site, rowVars, snapshot, filed, audited>>

-----------------------------------------------------------------------------
(* Failures.                                                               *)

\* The crawl, the pipeline, the database or the disk fails.
Fail(w) ==
  /\ MayFail
  /\ w \in Working
  /\ Idle(w)
  /\ UNCHANGED <<site, rowVars, snapshot, runVars>>

ResumedInterval ==                                \* mutant
  [i \in Ids |-> IF i \in Registered THEN stores[i].mode \cap {"full"} ELSE {}]
\* lifespan schedules the stores it finds.
Resumed == [i \in Ids |-> IF i \in Registered THEN stores[i].mode ELSE {}]

\* The process restarts.
Restart ==
  /\ MayFail
  /\ jobs' = Resumed
  /\ joining' = [i \in Ids |-> [at |-> "no", mode |-> {}]]
  /\ removing' = {}
  /\ stranded' = {}
  /\ pc' = [w \in Workers |-> "idle"]
  /\ task' = [w \in Workers |-> NoTask]
  /\ had' = [w \in Workers |-> 0]
  /\ base' = [w \in Workers |-> 0]
  /\ drop' = [w \in Workers |-> {}]
  /\ UNCHANGED <<site, stores, lastId, snapshot, runVars>>

WorkerStep(w) ==
  \/ Look(w) \/ Note(w) \/ NoteFails(w) \/ Recheck(w) \/ RecheckFails(w)
  \/ Load(w) \/ Save(w) \/ SaveFails(w) \/ File(w) \/ FileFails(w)
  \/ Choose(w) \/ Discard(w)

AdminStep(i) ==
  \/ Refresh(i) \/ RefreshFails(i) \/ Schedule(i)
  \/ EndRemove(i) \/ RemoveFails(i)

Next ==
  \/ \E u \in Urls : Edit(u) \/ \E mode \in Modes : Register(u, mode)
  \/ \E i \in Ids : BeginRemove(i) \/ AdminStep(i)
  \/ \E w \in Workers :
       \/ WorkerStep(w) \/ Fail(w)
       \/ \E i \in Ids : StartCheck(w, i) \/ StartAudit(w, i)
  \/ Restart

(* Database calls return or raise, and a job of the scheduler fires again  *)
(* and again while the process is up.  Nobody has to edit, register, remove*)
(* or rerun.                                                               *)
Fairness ==
  /\ \A i \in Ids : WF_vars(AdminStep(i)) /\ WF_vars(\E w \in Workers : StartCheck(w, i))
  /\ \A w \in Workers : WF_vars(WorkerStep(w))

SafeSpec == Init /\ [][Next]_vars

Spec == SafeSpec /\ Fairness

-----------------------------------------------------------------------------
(* Properties.                                                             *)

Versions == 1..MaxVersion

Tasks ==
  [id : Ids, url : Urls, kind : {"full", "cheap"}, seen : Versions, reached : BOOLEAN]

Places ==
  {"idle", "fetched", "looked", "changed", "crawled", "loaded", "saved", "filed",
   "chosen"}

\* Every variable has its type.
TypeOK ==
  /\ site \in [Urls -> Versions]
  /\ stores \in [Ids -> [url : Urls, mode : Modes] \cup {NoStore}]
  /\ lastId \in 0..MaxId
  /\ jobs \in [Ids -> SUBSET {"full", "cheap"}]
  /\ joining \in [Ids -> [at : {"no", "committed", "refreshed"},
                         mode : SUBSET {"full", "cheap"}]]
  /\ removing \subseteq Ids
  /\ stranded \subseteq Ids
  /\ snapshot \in [Keys -> 0..MaxVersion]
  /\ history \in [Ids -> SUBSET [no : Nat, of : Urls]]
  /\ filed \in [Ids -> Nat]
  /\ audited \in [Ids -> [Urls -> 0..MaxVersion]]
  /\ pc \in [Workers -> Places]
  /\ task \in [Workers -> Tasks \cup {NoTask}]
  /\ \A w \in Workers : pc[w] # "idle" => task[w] \in Tasks
  /\ had \in [Workers -> 0..MaxVersion]
  /\ base \in [Workers -> Nat]
  /\ drop \in [Workers -> SUBSET [no : Nat, of : Urls]]

\* A delta report says what changed since the previous run of the store: the
\* run it was computed against is still the newest one when it is filed.
DeltaAgainstLast ==
  [][\A w \in Workers :
       pc[w] = "saved" /\ pc'[w] = "filed" => base[w] = Newest(task[w].id)]_vars

\* Retention never takes one of the newest runs of a store, however many
\* audits file and prune at once, and fail while they do.
NewestKept ==
  \A i \in Ids : \A n \in 1..filed[i] :
    n + Retain > filed[i] => \E r \in history[i] : r.no = n

\* The runs listed for a store are audits of that store.
HistoryIsOwn ==
  \A i \in Registered : \A r \in history[i] : r.of = stores[i].url

\* A change that a cheap check recorded is covered by an audit, or by one
\* that is under way: the next check would not see it again.
ChangeAudited ==
  \A i \in Ids, u \in Urls :
    \/ \E w \in On(i) : task[w].kind = "cheap"
    \/ i \in removing \/ i \notin Registered \/ stores[i].url # u
    \/ snapshot[<<i, u, "registered">>] <= audited[i][u]

\* A registered store is on its schedule, unless an admin is just adding or
\* removing it; one whose registration or removal raised midway is off it, but
\* no longer than until the process restarts.
MonitoredIsScheduled ==
  \A i \in Registered :
    joining[i].at = "no" /\ i \notin removing /\ i \notin stranded =>
      stores[i].mode \subseteq jobs[i]

Watched(i, u) == i \in Registered /\ stores[i].url = u /\ "cheap" \in jobs[i]

\* Every version of the homepage of a store whose cheap check is scheduled is
\* covered by an audit sooner or later, that one or one of a later version,
\* unless somebody asks to remove the store.
ChangesGetAudited ==
  \A i \in Ids, u \in Urls, v \in Versions :
    Watched(i, u) /\ site[u] = v ~> audited[i][u] >= v \/ ~Watched(i, u)
=============================================================================
