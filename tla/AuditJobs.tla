------------------------------ MODULE AuditJobs ------------------------------
(***************************************************************************)
(* "Run Audit" and "re-run now": POST /api/audits and POST                 *)
(* /api/monitor/stores/{id}/rerun (app/api/main.py), JobStore and the      *)
(* background tasks run_audit_job and run_store_rerun_job                  *)
(* (app/api/jobs.py), the start of the server (lifespan), and the page     *)
(* that polls GET /api/audits/{id}.                                        *)
(*                                                                         *)
(* A request creates at most one row of AuditJobRecord, so the request     *)
(* stands for its job_id.  Requests that are refused before JobStore is    *)
(* asked (rate limit, no url, no such store) change nothing here.          *)
(* JobStore._update is two steps: its session gets the row, and commits.   *)
(***************************************************************************)
EXTENDS Naturals

CONSTANTS
  Jobs,     \* the requests the admins make
  Reruns,   \* those that re-run the audit of a monitored store
  Nodes,    \* nodes of the audit graph: 5 in the code
  Retain,   \* Settings.audit_job_retention_days
  MaxDay    \* bound: days that pass

ASSUME RerunsAssumption == Reruns \subseteq Jobs
ASSUME NodesAssumption == Nodes \in Nat \ {0}
ASSUME DaysAssumption == Retain \in Nat /\ MaxDay \in Nat

VARIABLES
  server,   \* "up", or "down": between the death of a process and its successor
  day,      \* today
  row,      \* row[j]: AuditJobRecord.status, "absent" before, "gone" after
  phase,    \* phase[j]: how many nodes AuditJobRecord.phase says are complete
  born,     \* born[j]: day of AuditJobRecord.created_at
  doomed,   \* doomed[j]: rows the session that creates j found too old
  pc,       \* pc[j]: where the handler, and then the task, of j is
  found,    \* found[j]: _update of j has got the row and not yet committed
  ran,      \* ran[j]: nodes the graph of j has completed
  filed,    \* filed[j]: the AuditRun of a re-run is in the store's history
  seen      \* seen[j]: the last answer the page that polls j got

rowVars == <<row, phase, born>>
taskVars == <<pc, found, ran>>
vars == <<server, day, rowVars, doomed, taskVars, filed, seen>>

-----------------------------------------------------------------------------
Active == {"pending", "running"}
Final == {"done", "error"}

\* The places where the task awaits _update.
Updates == {"claim", "report", "finish", "blocked", "failed"}

Handling == {"creating", "created"}

Working == Handling \cup Updates \cup {"vetting", "node", "storing", "stored"}

\* An exception ended the handler after its commit, or the task outside its
\* try block, and no code is left that would write the row.
Escaped == {"dropped", "crashed"}

Places == {"idle", "refused", "over", "lost"} \cup Working \cup Escaped

Present == {j \in Jobs : row[j] \in Active \cup Final}

Init ==
  /\ server = "up"
  /\ day = 0
  /\ row = [j \in Jobs |-> "absent"]
  /\ phase = [j \in Jobs |-> 0]
  /\ born = [j \in Jobs |-> 0]
  /\ doomed = [j \in Jobs |-> {}]
  /\ pc = [j \in Jobs |-> "idle"]
  /\ found = [j \in Jobs |-> FALSE]
  /\ ran = [j \in Jobs |-> 0]
  /\ filed = [j \in Jobs |-> FALSE]
  /\ seen = [j \in Jobs |-> "none"]

Moves(j, from, to) ==
  /\ pc[j] \in from
  /\ pc' = [pc EXCEPT ![j] = to]

\* Bound: no handler works across midnight.
Midnight ==
  /\ day < MaxDay
  /\ \A j \in Jobs : pc[j] # "creating"
  /\ day' = day + 1
  /\ UNCHANGED <<server, rowVars, doomed, taskVars, filed, seen>>

-----------------------------------------------------------------------------
(* The POST handler and JobStore.create.                                   *)

OldLate(j) == born[j] + Retain + 1 < day     \* mutant
\* created_at < cutoff
Old(j) == born[j] + Retain < day

\* create adds the row, and _prune_old_jobs selects what is too old, which
\* flushes the row, with its created_at, first.
Post(j) ==
  /\ server = "up"
  /\ Moves(j, {"idle"}, "creating")
  /\ born' = [born EXCEPT ![j] = day]
  /\ doomed' = [doomed EXCEPT ![j] = {k \in Present : Old(k)}]
  /\ UNCHANGED <<server, day, row, phase, found, ran, filed, seen>>

\* The commit; a row that another create deleted meanwhile is no matter.
Create(j) ==
  /\ Moves(j, {"creating"}, "created")
  /\ row' = [k \in Jobs |->
       IF k = j THEN "pending" ELSE IF k \in doomed[j] THEN "gone" ELSE row[k]]
  /\ doomed' = [doomed EXCEPT ![j] = {}]
  /\ UNCHANGED <<server, day, phase, born, found, ran, filed, seen>>

\* create_task and the 202; the page starts to poll.
Launch(j) ==
  /\ Moves(j, {"created"}, "claim")
  /\ seen' = [seen EXCEPT ![j] = "pending"]
  /\ UNCHANGED <<server, day, rowVars, doomed, found, ran, filed>>

\* The database fails in create: before its commit the row never exists,
\* after it the row stays and no task starts.
CreateFails(j) ==
  /\ \/ Moves(j, {"creating"}, "refused")
     \/ Moves(j, {"created"}, "dropped")
  /\ doomed' = [doomed EXCEPT ![j] = {}]
  /\ UNCHANGED <<server, day, rowVars, found, ran, filed, seen>>

-----------------------------------------------------------------------------
(* JobStore._update.                                                       *)

AllRan(j) == ran[j] = Nodes

\* Where the task goes when _update returns.
After(j) ==
  CASE pc[j] = "claim" -> IF j \in Reruns THEN "node" ELSE "vetting"
    [] pc[j] = "report" ->
         IF ~AllRan(j) THEN "node" ELSE IF j \in Reruns THEN "storing" ELSE "finish"
    [] OTHER -> "over"

RaisedAgain(p) == IF p \in {"claim", "blocked", "failed"} THEN "crashed" ELSE p  \* mutant
\* Where the task goes when _update raises: on_phase and the last update are
\* inside the try block, the others are not.
Raised(p) == IF p \in {"claim", "blocked", "failed"} THEN "crashed" ELSE "failed"

\* The session gets the row.
Get(j) ==
  /\ pc[j] \in Updates
  /\ ~found[j]
  /\ j \in Present
  /\ found' = [found EXCEPT ![j] = TRUE]
  /\ UNCHANGED <<server, day, rowVars, doomed, pc, ran, filed, seen>>

\* "disappeared before it could be updated": a warning, and return.
Disappeared(j) ==
  /\ ~found[j]
  /\ j \notin Present
  /\ Moves(j, Updates, After(j))
  /\ UNCHANGED <<server, day, rowVars, doomed, found, ran, filed, seen>>

\* The status an update sets, where it sets one.
Status(j) ==
  CASE pc[j] = "claim" -> "running"
    [] pc[j] = "finish" -> "done"
    [] pc[j] \in {"blocked", "failed"} -> "error"
    [] OTHER -> row[j]

\* The commit.  "finish" writes the findings and both reports as well.
Save(j) ==
  /\ found[j]
  /\ j \in Present
  /\ row' = [row EXCEPT ![j] = Status(j)]
  /\ phase' = [phase EXCEPT ![j] = IF pc[j] = "report" THEN ran[j] ELSE @]
  /\ found' = [found EXCEPT ![j] = FALSE]
  /\ Moves(j, Updates, After(j))
  /\ UNCHANGED <<server, day, born, doomed, ran, filed, seen>>

\* The database fails, or the row was pruned after the session got it and
\* the UPDATE matches no row (StaleDataError).
UpdateRaises(j) ==
  /\ Moves(j, Updates, Raised(pc[j]))
  /\ found' = [found EXCEPT ![j] = FALSE]
  /\ UNCHANGED <<server, day, rowVars, doomed, ran, filed, seen>>

-----------------------------------------------------------------------------
(* The rest of the task.                                                   *)

\* assert_public_url passes, or raises SSRFBlockedError.
Vet(j) ==
  /\ \E to \in {"node", "blocked"} : Moves(j, {"vetting"}, to)
  /\ UNCHANGED <<server, day, rowVars, doomed, found, ran, filed, seen>>

\* It raises something else, for which no handler is there: urlparse a
\* ValueError, getaddrinfo a UnicodeError.
VetRaises(j) ==
  /\ Moves(j, {"vetting"}, "crashed")
  /\ UNCHANGED <<server, day, rowVars, doomed, found, ran, filed, seen>>

\* A node of the graph completes; on_phase is awaited before the next starts.
Node(j) ==
  /\ Moves(j, {"node"}, "report")
  /\ ran' = [ran EXCEPT ![j] = @ + 1]
  /\ UNCHANGED <<server, day, rowVars, doomed, found, filed, seen>>

\* A re-run: _finalize_full_audit commits the AuditRun (module StoreMonitor).
File(j) ==
  /\ Moves(j, {"storing"}, "stored")
  /\ filed' = [filed EXCEPT ![j] = TRUE]
  /\ UNCHANGED <<server, day, rowVars, doomed, found, ran, seen>>

\* It has pruned the history and written the report files.
Filed(j) ==
  /\ Moves(j, {"stored"}, "finish")
  /\ UNCHANGED <<server, day, rowVars, doomed, found, ran, filed, seen>>

\* The audit raises: the store is gone, a node or the finalization fails.
Fail(j) ==
  /\ Moves(j, {"node", "storing", "stored"}, "failed")
  /\ UNCHANGED <<server, day, rowVars, doomed, found, ran, filed, seen>>

-----------------------------------------------------------------------------
(* The process and the page.                                               *)

\* The process is killed.
Die ==
  /\ server = "up"
  /\ server' = "down"
  /\ pc' = [j \in Jobs |-> IF pc[j] \in Working \cup Escaped THEN "lost" ELSE pc[j]]
  /\ found' = [j \in Jobs |-> FALSE]
  /\ doomed' = [j \in Jobs |-> {}]
  /\ UNCHANGED <<day, rowVars, ran, filed, seen>>

StuckOrDone == {"pending", "running", "done"}  \* mutant
\* The statuses mark_interrupted_jobs_as_errored selects.
Stuck == {"pending", "running"}

\* lifespan marks what the last process left behind, then serves requests.
Boot ==
  /\ server = "down"
  /\ server' = "up"
  /\ row' = [j \in Jobs |-> IF row[j] \in Stuck THEN "error" ELSE row[j]]
  /\ UNCHANGED <<day, phase, born, doomed, taskVars, filed, seen>>

\* The page polls until it gets a final status; after a 404, or no answer,
\* it goes on.
Poll(j) ==
  /\ server = "up"
  /\ seen[j] \in Active \cup {"missing"}
  /\ seen' = [seen EXCEPT ![j] = IF j \in Present THEN row[j] ELSE "missing"]
  /\ UNCHANGED <<server, day, rowVars, doomed, taskVars, filed>>

HandlerStep(j) == Create(j) \/ Launch(j) \/ CreateFails(j)

TaskStep(j) ==
  \/ Get(j) \/ Disappeared(j) \/ Save(j) \/ UpdateRaises(j)
  \/ Vet(j) \/ VetRaises(j) \/ Node(j) \/ File(j) \/ Filed(j) \/ Fail(j)

Next ==
  \/ Midnight \/ Die \/ Boot
  \/ \E j \in Jobs : Post(j) \/ HandlerStep(j) \/ TaskStep(j) \/ Poll(j)

(* Database calls and audits end, and somebody starts the server again.    *)
Fairness ==
  /\ WF_vars(Boot)
  /\ \A j \in Jobs : WF_vars(HandlerStep(j)) /\ WF_vars(TaskStep(j))

SafeSpec == Init /\ [][Next]_vars

Spec == SafeSpec /\ Fairness

-----------------------------------------------------------------------------
(* Properties.                                                             *)

\* Every variable has its type.
TypeOK ==
  /\ server \in {"up", "down"}
  /\ day \in 0..MaxDay
  /\ row \in [Jobs -> {"absent", "gone"} \cup Active \cup Final]
  /\ phase \in [Jobs -> 0..Nodes]
  /\ born \in [Jobs -> 0..MaxDay]
  /\ doomed \in [Jobs -> SUBSET Jobs]
  /\ pc \in [Jobs -> Places]
  /\ found \in [Jobs -> BOOLEAN]
  /\ ran \in [Jobs -> 0..Nodes]
  /\ filed \in [Jobs -> BOOLEAN]
  /\ seen \in [Jobs -> {"none", "missing"} \cup Active \cup Final]

\* No row shows progress "with no process actually working on it": while the
\* server is up, a pending or running row has a handler or a task that will
\* write it, unless an exception escaped that handler or task.
ActiveIsWorkedOn ==
  server = "up" =>
    \A j \in Jobs : row[j] \in Active => pc[j] \in Working \cup Escaped

\* "Rather than showing running forever with no process actually working on
\* it": while the server is up, a running row has a task.
RunningIsWorkedOn ==
  server = "up" => \A j \in Jobs : row[j] = "running" => pc[j] \in Working

\* The page stops polling at the first final status, and the downloads look
\* at the row again: whatever restarts and prunes come in between, they find
\* that status, or no row any more.
SeenStands ==
  \A j \in Jobs : seen[j] \in Final => row[j] \in {seen[j], "gone"}

\* A job that reads "done" reported every node of the graph, and a re-run's
\* audit is in the history of its store.
DoneIsComplete ==
  \A j \in Jobs :
    row[j] = "done" => phase[j] = Nodes /\ (j \in Reruns => filed[j])

Created == {j \in Jobs : row[j] # "absent"}

\* Rows are pruned by age alone, when the next job is created: a row is gone
\* exactly when some job was created more than the retention after it.
RetentionExact ==
  \A k \in Created :
    row[k] = "gone" <=> \E j \in Created : born[k] + Retain < born[j]

\* A job that exists gets a final status, or is pruned; only an exception
\* that escapes its handler or task may leave it to the next start.
JobsSettle ==
  \A j \in Jobs :
    row[j] \in Active ~> row[j] \in Final \cup {"gone"} \/ pc[j] \in Escaped
=============================================================================
