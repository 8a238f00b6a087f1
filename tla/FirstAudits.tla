----------------------------- MODULE FirstAudits -----------------------------
(***************************************************************************)
(* POST /api/first-audit (app/api/first_audit.py), the in-process registry *)
(* _FirstAuditSlots, the background task _run_and_release and the row of   *)
(* FirstAuditRun that run_first_audit (app/first_audit.py) drives.         *)
(*                                                                         *)
(* One asyncio loop runs every handler and task, so a step of the model is *)
(* what runs between two awaits that really suspend.  _FirstAuditSlots     *)
(* takes an asyncio.Lock, but no critical section awaits anything, so the  *)
(* lock is never held across a suspension and reserve, attach and release  *)
(* are atomic.  A database call is two steps where it matters: the commit, *)
(* and the close of its session that is awaited after it.                  *)
(*                                                                         *)
(* A request creates at most one row, so the request stands for its        *)
(* run_id.  Definitions marked "mutant" are the bugs the properties are    *)
(* tested against; no specification uses them.                             *)
(***************************************************************************)
EXTENDS Naturals, FiniteSets

CONSTANTS
  Requests,       \* the POSTs the admins make
  Sites,          \* host, port, path and query of the pages they name
  Urls,           \* the spellings of those pages they carry
  MaxConcurrent,  \* Settings.first_audit_max_concurrent
  Stages,         \* sessions run_first_audit commits before "done": 6 in the code
  Free,           \* the key is not in the registry
  Reserved        \* the key is in the registry with run_id None

ASSUME CapAssumption == MaxConcurrent \in Nat
ASSUME StagesAssumption == Stages \in Nat
ASSUME UrlsAssumption ==
  Urls \subseteq [scheme : {"none", "http", "https"}, shouted : BOOLEAN,
                 slash : BOOLEAN, site : Sites]
ASSUME MarkersAssumption ==
  Free \notin Requests /\ Reserved \notin Requests /\ Free # Reserved

VARIABLES
  url,       \* url[r]: the URL in the body of request r
  handler,   \* handler[r]: where the POST handler of r is, or how it answered
  slot,      \* slot[k]: _run_id_by_url_key, Free where there is no entry
  task,      \* task[r]: where the background task of r is
  row,       \* row[r]: FirstAuditRun.status, "absent" before the insert
  saved,     \* saved[r]: pipeline sessions committed so far
  snapshot   \* snapshot[r]: snapshot_status is set

vars == <<url, handler, slot, task, row, saved, snapshot>>

-----------------------------------------------------------------------------
(* _url_key drops the scheme, the case of the host and trailing slashes of *)
(* the path, and keeps host, port, path and query.  A URL is a record:     *)
(* scheme, shouted (host in capitals), slash (a trailing slash), and site. *)
UrlKeyKeepsScheme(u) == <<u.scheme, u.site>>   \* mutant
UrlKey(u) == u.site

UrlKeys == {UrlKey(u) : u \in Urls}

Key(r) == UrlKey(url[r])

Held == {k \in UrlKeys : slot[k] # Free}

\* len(_run_id_by_url_key) >= max_concurrent.
AtCapOneOver == Cardinality(Held) > MaxConcurrent       \* mutant
AtCap == Cardinality(Held) >= MaxConcurrent

Answers == {"refused", "conflict", "full", "failed", "accepted", "dropped", "lost"}

\* reserve succeeded for r at some point.
LetIn == {"inserting", "inserted", "failed", "accepted", "lost"}

Handlers == {"idle", "vetting", "inserting", "inserted"} \cup Answers

\* Inside asyncio.wait_for, so within reach of the timeout.
Timed == {"claiming", "vetting", "auditing", "closing", "rejecting", "rejected"}

Working == Timed \cup {"expired", "expiring"}

Tasks == {"none", "over", "broken", "lost"} \cup Working

\* The handler of r has reserved a slot and not yet handed it to the task.
Reserving(r) == handler[r] \in {"inserting", "inserted"}

InFlight(r) == Reserving(r) \/ task[r] \in Working

Terminal == {"done", "error"}

Init ==
  /\ url \in [Requests -> Urls]
  /\ handler = [r \in Requests |-> "idle"]
  /\ slot = [k \in UrlKeys |-> Free]
  /\ task = [r \in Requests |-> "none"]
  /\ row = [r \in Requests |-> "absent"]
  /\ saved = [r \in Requests |-> 0]
  /\ snapshot = [r \in Requests |-> FALSE]

HandlerMoves(r, from, to) ==
  /\ handler[r] \in from
  /\ handler' = [handler EXCEPT ![r] = to]

TaskMoves(r, from, to) ==
  /\ task[r] \in from
  /\ task' = [task EXCEPT ![r] = to]

ReleaseForgotten(k) == UNCHANGED slot          \* mutant
Release(k) == slot' = [slot EXCEPT ![k] = Free]

-----------------------------------------------------------------------------
(* The POST handler.                                                       *)

\* The request arrives; the handler awaits assert_public_url.
Post(r) ==
  /\ HandlerMoves(r, {"idle"}, "vetting")
  /\ UNCHANGED <<url, slot, task, row, saved, snapshot>>

\* A blank URL or a non-public address: 400.
Refuse(r) ==
  /\ HandlerMoves(r, {"vetting"}, "refused")
  /\ UNCHANGED <<url, slot, task, row, saved, snapshot>>

\* The address is public and the store is already in flight: 409.
Conflict(r) ==
  /\ slot[Key(r)] # Free
  /\ HandlerMoves(r, {"vetting"}, "conflict")
  /\ UNCHANGED <<url, slot, task, row, saved, snapshot>>

\* The registry is at the cap: 429.
Full(r) ==
  /\ slot[Key(r)] = Free
  /\ AtCap
  /\ HandlerMoves(r, {"vetting"}, "full")
  /\ UNCHANGED <<url, slot, task, row, saved, snapshot>>

\* reserve succeeds; the handler awaits create_first_audit_run.
Reserve(r) ==
  /\ slot[Key(r)] = Free
  /\ ~AtCap
  /\ slot' = [slot EXCEPT ![Key(r)] = Reserved]
  /\ HandlerMoves(r, {"vetting"}, "inserting")
  /\ UNCHANGED <<url, task, row, saved, snapshot>>

\* create_first_audit_run commits the row; refresh and close are awaited.
InsertRow(r) ==
  /\ HandlerMoves(r, {"inserting"}, "inserted")
  /\ row' = [row EXCEPT ![r] = "pending"]
  /\ UNCHANGED <<url, slot, task, saved, snapshot>>

\* attach, create_task and the 202, with no suspension between them.
Launch(r) ==
  /\ HandlerMoves(r, {"inserted"}, "accepted")
  /\ slot' = [slot EXCEPT ![Key(r)] = r]
  /\ task' = [task EXCEPT ![r] = "claiming"]
  /\ UNCHANGED <<url, row, saved, snapshot>>

\* The database fails or the handler is cancelled while it creates the row,
\* before or after the commit: except BaseException releases and re-raises.
LaunchFails(r) ==
  /\ HandlerMoves(r, {"inserting", "inserted"}, "failed")
  /\ Release(Key(r))
  /\ UNCHANGED <<url, task, row, saved, snapshot>>

-----------------------------------------------------------------------------
(* The background task: run_first_audit under wait_for.                    *)

\* The first session commits "running"; assert_public_url is awaited next.
Claim(r) ==
  /\ TaskMoves(r, {"claiming"}, "vetting")
  /\ row' = [row EXCEPT ![r] = "running"]
  /\ UNCHANGED <<url, handler, slot, saved, snapshot>>

\* The second look at the address passes: the try block starts.
Cleared(r) ==
  /\ TaskMoves(r, {"vetting"}, "auditing")
  /\ UNCHANGED <<url, handler, slot, row, saved, snapshot>>

\* One more session of the pipeline commits.
Stage(r) ==
  /\ task[r] = "auditing"
  /\ saved[r] < Stages
  /\ saved' = [saved EXCEPT ![r] = @ + 1]
  /\ UNCHANGED <<url, handler, slot, task, row, snapshot>>

AllSaved(r) == saved[r] = Stages

\* The last session commits the verdict; its close is awaited.
CommitDone(r) ==
  /\ AllSaved(r)
  /\ TaskMoves(r, {"auditing"}, "closing")
  /\ row' = [row EXCEPT ![r] = "done"]
  /\ snapshot' = [snapshot EXCEPT ![r] = TRUE]
  /\ UNCHANGED <<url, handler, slot, saved>>

\* SSRFBlockedError, or any Exception of the pipeline: _mark_error is next.
Reject(r) ==
  /\ TaskMoves(r, {"vetting", "auditing"}, "rejecting")
  /\ UNCHANGED <<url, handler, slot, row, saved, snapshot>>

\* _mark_error inside run_first_audit commits.
MarkRejected(r) ==
  /\ TaskMoves(r, {"rejecting"}, "rejected")
  /\ row' = [row EXCEPT ![r] = "error"]
  /\ UNCHANGED <<url, handler, slot, saved, snapshot>>

\* first_audit_timeout_seconds elapse: wait_for cancels run_first_audit at
\* the await it is suspended on, whatever it already committed.
Timeout(r) ==
  /\ TaskMoves(r, Timed, "expired")
  /\ UNCHANGED <<url, handler, slot, row, saved, snapshot>>

ExpireUnmarked(r) ==                           \* mutant
  /\ TaskMoves(r, {"expired"}, "expiring")
  /\ UNCHANGED <<url, handler, slot, row, saved, snapshot>>
\* _mark_error in the TimeoutError branch commits, over any earlier status.
MarkExpired(r) ==
  /\ TaskMoves(r, {"expired"}, "expiring")
  /\ row' = [row EXCEPT ![r] = "error"]
  /\ UNCHANGED <<url, handler, slot, saved, snapshot>>

\* The last close returns and the finally clause releases the slot.
Finish(r) ==
  /\ TaskMoves(r, {"closing", "rejected", "expiring"}, "over")
  /\ Release(Key(r))
  /\ UNCHANGED <<url, handler, row, saved, snapshot>>

\* The database fails outside the try block, or in _mark_error itself: the
\* exception ends the task, and the finally clause still releases the slot.
Break(r) ==
  /\ TaskMoves(r, {"claiming", "rejecting", "expired"}, "broken")
  /\ Release(Key(r))
  /\ UNCHANGED <<url, handler, row, saved, snapshot>>

-----------------------------------------------------------------------------
(* The process dies and starts again: handlers, tasks and the registry are *)
(* gone, the rows stay.  No startup code looks at FirstAuditRun.           *)
Restart ==
  /\ handler' = [r \in Requests |->
       CASE handler[r] = "vetting" -> "dropped"
         [] Reserving(r) -> "lost"
         [] OTHER -> handler[r]]
  /\ task' = [r \in Requests |-> IF task[r] \in Working THEN "lost" ELSE task[r]]
  /\ slot' = [k \in UrlKeys |-> Free]
  /\ UNCHANGED <<url, row, saved, snapshot>>

HandlerStep(r) ==
  \/ Refuse(r) \/ Conflict(r) \/ Full(r) \/ Reserve(r)
  \/ InsertRow(r) \/ Launch(r) \/ LaunchFails(r)

\* What the database owes the task: each call returns or raises.
DatabaseStep(r) ==
  \/ Claim(r) \/ CommitDone(r) \/ MarkRejected(r)
  \/ MarkExpired(r) \/ Finish(r) \/ Break(r)

CrawlStep(r) == Cleared(r) \/ Stage(r) \/ Reject(r)

Next ==
  \/ Restart
  \/ \E r \in Requests :
       Post(r) \/ HandlerStep(r) \/ DatabaseStep(r) \/ CrawlStep(r) \/ Timeout(r)

(* Handlers and database calls do not hang; the crawl may, and only the    *)
(* timeout of wait_for is sure to come.  Nobody has to POST or restart.    *)
Fairness ==
  \A r \in Requests :
    /\ WF_vars(HandlerStep(r))
    /\ WF_vars(DatabaseStep(r))
    /\ WF_vars(Timeout(r))

SafeSpec == Init /\ [][Next]_vars

Spec == SafeSpec /\ Fairness

-----------------------------------------------------------------------------
(* Properties.                                                             *)

\* Every variable has its type.
TypeOK ==
  /\ url \in [Requests -> Urls]
  /\ handler \in [Requests -> Handlers]
  /\ slot \in [UrlKeys -> Requests \cup {Free, Reserved}]
  /\ task \in [Requests -> Tasks]
  /\ row \in [Requests -> {"absent", "pending", "running"} \cup Terminal]
  /\ saved \in [Requests -> 0..Stages]
  /\ snapshot \in [Requests -> BOOLEAN]

\* "At most Settings.first_audit_max_concurrent runs in flight at once":
\* not entries of the registry, but audits some coroutine is working on.
CapRespected == Cardinality({r \in Requests : InFlight(r)}) <= MaxConcurrent

\* The same store under two spellings: scheme, capitals, trailing slash.
SameStore(u, v) ==
  [u EXCEPT !.scheme = v.scheme, !.shouted = v.shouted, !.slash = v.slash] = v

\* "At most one in-flight run per URL", for every spelling of the URL.
OneRunPerStore ==
  \A r, q \in Requests :
    InFlight(r) /\ InFlight(q) /\ SameStore(url[r], url[q]) => r = q

\* The registry is exact: a slot is held for an audit in flight and only for
\* one, and the run_id a 409 quotes is the run that occupies the slot.  So no
\* failure path leaks a slot, and none frees the slot of another run.
RegistryExact ==
  /\ \A r \in Requests :
       /\ Reserving(r) => slot[Key(r)] = Reserved
       /\ task[r] \in Working => slot[Key(r)] = r
  /\ \A k \in Held : \E r \in Requests : InFlight(r) /\ Key(r) = k

\* A run that reads "done" has every evidence session behind it and a
\* verdict: the report endpoint, which only looks at the status, never renders
\* a run whose findings are not all committed.
DoneIsComplete ==
  \A r \in Requests : row[r] = "done" => saved[r] = Stages /\ snapshot[r]

\* A task that ended without an escaping exception left a final status: a
\* client that polls is not left at "running" by a timeout, a refused address
\* or a failed crawl.
EndedIsSettled ==
  \A r \in Requests : task[r] = "over" => row[r] \in Terminal

\* A status only moves forward, and once the slot is released nobody touches
\* the row again, so a report that was served stays valid.
StatusMonotone ==
  [][\A r \in Requests :
       row'[r] # row[r] =>
         /\ <<row[r], row'[r]>> \in
              {<<"absent", "pending">>, <<"pending", "running">>}
              \cup ({"pending", "running", "done", "error"} \X Terminal)
         /\ row'[r] = "done" => row[r] = "running"
         /\ InFlight(r)]_vars

\* Every accepted run gets a final status unless the process died or the
\* database failed while the status was written.
AcceptedRunsSettle ==
  \A r \in Requests :
    handler[r] = "accepted" ~> row[r] \in Terminal \/ task[r] \in {"broken", "lost"}

\* What the timeout is documented for: it marks a hung run "error".  A run
\* that committed its verdict is not hung, so "done" should stand.
DoneStands == [][\A r \in Requests : row[r] = "done" => row'[r] = "done"]_vars

\* The promise, read off this state.
Gate == INSTANCE FirstAuditGate WITH
  store <- [r \in Requests |-> Key(r)],
  inFlight <- {r \in Requests : InFlight(r)},
  served <- {r \in Requests : handler[r] \in LetIn}

ImplementsGate == Gate!GateSpec
=============================================================================
