---------------------------- MODULE EvidenceBlobs ----------------------------
(***************************************************************************)
(* The Tier 2 evidence store: the rows of Blob with their refcount, the    *)
(* *_blob_hash columns of Resource and FindingRecord, and the objects the  *)
(* storage adapter holds.  Each First Audit opens two database sessions on *)
(* them, one for bodies and one for screenshots; prune_evidence_blobs      *)
(* opens one for the runs it ages out.                                     *)
(*                                                                         *)
(* A session keeps the Blob objects it got in its identity map and writes  *)
(* their refcount as a plain value when it commits; nothing locks or       *)
(* re-reads a row.  The adapter is called at once and is not part of the   *)
(* transaction, so a rollback leaves its effects behind.                   *)
(***************************************************************************)
EXTENDS Naturals, FiniteSets

CONSTANTS
  Runs,       \* First Audits
  Bodies,     \* Resource rows, which may refer to a body
  Shots,      \* FindingRecord rows, which may refer to a screenshot
  RunOf,      \* the run a Resource or a FindingRecord belongs to
  Hashes,     \* content hashes
  Janitor,    \* the daily retention job
  Prunable,   \* runs the policy may age out: older than 90 days by default
  MayAbort,   \* whose session may fail: database, adapter, timeout, crash
  MaxOpen,    \* sessions that may be open at once
  NoBlob,     \* NULL in a *_blob_hash column
  Unread      \* the session has not asked for the Blob

Refs == Bodies \cup Shots
Sessions == Runs \cup {Janitor}

ASSUME RefsAssumption == IsFiniteSet(Refs) /\ Bodies \cap Shots = {}
ASSUME RunOfAssumption == RunOf \in [Refs -> Runs]
ASSUME MarkersAssumption ==
  Janitor \notin Runs /\ NoBlob \notin Hashes /\ Unread \notin Nat
ASSUME PolicyAssumption == Prunable \subseteq Runs /\ MayAbort \subseteq Sessions
ASSUME MaxOpenAssumption == MaxOpen \in Nat

VARIABLES
  content,    \* content[f]: the hash of what f would store
  refcount,   \* refcount[h]: committed Blob.refcount, 0 where there is no row
  hashOf,     \* hashOf[f]: committed *_blob_hash
  objects,    \* keys the storage adapter holds
  pc,         \* pc[s]: where the run, or the retention job, is
  due,        \* batches the retention job has still to select
  todo,       \* todo[s]: references the open session has still to handle
  handled,    \* handled[s]: references whose column the open session set
  got,        \* got[s][h]: refcount in the row session.get found, 0 for no row
  mem         \* mem[s][h]: refcount of the session's object, 0 when deleted

vars == <<content, refcount, hashOf, objects, pc, due, todo, handled, got, mem>>

-----------------------------------------------------------------------------
\* The rows one select of the retention job returns, or one session writes.
Batches == Runs \X {"bodies", "shots"}
BatchOf(f) == <<RunOf[f], IF f \in Bodies THEN "bodies" ELSE "shots">>
RefsOf(b) == {f \in Refs : BatchOf(f) = b}

Places ==
  {"crawled", "bodies", "kept", "shots", "done", "failed", "idle", "pruning"}

\* Open sessions: a run is named for the batch it writes.
Open == {s \in Sessions : pc[s] \in {"bodies", "shots", "pruning"}}

Nothing == [h \in Hashes |-> Unread]

Init ==
  /\ content \in [Refs -> Hashes]
  /\ refcount = [h \in Hashes |-> 0]
  /\ hashOf = [f \in Refs |-> NoBlob]
  /\ objects = {}
  /\ pc = [s \in Sessions |-> IF s = Janitor THEN "idle" ELSE "crawled"]
  /\ due = {}
  /\ todo = [s \in Sessions |-> {}]
  /\ handled = [s \in Sessions |-> {}]
  /\ got = [s \in Sessions |-> Nothing]
  /\ mem = [s \in Sessions |-> Nothing]

\* session.get(Blob, h): the object in the identity map, or else the row.
Get(s, h) == IF got[s][h] = Unread THEN refcount[h] ELSE mem[s][h]

Remember(s, h, n) ==
  /\ got' = [got EXCEPT ![s][h] = IF @ = Unread THEN refcount[h] ELSE @]
  /\ mem' = [mem EXCEPT ![s][h] = n]

Handle(s, f) ==
  /\ f \in todo[s]
  /\ todo' = [todo EXCEPT ![s] = @ \ {f}]
  /\ handled' = [handled EXCEPT ![s] = @ \cup {f}]

\* async with db.session(): the identity map starts, and ends, empty.
Close(s) ==
  /\ todo' = [todo EXCEPT ![s] = {}]
  /\ handled' = [handled EXCEPT ![s] = {}]
  /\ got' = [got EXCEPT ![s] = Nothing]
  /\ mem' = [mem EXCEPT ![s] = Nothing]

-----------------------------------------------------------------------------
(* A First Audit stores evidence.                                          *)

\* A run stores at most one batch at a time: bodies, then screenshots.
Begin(r) ==
  /\ pc[r] \in {"crawled", "kept"}
  /\ Cardinality(Open) < MaxOpen
  /\ LET kind == IF pc[r] = "crawled" THEN "bodies" ELSE "shots"
     IN  /\ pc' = [pc EXCEPT ![r] = kind]
         /\ \E failing \in SUBSET RefsOf(<<r, kind>>) :
              todo' = [todo EXCEPT ![r] = failing]
  /\ UNCHANGED <<content, refcount, hashOf, objects, due, handled, got, mem>>

BumpForgotten(n) == IF n = 0 THEN 1 ELSE n      \* mutant
\* A new Blob has refcount 1, an existing one gains 1.
Bump(n) == n + 1

\* write_blob_if_needed: bytes nobody has a row for are uploaded at once.
Write(r, f) ==
  /\ pc[r] \in {"bodies", "shots"}
  /\ Handle(r, f)
  /\ LET h == content[f]
     IN  /\ Remember(r, h, Bump(Get(r, h)))
         /\ objects' = IF Get(r, h) = 0 THEN objects \cup {h} ELSE objects
  /\ UNCHANGED <<content, refcount, hashOf, pc, due>>

-----------------------------------------------------------------------------
(* The retention job releases evidence.                                    *)

\* The scheduler fires; _runs_to_prune selects the runs that aged out.
BeginPrune ==
  /\ pc[Janitor] = "idle"
  /\ Cardinality(Open) < MaxOpen
  /\ \E aged \in SUBSET Prunable : due' = aged \X {"bodies", "shots"}
  /\ pc' = [pc EXCEPT ![Janitor] = "pruning"]
  /\ UNCHANGED <<content, refcount, hashOf, objects, todo, handled, got, mem>>

\* Select the resources or the findings of one of these runs.
Select(b) ==
  /\ b \in due
  /\ todo[Janitor] = {}
  /\ due' = due \ {b}
  /\ todo' = [todo EXCEPT ![Janitor] = {f \in RefsOf(b) : hashOf[f] # NoBlob}]
  /\ UNCHANGED <<content, refcount, hashOf, objects, pc, handled, got, mem>>

SpentEarly(n) == n <= 1      \* mutant
SpentLate(n) == n < 0        \* mutant
\* Released down to nothing: the object and the row go.
Spent(n) == n <= 0

\* release_blob, and the column set to None; no row is a no-op.
Unreference(f) ==
  /\ Handle(Janitor, f)
  /\ LET h == hashOf[f]
         n == Get(Janitor, h)
         less == IF n = 0 THEN 0 ELSE n - 1
     IN  /\ Remember(Janitor, h, IF Spent(less) THEN 0 ELSE less)
         /\ objects' = IF n > 0 /\ Spent(less) THEN objects \ {h} ELSE objects
  /\ UNCHANGED <<content, refcount, hashOf, pc, due>>

-----------------------------------------------------------------------------
(* The end of a session.                                                   *)

Changed(s, h) == got[s][h] # Unread /\ mem[s][h] # got[s][h]

\* INSERT of a hash that has a row by now, or UPDATE of a row that is gone.
Clash(s) ==
  \E h \in Hashes :
    /\ Changed(s, h)
    /\ mem[s][h] > 0
    /\ (got[s][h] = 0) # (refcount[h] = 0)

Finished(s) ==
  IF s = Janitor THEN "idle" ELSE IF pc[s] = "bodies" THEN "kept" ELSE "done"

\* session.commit() writes the values the session holds.
Commit(s) ==
  /\ s \in Open
  /\ todo[s] = {} /\ (s = Janitor => due = {})
  /\ ~Clash(s)
  /\ refcount' = [h \in Hashes |-> IF Changed(s, h) THEN mem[s][h] ELSE refcount[h]]
  /\ hashOf' = [f \in Refs |->
       IF f \notin handled[s] THEN hashOf[f]
       ELSE IF s = Janitor THEN NoBlob ELSE content[f]]
  /\ pc' = [pc EXCEPT ![s] = Finished(s)]
  /\ Close(s)
  /\ UNCHANGED <<content, objects, due>>

CleanedUp(s) == objects \ {h \in Hashes : got[s][h] = 0}     \* mutant
\* What a rollback leaves in object storage: everything.
LeftBehind(s) == objects

RollBack(s) ==
  /\ objects' = LeftBehind(s)
  /\ pc' = [pc EXCEPT ![s] = IF s = Janitor THEN "idle" ELSE "failed"]
  /\ due' = IF s = Janitor THEN {} ELSE due
  /\ Close(s)
  /\ UNCHANGED <<content, refcount, hashOf>>

\* IntegrityError or StaleDataError: run_first_audit marks the run "error",
\* run_retention_job logs.
CommitFails(s) ==
  /\ s \in Open
  /\ Clash(s)
  /\ RollBack(s)

\* The database, the adapter or the process fails, or the run times out.
Abort(s) ==
  /\ s \in Open \cap MayAbort
  /\ RollBack(s)

Next ==
  \/ \E r \in Runs : Begin(r) \/ \E f \in Refs : Write(r, f)
  \/ BeginPrune
  \/ \E b \in Batches : Select(b)
  \/ \E f \in Refs : Unreference(f)
  \/ \E s \in Sessions : Commit(s) \/ CommitFails(s) \/ Abort(s)

Spec == Init /\ [][Next]_vars

-----------------------------------------------------------------------------
(* Properties.                                                             *)

\* Every variable has its type.
TypeOK ==
  /\ content \in [Refs -> Hashes]
  /\ refcount \in [Hashes -> Nat]
  /\ hashOf \in [Refs -> Hashes \cup {NoBlob}]
  /\ objects \subseteq Hashes
  /\ pc \in [Sessions -> Places]
  /\ \A s \in Sessions : s = Janitor <=> pc[s] \in {"idle", "pruning"}
  /\ due \subseteq Batches
  /\ todo \in [Sessions -> SUBSET Refs]
  /\ handled \in [Sessions -> SUBSET Refs]
  /\ got \in [Sessions -> [Hashes -> Nat \cup {Unread}]]
  /\ mem \in [Sessions -> [Hashes -> Nat \cup {Unread}]]

\* The committed rows that refer to h.
Pointing(h) == {f \in Refs : hashOf[f] = h}

Rows == {h \in Hashes : refcount[h] > 0}

\* "refcount is the number of Resource/FindingRecord rows currently pointing
\* at this hash": exact after every commit and every failure, as long as no
\* two sessions overlap.
RefcountExact == \A h \in Hashes : refcount[h] = Cardinality(Pointing(h))

\* The retention job takes evidence only from runs that aged out: what a kept
\* run refers to has a row and its bytes, whatever content it shares with
\* runs that are pruned.
KeptEvidence ==
  \A f \in Refs :
    hashOf[f] # NoBlob /\ RunOf[f] \notin Prunable => hashOf[f] \in Rows \cap objects

\* No audit has failed so far.
Unbroken == \A r \in Runs : pc[r] # "failed"

\* Nothing is kept that no row refers to: while no audit has failed and no
\* session is open, the bytes in object storage are those of the Blob rows.
NoOrphans == Unbroken /\ Open = {} => objects = Rows

\* "Is ever only uploaded once": while no audit has failed, a run that finds
\* no row for its content, and so uploads it, is the first to store it.
UploadedOnce ==
  [][\A r \in Runs, h \in Hashes :
       Unbroken /\ got[r][h] = Unread /\ got'[r][h] = 0 => h \notin objects]_vars

\* However many audits overlap, fail or lose a race for the same content,
\* what a committed reference points at has a row and its bytes.
NoDangling == \A f \in Refs : hashOf[f] # NoBlob => hashOf[f] \in Rows \cap objects

\* Overlapping audits lose increments and never invent one: without pruning,
\* a refcount is never above the number of rows that point at the hash.
NeverOvercounted == \A h \in Hashes : refcount[h] <= Cardinality(Pointing(h))
=============================================================================
