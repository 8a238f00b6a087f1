------------------------- MODULE FirstAudits_proofs -------------------------
(***************************************************************************)
(* Theorems about FirstAudits, for any number of requests, stores and      *)
(* pipeline stages and any cap.                                            *)
(***************************************************************************)
EXTENDS FirstAudits, FiniteSetTheorems, FunctionTheorems, TLAPS

-----------------------------------------------------------------------------
(* The inductive invariant.  RegistryExact alone is not inductive: two     *)
(* handlers that both hold a reservation of one key would satisfy it, and  *)
(* the first to release would empty the slot of the other.  KeyExclusive   *)
(* rules that out, HandedOver separates the life of a handler from that of *)
(* its task, and CapHeld counts the registry, which is what the code tests.*)

\* Two audits in flight never share a key of the registry.
KeyExclusive ==
  \A r, q \in Requests : InFlight(r) /\ InFlight(q) /\ Key(r) = Key(q) => r = q

\* A task exists only once its handler has answered 202.
HandedOver == \A r \in Requests : handler[r] # "accepted" => task[r] = "none"

\* The registry itself is finite and within the cap.
CapHeld == IsFiniteSet(Held) /\ Cardinality(Held) <= MaxConcurrent

SlotInv == TypeOK /\ RegistryExact /\ KeyExclusive /\ HandedOver /\ CapHeld

LEMMA KeyType == TypeOK => \A r \in Requests : Key(r) \in UrlKeys
  BY DEF TypeOK, Key, UrlKeys

LEMMA InitSlotInv == Init => SlotInv
<1> SUFFICES ASSUME Init PROVE SlotInv
  OBVIOUS
<1>1. TypeOK
  BY StagesAssumption DEF Init, TypeOK, Handlers, Tasks
<1>2. Held = {}
  BY DEF Init, Held
<1>3. CapHeld
  BY <1>2, FS_EmptySet, CapAssumption DEF CapHeld
<1>4. RegistryExact /\ KeyExclusive /\ HandedOver
  BY <1>2 DEF Init, RegistryExact, KeyExclusive, HandedOver, InFlight, Reserving,
     Working, Timed
<1>5. QED
  BY <1>1, <1>3, <1>4 DEF SlotInv

\* Actions that touch neither the registry nor who is in flight.
LEMMA QuietStep ==
  ASSUME SlotInv, TypeOK', HandedOver', UNCHANGED <<url, slot>>,
         \A r \in Requests : (Reserving(r) <=> Reserving(r)')
                             /\ (task[r] \in Working <=> task'[r] \in Working)
  PROVE  SlotInv'
<1>1. Held' = Held /\ \A r \in Requests : Key(r)' = Key(r)
  BY DEF Held, Key
<1>2. \A r \in Requests : InFlight(r)' <=> InFlight(r)
  BY DEF InFlight
<1>3. RegistryExact' /\ KeyExclusive' /\ CapHeld'
  BY <1>1, <1>2 DEF SlotInv, RegistryExact, KeyExclusive, CapHeld
<1>4. QED
  BY <1>3 DEF SlotInv

\* Actions by which one audit in flight leaves and frees its slot.
LEMMA ReleaseStep ==
  ASSUME SlotInv, TypeOK', HandedOver', NEW r \in Requests,
         InFlight(r), ~InFlight(r)', Release(Key(r)), UNCHANGED url,
         \A q \in Requests \ {r} : (Reserving(q)' <=> Reserving(q))
                                   /\ (task'[q] \in Working <=> task[q] \in Working)
  PROVE  SlotInv'
<1>0. /\ \A q \in Requests : Key(q)' = Key(q) /\ Key(q) \in UrlKeys
      /\ \A q \in Requests \ {r} : InFlight(q)' <=> InFlight(q)
      /\ Free \notin Requests /\ Free # Reserved
  BY KeyType, MarkersAssumption DEF Key, SlotInv, InFlight
<1>1. Held' = Held \ {Key(r)}
  BY <1>0 DEF Held, Release, SlotInv, TypeOK
<1>2. CapHeld'
  <2>1. IsFiniteSet(Held) /\ Cardinality(Held) \in Nat
    BY FS_CardinalityType DEF SlotInv, CapHeld
  <2>2. IsFiniteSet(Held') /\ Cardinality(Held') <= Cardinality(Held)
    <3>1. /\ IsFiniteSet(Held \ {Key(r)})
          /\ Cardinality(Held \ {Key(r)}) =
               IF Key(r) \in Held THEN Cardinality(Held) - 1 ELSE Cardinality(Held)
      BY <2>1, FS_RemoveElement
    <3>2. QED
      BY <1>1, <2>1, <3>1
  <2>3. Cardinality(Held') \in Nat
    BY <2>2, FS_CardinalityType
  <2>4. QED
    BY <2>1, <2>2, <2>3, CapAssumption DEF SlotInv, CapHeld
<1>3. \A q \in Requests \ {r} : InFlight(q) => Key(q) # Key(r)
  BY DEF SlotInv, KeyExclusive
<1>4. KeyExclusive'
  BY <1>0 DEF SlotInv, KeyExclusive
<1>5. RegistryExact'
  <2>1. \A q \in Requests : Reserving(q)' => slot'[Key(q)'] = Reserved
    BY <1>0, <1>3 DEF SlotInv, RegistryExact, InFlight, Release, TypeOK
  <2>2. \A q \in Requests : task'[q] \in Working => slot'[Key(q)'] = q
    BY <1>0, <1>3 DEF SlotInv, RegistryExact, InFlight, Release, TypeOK
  <2>3. \A k \in Held' : \E q \in Requests : InFlight(q)' /\ Key(q)' = k
    BY <1>0, <1>1 DEF SlotInv, RegistryExact
  <2>4. QED
    BY <2>1, <2>2, <2>3 DEF RegistryExact
<1>6. QED
  BY <1>2, <1>4, <1>5 DEF SlotInv

\* Types are preserved, and only a handler that answers 202 starts a task.
LEMMA TypeStep == SlotInv /\ [Next]_vars => TypeOK' /\ HandedOver'
<1> SUFFICES ASSUME SlotInv, [Next]_vars PROVE TypeOK' /\ HandedOver'
  OBVIOUS
<1> USE DEF SlotInv, TypeOK, HandedOver, HandlerMoves, TaskMoves, Release,
        Handlers, Answers, LetIn, Tasks, Working, Timed, Terminal, Reserving
<1>0. \A r \in Requests : Key(r) \in UrlKeys
  BY KeyType
<1>1. CASE Restart
  BY <1>1 DEF Restart
<1>2. ASSUME NEW r \in Requests, Post(r) PROVE TypeOK' /\ HandedOver'
  BY <1>2 DEF Post
<1>3. ASSUME NEW r \in Requests, HandlerStep(r) PROVE TypeOK' /\ HandedOver'
  <2>1. CASE Refuse(r) \/ Conflict(r) \/ Full(r)
    BY <2>1 DEF Refuse, Conflict, Full
  <2>2. CASE Reserve(r)
    BY <1>0, <2>2 DEF Reserve
  <2>3. CASE InsertRow(r)
    BY <2>3 DEF InsertRow
  <2>4. CASE Launch(r)
    BY <1>0, <2>4 DEF Launch
  <2>5. CASE LaunchFails(r)
    BY <1>0, <2>5 DEF LaunchFails
  <2>6. QED
    BY <1>3, <2>1, <2>2, <2>3, <2>4, <2>5 DEF HandlerStep
<1>4. ASSUME NEW r \in Requests, DatabaseStep(r) PROVE TypeOK' /\ HandedOver'
  <2>1. CASE Claim(r) \/ MarkRejected(r) \/ MarkExpired(r)
    BY <2>1 DEF Claim, MarkRejected, MarkExpired
  <2>2. CASE CommitDone(r)
    BY <2>2 DEF CommitDone
  <2>3. CASE Finish(r) \/ Break(r)
    BY <1>0, <2>3 DEF Finish, Break
  <2>4. QED
    BY <1>4, <2>1, <2>2, <2>3 DEF DatabaseStep
<1>5. ASSUME NEW r \in Requests, CrawlStep(r) \/ Timeout(r) PROVE TypeOK' /\ HandedOver'
  <2>1. CASE Stage(r)
    BY <2>1, StagesAssumption DEF Stage
  <2>2. CASE Cleared(r) \/ Reject(r) \/ Timeout(r)
    BY <2>2 DEF Cleared, Reject, Timeout
  <2>3. QED
    BY <1>5, <2>1, <2>2 DEF CrawlStep
<1>6. CASE UNCHANGED vars
  BY <1>6 DEF vars
<1>7. QED
  BY <1>1, <1>2, <1>3, <1>4, <1>5, <1>6 DEF Next

\* reserve: the new entry is for a free key and the cap was tested.
LEMMA ReserveStep ==
  ASSUME SlotInv, TypeOK', HandedOver', NEW r \in Requests, Reserve(r)
  PROVE  SlotInv'
<1> USE DEF Reserve, AtCap, HandlerMoves
<1>0. /\ \A q \in Requests : Key(q)' = Key(q) /\ Key(q) \in UrlKeys
      /\ \A q \in Requests \ {r} : Reserving(q)' <=> Reserving(q)
      /\ Reserving(r)' /\ ~Reserving(r)
      /\ task[r] = "none" /\ task' = task
      /\ Free \notin Requests /\ Reserved \notin Requests /\ Free # Reserved
  BY KeyType, MarkersAssumption DEF Key, SlotInv, HandedOver, TypeOK, Reserving
<1>1. Held' = Held \cup {Key(r)} /\ Key(r) \notin Held
  BY <1>0 DEF Held, SlotInv, TypeOK
<1>2. \A q \in Requests : InFlight(q) => Key(q) # Key(r)
  BY <1>0 DEF SlotInv, RegistryExact, InFlight
<1>3. \A q \in Requests : InFlight(q)' <=> InFlight(q) \/ q = r
  BY <1>0 DEF InFlight
<1>4. CapHeld'
  <2>1. IsFiniteSet(Held) /\ Cardinality(Held) \in Nat /\ Cardinality(Held) < MaxConcurrent
    BY FS_CardinalityType, CapAssumption DEF SlotInv, CapHeld
  <2>2. /\ IsFiniteSet(Held \cup {Key(r)})
        /\ Cardinality(Held \cup {Key(r)}) = Cardinality(Held) + 1
    BY <1>1, <2>1, FS_AddElement
  <2>3. QED
    BY <1>1, <2>1, <2>2, CapAssumption DEF CapHeld
<1>5. KeyExclusive'
  BY <1>0, <1>2, <1>3 DEF SlotInv, KeyExclusive
<1>6. RegistryExact'
  <2>1. \A q \in Requests : Reserving(q)' => slot'[Key(q)'] = Reserved
    BY <1>0, <1>2 DEF SlotInv, RegistryExact, InFlight, TypeOK
  <2>2. \A q \in Requests : task'[q] \in Working => slot'[Key(q)'] = q
    BY <1>0, <1>2 DEF SlotInv, RegistryExact, InFlight, TypeOK
  <2>3. \A k \in Held' : \E q \in Requests : InFlight(q)' /\ Key(q)' = k
    BY <1>0, <1>1, <1>3 DEF SlotInv, RegistryExact
  <2>4. QED
    BY <2>1, <2>2, <2>3 DEF RegistryExact
<1>7. QED
  BY <1>4, <1>5, <1>6 DEF SlotInv

\* attach and create_task: the reservation becomes the slot of the run.
LEMMA LaunchStep ==
  ASSUME SlotInv, TypeOK', HandedOver', NEW r \in Requests, Launch(r)
  PROVE  SlotInv'
<1> USE DEF Launch, HandlerMoves
<1>0. /\ \A q \in Requests : Key(q)' = Key(q) /\ Key(q) \in UrlKeys
      /\ \A q \in Requests \ {r} : /\ Reserving(q)' <=> Reserving(q)
                                   /\ task'[q] = task[q]
      /\ Reserving(r) /\ ~Reserving(r)' /\ task'[r] \in Working
      /\ Free \notin Requests /\ Reserved \notin Requests /\ Free # Reserved
  BY KeyType, MarkersAssumption DEF Key, SlotInv, TypeOK, Reserving, Working, Timed
<1>1. Held' = Held
  BY <1>0 DEF Held, SlotInv, TypeOK, RegistryExact
<1>2. \A q \in Requests : InFlight(q)' <=> InFlight(q)
  BY <1>0 DEF InFlight
<1>3. \A q \in Requests \ {r} : InFlight(q) => Key(q) # Key(r)
  BY <1>0 DEF SlotInv, KeyExclusive, InFlight
<1>4. KeyExclusive' /\ CapHeld'
  BY <1>0, <1>1, <1>2 DEF SlotInv, KeyExclusive, CapHeld
<1>5. RegistryExact'
  <2>1. \A q \in Requests : Reserving(q)' => slot'[Key(q)'] = Reserved
    BY <1>0, <1>3 DEF SlotInv, RegistryExact, InFlight, TypeOK
  <2>2. \A q \in Requests : task'[q] \in Working => slot'[Key(q)'] = q
    BY <1>0, <1>3 DEF SlotInv, RegistryExact, InFlight, TypeOK
  <2>3. \A k \in Held' : \E q \in Requests : InFlight(q)' /\ Key(q)' = k
    BY <1>0, <1>1, <1>2 DEF SlotInv, RegistryExact
  <2>4. QED
    BY <2>1, <2>2, <2>3 DEF RegistryExact
<1>6. QED
  BY <1>4, <1>5 DEF SlotInv

LEMMA NextSlotInv == SlotInv /\ [Next]_vars => SlotInv'
<1> SUFFICES ASSUME SlotInv, [Next]_vars PROVE SlotInv'
  OBVIOUS
<1>0. TypeOK' /\ HandedOver'
  BY TypeStep
<1> USE DEF HandlerMoves, TaskMoves
<1>1. CASE Restart
  <2>1. \A r \in Requests : ~InFlight(r)'
    BY <1>1 DEF Restart, InFlight, Reserving, Working, Timed, SlotInv, TypeOK
  <2>2. Held' = {}
    BY <1>1 DEF Restart, Held
  <2>3. CapHeld'
    BY <2>2, FS_EmptySet, CapAssumption DEF CapHeld
  <2>4. RegistryExact' /\ KeyExclusive'
    BY <2>1, <2>2 DEF RegistryExact, KeyExclusive, InFlight
  <2>5. QED
    BY <1>0, <2>3, <2>4 DEF SlotInv
<1>2. ASSUME NEW r \in Requests,
             \/ Post(r) \/ Refuse(r) \/ Conflict(r) \/ Full(r) \/ InsertRow(r)
             \/ Claim(r) \/ CommitDone(r) \/ MarkRejected(r) \/ MarkExpired(r)
             \/ CrawlStep(r) \/ Timeout(r)
      PROVE  SlotInv'
  <2>1. UNCHANGED <<url, slot>>
    BY <1>2 DEF Post, Refuse, Conflict, Full, InsertRow, Claim, CommitDone,
       MarkRejected, MarkExpired, CrawlStep, Cleared, Stage, Reject, Timeout
  <2>2. \A q \in Requests : (Reserving(q) <=> Reserving(q)')
                            /\ (task[q] \in Working <=> task'[q] \in Working)
    <3>1. CASE Post(r) \/ Refuse(r) \/ Conflict(r) \/ Full(r) \/ InsertRow(r)
      BY <3>1 DEF Post, Refuse, Conflict, Full, InsertRow, Reserving, SlotInv, TypeOK
    <3>2. CASE Claim(r) \/ CommitDone(r) \/ MarkRejected(r) \/ MarkExpired(r)
      BY <3>2 DEF Claim, CommitDone, MarkRejected, MarkExpired, Reserving, Working,
         Timed, SlotInv, TypeOK
    <3>3. CASE CrawlStep(r) \/ Timeout(r)
      BY <3>3 DEF CrawlStep, Cleared, Stage, Reject, Timeout, Reserving, Working,
         Timed, SlotInv, TypeOK
    <3>4. QED
      BY <1>2, <3>1, <3>2, <3>3
  <2>3. QED
    BY <1>0, <2>1, <2>2, QuietStep
<1>3. ASSUME NEW r \in Requests, LaunchFails(r) \/ Finish(r) \/ Break(r)
      PROVE  SlotInv'
  <2>1. InFlight(r) /\ ~InFlight(r)'
    BY <1>3 DEF LaunchFails, Finish, Break, InFlight, Reserving, Working, Timed,
       SlotInv, TypeOK, HandedOver
  <2>2. \A q \in Requests \ {r} : (Reserving(q)' <=> Reserving(q))
                                  /\ (task'[q] \in Working <=> task[q] \in Working)
    BY <1>3 DEF LaunchFails, Finish, Break, Reserving, SlotInv, TypeOK
  <2>3. Release(Key(r)) /\ UNCHANGED url
    BY <1>3 DEF LaunchFails, Finish, Break
  <2>4. QED
    BY <1>0, <2>1, <2>2, <2>3, ReleaseStep
<1>4. ASSUME NEW r \in Requests, Reserve(r) PROVE SlotInv'
  BY <1>0, <1>4, ReserveStep
<1>5. ASSUME NEW r \in Requests, Launch(r) PROVE SlotInv'
  BY <1>0, <1>5, LaunchStep
<1>6. CASE UNCHANGED vars
  BY <1>0, <1>6, QuietStep DEF vars, Reserving
<1>7. QED
  BY <1>1, <1>2, <1>3, <1>4, <1>5, <1>6 DEF Next, HandlerStep, DatabaseStep

LEMMA SafeSlotInv == SafeSpec => []SlotInv
  BY InitSlotInv, NextSlotInv, PTL DEF SafeSpec

-----------------------------------------------------------------------------
\* Every variable keeps its type.
THEOREM TypeCorrect == SafeSpec => []TypeOK
<1>1. SlotInv => TypeOK
  BY DEF SlotInv
<1>2. QED
  BY <1>1, SafeSlotInv, PTL

\* The registry of _FirstAuditSlots mirrors the audits in flight exactly: no
\* slot is leaked by a failed insert, a broken task, a timeout or a restart,
\* and no release hits the slot of another run.
THEOREM RegistryIsExact == SafeSpec => []RegistryExact
<1>1. SlotInv => RegistryExact
  BY DEF SlotInv
<1>2. QED
  BY <1>1, SafeSlotInv, PTL

LEMMA SameStoreSameKey ==
  ASSUME NEW u \in Urls, NEW v \in Urls, SameStore(u, v)
  PROVE  UrlKey(u) = UrlKey(v)
  BY UrlsAssumption DEF SameStore, UrlKey

\* At most one audit in flight per store, however its URL is spelled.
THEOREM OneRunPerStoreHolds == SafeSpec => []OneRunPerStore
<1>1. SlotInv => OneRunPerStore
  BY SameStoreSameKey DEF SlotInv, TypeOK, KeyExclusive, OneRunPerStore, Key
<1>2. QED
  BY <1>1, SafeSlotInv, PTL

\* Keys are an injection from audits in flight to held slots.
LEMMA FlightsFitRegistry ==
  ASSUME SlotInv
  PROVE  /\ IsFiniteSet({r \in Requests : InFlight(r)})
         /\ Cardinality({r \in Requests : InFlight(r)}) <= Cardinality(Held)
<1> DEFINE Flights == {r \in Requests : InFlight(r)}
           key == [r \in Flights |-> Key(r)]
<1>1. \A r \in Flights : Key(r) \in Held
  BY KeyType, MarkersAssumption DEF SlotInv, RegistryExact, InFlight, Held
<1>2. \A r, q \in Flights : Key(r) = Key(q) => r = q
  BY DEF SlotInv, KeyExclusive
<1>3. key \in Injection(Flights, Held)
  BY <1>1, <1>2, Fun_IsInj DEF Injection
<1>4. IsFiniteSet(Held)
  BY DEF SlotInv, CapHeld
<1>5. QED
  BY <1>3, <1>4, FS_Injection

\* Never more audits in flight than the cap, whatever the cap is.
THEOREM CapHolds == SafeSpec => []CapRespected
<1>1. SlotInv => CapRespected
  <2> SUFFICES ASSUME SlotInv PROVE CapRespected
    OBVIOUS
  <2>1. /\ IsFiniteSet({r \in Requests : InFlight(r)})
        /\ Cardinality({r \in Requests : InFlight(r)}) <= Cardinality(Held)
    BY FlightsFitRegistry
  <2>2. /\ Cardinality({r \in Requests : InFlight(r)}) \in Nat
        /\ Cardinality(Held) \in Nat
    BY <2>1, FS_CardinalityType DEF SlotInv, CapHeld
  <2>3. QED
    BY <2>1, <2>2, CapAssumption DEF CapRespected, SlotInv, CapHeld
<1>2. QED
  BY <1>1, SafeSlotInv, PTL

-----------------------------------------------------------------------------
(* The row follows the task.                                               *)

\* What the status can be at each point of the handler and of the task, and
\* what a row that reads "done" has behind it.
RowInv ==
  \A r \in Requests :
    /\ handler[r] \notin {"inserted", "failed", "accepted", "lost"} => row[r] = "absent"
    /\ handler[r] = "inserted" \/ task[r] = "claiming" => row[r] = "pending"
    /\ task[r] \in {"vetting", "auditing", "rejecting"} => row[r] = "running"
    /\ task[r] = "closing" => row[r] = "done"
    /\ task[r] \in {"rejected", "expiring"} => row[r] = "error"
    /\ task[r] = "expired" => row[r] # "absent"
    /\ task[r] = "over" => row[r] \in Terminal
    /\ row[r] = "done" => saved[r] = Stages /\ snapshot[r]

LEMMA InitRowInv == Init => RowInv
  BY DEF Init, RowInv

LEMMA NextRowInv == SlotInv /\ RowInv /\ [Next]_vars => RowInv'
<1> SUFFICES ASSUME SlotInv, RowInv, [Next]_vars PROVE RowInv'
  OBVIOUS
<1> USE DEF SlotInv, TypeOK, HandedOver, RowInv, HandlerMoves, TaskMoves, Terminal
<1>1. CASE Restart
  BY <1>1 DEF Restart, Reserving, Working, Timed
<1>2. ASSUME NEW r \in Requests, Post(r) \/ Refuse(r) \/ Conflict(r) \/ Full(r) \/ Reserve(r)
      PROVE  RowInv'
  BY <1>2 DEF Post, Refuse, Conflict, Full, Reserve
<1>3. ASSUME NEW r \in Requests, InsertRow(r) PROVE RowInv'
  BY <1>3 DEF InsertRow
<1>4. ASSUME NEW r \in Requests, Launch(r) \/ LaunchFails(r) PROVE RowInv'
  BY <1>4 DEF Launch, LaunchFails
<1>5. ASSUME NEW r \in Requests, Claim(r) PROVE RowInv'
  BY <1>5 DEF Claim
<1>6. ASSUME NEW r \in Requests, CommitDone(r) PROVE RowInv'
  BY <1>6 DEF CommitDone, AllSaved
<1>7. ASSUME NEW r \in Requests, MarkRejected(r) \/ MarkExpired(r) PROVE RowInv'
  BY <1>7 DEF MarkRejected, MarkExpired
<1>8. ASSUME NEW r \in Requests, Finish(r) \/ Break(r) PROVE RowInv'
  BY <1>8 DEF Finish, Break
<1>9. ASSUME NEW r \in Requests, Stage(r) PROVE RowInv'
  BY <1>9, StagesAssumption DEF Stage
<1>10. ASSUME NEW r \in Requests, Cleared(r) \/ Reject(r) \/ Timeout(r) PROVE RowInv'
  BY <1>10 DEF Cleared, Reject, Timeout, Timed
<1>11. CASE UNCHANGED vars
  BY <1>11 DEF vars
<1>12. QED
  BY <1>1, <1>2, <1>3, <1>4, <1>5, <1>6, <1>7, <1>8, <1>9, <1>10, <1>11
     DEF Next, HandlerStep, DatabaseStep, CrawlStep

LEMMA SafeRowInv == SafeSpec => [](SlotInv /\ RowInv)
  BY InitSlotInv, NextSlotInv, InitRowInv, NextRowInv, PTL DEF SafeSpec

\* A report is only ever rendered from a run whose findings are all there.
THEOREM DoneIsCompleteHolds == SafeSpec => []DoneIsComplete
<1>1. RowInv => DoneIsComplete
  BY DEF RowInv, DoneIsComplete
<1>2. QED
  BY <1>1, SafeRowInv, PTL

\* A task that ended without an escaping exception left a final status.
THEOREM EndedIsSettledHolds == SafeSpec => []EndedIsSettled
<1>1. RowInv => EndedIsSettled
  BY DEF RowInv, EndedIsSettled
<1>2. QED
  BY <1>1, SafeRowInv, PTL

\* Statuses only move forward and never after the slot was released.
THEOREM StatusMonotoneHolds == SafeSpec => StatusMonotone
<1> DEFINE Forward ==
      \A r \in Requests :
        row'[r] # row[r] =>
          /\ <<row[r], row'[r]>> \in
               {<<"absent", "pending">>, <<"pending", "running">>}
               \cup ({"pending", "running", "done", "error"} \X Terminal)
          /\ row'[r] = "done" => row[r] = "running"
          /\ InFlight(r)
<1>1. ASSUME SlotInv, RowInv, [Next]_vars PROVE [Forward]_vars
  <2> USE <1>1 DEF SlotInv, TypeOK, HandlerMoves, TaskMoves, Terminal
  <2>1. ASSUME NEW r \in Requests, InsertRow(r) PROVE Forward
    BY <2>1 DEF InsertRow, RowInv, InFlight, Reserving
  <2>2. ASSUME NEW r \in Requests, Claim(r) \/ CommitDone(r) PROVE Forward
    BY <2>2 DEF Claim, CommitDone, RowInv, InFlight, Working, Timed
  <2>3. ASSUME NEW r \in Requests, MarkRejected(r) \/ MarkExpired(r) PROVE Forward
    BY <2>3 DEF MarkRejected, MarkExpired, RowInv, InFlight, Working, Timed
  <2>4. ASSUME UNCHANGED row PROVE Forward
    BY <2>4
  <2>5. Next => Forward
    BY <2>1, <2>2, <2>3, <2>4 DEF Next, HandlerStep, DatabaseStep, CrawlStep,
       Restart, Post, Refuse, Conflict, Full, Reserve, Launch, LaunchFails, Finish,
       Break, Cleared, Stage, Reject, Timeout
  <2>6. QED
    BY <2>5
<1>2. SafeSpec => [][Forward]_vars
  BY <1>1, SafeRowInv, PTL DEF SafeSpec
<1>3. QED
  BY <1>2 DEF StatusMonotone

-----------------------------------------------------------------------------
(* FirstAudits implements FirstAuditGate: reserve is Admit, every path that *)
(* releases is Leave, a restart is Wipe, all else is a stutter.             *)

LEMMA InitGate == Init => Gate!GateInit
  BY DEF Init, Gate!GateInit, InFlight, Reserving, Working, Timed, LetIn

\* Steps that move nobody in or out of the gate.
LEMMA GateStutter ==
  ASSUME UNCHANGED url,
         \A r \in Requests : /\ InFlight(r)' <=> InFlight(r)
                             /\ handler'[r] \in LetIn <=> handler[r] \in LetIn
  PROVE  UNCHANGED Gate!gateVars
<1>1. {r \in Requests : InFlight(r)}' = {r \in Requests : InFlight(r)}
  OBVIOUS
<1>2. {r \in Requests : handler[r] \in LetIn}' = {r \in Requests : handler[r] \in LetIn}
  OBVIOUS
<1>3. [r \in Requests |-> Key(r)]' = [r \in Requests |-> Key(r)]
  BY DEF Key
<1>4. QED
  BY <1>1, <1>2, <1>3 DEF Gate!gateVars

\* The gate counts with the same Cardinality.
LEMMA SameCount == \A S : Gate!Cardinality(S) = Cardinality(S)
  BY DEF Gate!Cardinality, Cardinality

LEMMA NextGate == SlotInv /\ [Next]_vars => [Gate!GateNext]_Gate!gateVars
<1> SUFFICES ASSUME SlotInv, [Next]_vars
             PROVE  Gate!GateNext \/ UNCHANGED Gate!gateVars
  OBVIOUS
<1> USE DEF HandlerMoves, TaskMoves
<1>1. CASE Restart
  <2>1. \A r \in Requests : ~InFlight(r)'
    BY <1>1 DEF Restart, InFlight, Reserving, Working, Timed, SlotInv, TypeOK
  <2>2. \A r \in Requests : handler'[r] \in LetIn <=> handler[r] \in LetIn
    BY <1>1 DEF Restart, LetIn, Reserving, SlotInv, TypeOK
  <2>3. UNCHANGED url
    BY <1>1 DEF Restart
  <2>4. Gate!Wipe
    BY <2>1, <2>2, <2>3 DEF Gate!Wipe, Key
  <2>5. QED
    BY <2>4 DEF Gate!GateNext
<1>2. ASSUME NEW r \in Requests, Reserve(r) PROVE Gate!Admit(r)
  <2>1. Cardinality({q \in Requests : InFlight(q)}) < MaxConcurrent
    <3>1. /\ IsFiniteSet({q \in Requests : InFlight(q)})
          /\ Cardinality({q \in Requests : InFlight(q)}) <= Cardinality(Held)
      BY FlightsFitRegistry
    <3>2. /\ Cardinality({q \in Requests : InFlight(q)}) \in Nat
          /\ Cardinality(Held) \in Nat
      BY <3>1, FS_CardinalityType DEF SlotInv, CapHeld
    <3>3. ~(Cardinality(Held) >= MaxConcurrent)
      BY <1>2 DEF Reserve, AtCap
    <3>4. QED
      BY <3>1, <3>2, <3>3, CapAssumption
  <2>2. \A q \in Requests : InFlight(q) => Key(q) # Key(r)
    BY <1>2, MarkersAssumption DEF Reserve, SlotInv, RegistryExact, InFlight
  <2>3. /\ handler[r] \notin LetIn
        /\ \A q \in Requests : handler'[q] \in LetIn <=> handler[q] \in LetIn \/ q = r
    BY <1>2 DEF Reserve, LetIn, SlotInv, TypeOK
  <2>4. \A q \in Requests : InFlight(q)' <=> InFlight(q) \/ q = r
    BY <1>2 DEF Reserve, InFlight, Reserving, SlotInv, TypeOK
  <2>5. UNCHANGED url
    BY <1>2 DEF Reserve
  <2>6. {q \in Requests : InFlight(q)}' = {q \in Requests : InFlight(q)} \cup {r}
    BY <2>4
  <2>7. {q \in Requests : handler[q] \in LetIn}'
          = {q \in Requests : handler[q] \in LetIn} \cup {r}
    BY <2>3
  <2>8. [q \in Requests |-> Key(q)]' = [q \in Requests |-> Key(q)]
    BY <2>5 DEF Key
  <2>9. QED
    BY <2>1, <2>2, <2>3, <2>6, <2>7, <2>8, SameCount DEF Gate!Admit
<1>3. ASSUME NEW r \in Requests, LaunchFails(r) \/ Finish(r) \/ Break(r)
      PROVE  Gate!Leave(r)
  <2>1. InFlight(r) /\ ~InFlight(r)'
    BY <1>3 DEF LaunchFails, Finish, Break, InFlight, Reserving, Working, Timed,
       SlotInv, TypeOK, HandedOver
  <2>2. \A q \in Requests \ {r} : InFlight(q)' <=> InFlight(q)
    BY <1>3 DEF LaunchFails, Finish, Break, InFlight, Reserving, SlotInv, TypeOK
  <2>3. \A q \in Requests : handler'[q] \in LetIn <=> handler[q] \in LetIn
    BY <1>3 DEF LaunchFails, Finish, Break, LetIn, SlotInv, TypeOK
  <2>4. UNCHANGED url
    BY <1>3 DEF LaunchFails, Finish, Break
  <2>5. QED
    BY <2>1, <2>2, <2>3, <2>4 DEF Gate!Leave, Key
<1>4. ASSUME NEW r \in Requests,
             \/ Post(r) \/ Refuse(r) \/ Conflict(r) \/ Full(r)
             \/ InsertRow(r) \/ Launch(r)
      PROVE  UNCHANGED Gate!gateVars
  <2>1. \A q \in Requests : /\ InFlight(q)' <=> InFlight(q)
                            /\ handler'[q] \in LetIn <=> handler[q] \in LetIn
    BY <1>4 DEF Post, Refuse, Conflict, Full, InsertRow, Launch, InFlight, Reserving,
       Working, Timed, LetIn, SlotInv, TypeOK
  <2>2. UNCHANGED url
    BY <1>4 DEF Post, Refuse, Conflict, Full, InsertRow, Launch
  <2>3. QED
    BY <2>1, <2>2, GateStutter
<1>5. ASSUME NEW r \in Requests,
             \/ Claim(r) \/ CommitDone(r) \/ MarkRejected(r) \/ MarkExpired(r)
             \/ CrawlStep(r) \/ Timeout(r)
      PROVE  UNCHANGED Gate!gateVars
  <2>1. UNCHANGED <<url, handler>>
    BY <1>5 DEF Claim, CommitDone, MarkRejected, MarkExpired, CrawlStep, Cleared,
       Stage, Reject, Timeout
  <2>2. \A q \in Requests : task'[q] \in Working <=> task[q] \in Working
    BY <1>5 DEF Claim, CommitDone, MarkRejected, MarkExpired, CrawlStep, Cleared,
       Stage, Reject, Timeout, Working, Timed, SlotInv, TypeOK
  <2>3. \A q \in Requests : /\ InFlight(q)' <=> InFlight(q)
                            /\ handler'[q] \in LetIn <=> handler[q] \in LetIn
    BY <2>1, <2>2 DEF InFlight, Reserving
  <2>4. QED
    BY <2>1, <2>3, GateStutter
<1>6. CASE UNCHANGED vars
  BY <1>6, GateStutter DEF vars, InFlight, Reserving
<1>7. QED
  BY <1>1, <1>2, <1>3, <1>4, <1>5, <1>6
     DEF Next, HandlerStep, DatabaseStep, Gate!GateNext

\* The handlers, the registry and the tasks together are the gate: what the
\* API promises about concurrency follows from FirstAuditGate alone.
THEOREM SafeImplementsGate == SafeSpec => Gate!GateSafety
  BY InitGate, NextGate, SafeSlotInv, PTL DEF SafeSpec, Gate!GateSafety
=============================================================================
