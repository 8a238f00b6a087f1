-------------------------- MODULE AuditJobs_proofs --------------------------
(***************************************************************************)
(* Theorems about the audits that run in the background: AuditJobs, for    *)
(* any number of jobs, nodes and days, and then AuditReport, for any store *)
(* and whatever is wrong with it.                                          *)
(*                                                                         *)
(* JobInv says where the task of a job may be for each state of its row,   *)
(* and how far the graph is there; it is inductive together with TypeOK.   *)
(* AgeInv adds what a session that creates a row knows of the others.      *)
(*                                                                         *)
(* AuditInv says that a published report and its delta are those of the    *)
(* findings, and that the findings are grounded in the crawl: every page   *)
(* that did not load is reported, and a crawl that loaded nothing has no   *)
(* suspension risks but those an address alone shows.  What a report says  *)
(* then follows from lemmas about the functions that compile it.           *)
(***************************************************************************)
EXTENDS AuditJobs, AuditReport, FiniteSetTheorems, TLAPS

\* No row exists yet.
Unborn == {"idle", "creating", "refused"}

\* The graph has not started, and has ended.
Before == {"idle", "creating", "created", "claim", "vetting"}
Behind == {"storing", "stored", "finish"}

\* How far the graph is where the task of j is.
Progress(j) ==
  /\ pc[j] \in Before => ran[j] = 0
  /\ pc[j] = "node" => ran[j] < Nodes
  /\ pc[j] \in Behind => ran[j] = Nodes
  /\ pc[j] \in Behind /\ j \in Present => phase[j] = Nodes
  /\ pc[j] \in {"stored", "finish"} /\ j \in Reruns => filed[j]

\* What the row of j says of its task.
Agreement(j) ==
  /\ pc[j] \in Unborn => row[j] = "absent"
  /\ row[j] \in Active => pc[j] \in Working \cup Escaped \cup {"lost"}
  /\ row[j] \in Active /\ pc[j] = "lost" => server = "down"
  /\ row[j] \in Final => pc[j] \in {"over", "lost"}
  /\ row[j] = "done" => phase[j] = Nodes /\ (j \in Reruns => filed[j])
  /\ seen[j] \in Final => row[j] \in {seen[j], "gone"}
  /\ server = "down" => pc[j] \notin Working \cup Escaped
  /\ \A k \in doomed[j] : row[k] # "absent"

JobInv ==
  /\ TypeOK
  /\ \A j \in Jobs : Progress(j) /\ Agreement(j)

USE DEF Active, Final, Updates, Handling, Working, Escaped, Places, Unborn, Before, Behind

\* The initial states satisfy the invariant.
LEMMA InitJob == Init => JobInv
BY RerunsAssumption, NodesAssumption, DaysAssumption
   DEF Init, JobInv, TypeOK, Progress, Agreement, Present

\* Steps keep the types.
LEMMA TypeNext ==
  ASSUME JobInv, [Next]_vars
  PROVE  TypeOK'
<1> USE NodesAssumption, DaysAssumption DEF JobInv, TypeOK, Moves
<1>1. CASE Midnight
  BY <1>1 DEF Midnight, rowVars, taskVars
<1>2. CASE Die
  BY <1>2 DEF Die, rowVars
<1>3. CASE Boot
  BY <1>3 DEF Boot, taskVars, Stuck
<1>4. ASSUME NEW j \in Jobs, Post(j) PROVE TypeOK'
  BY <1>4 DEF Post, Present
<1>5. ASSUME NEW j \in Jobs, HandlerStep(j) PROVE TypeOK'
  <2>1. CASE Create(j)
    BY <2>1 DEF Create
  <2>2. CASE Launch(j)
    BY <2>2 DEF Launch, rowVars
  <2>3. CASE CreateFails(j)
    BY <2>3 DEF CreateFails, rowVars
  <2> QED BY <1>5, <2>1, <2>2, <2>3 DEF HandlerStep
<1>6. ASSUME NEW j \in Jobs, TaskStep(j) PROVE TypeOK'
  <2>1. CASE Get(j)
    BY <2>1 DEF Get, rowVars
  <2>2. CASE Disappeared(j)
    BY <2>2 DEF Disappeared, After, rowVars
  <2>3. CASE Save(j)
    <3>1. Status(j) \in {"absent", "gone"} \cup Active \cup Final
      BY DEF Status
    <3>2. After(j) \in Places
      BY DEF After
    <3> QED BY <2>3, <3>1, <3>2 DEF Save
  <2>4. CASE UpdateRaises(j)
    BY <2>4 DEF UpdateRaises, Raised, rowVars
  <2>5. CASE Vet(j) \/ VetRaises(j) \/ Filed(j) \/ Fail(j)
    BY <2>5 DEF Vet, VetRaises, Filed, Fail, rowVars
  <2>6. CASE Node(j)
    BY <2>6 DEF Node, Progress, rowVars
  <2>7. CASE File(j)
    BY <2>7 DEF File, rowVars
  <2> QED BY <1>6, <2>1, <2>2, <2>3, <2>4, <2>5, <2>6, <2>7 DEF TaskStep
<1>7. ASSUME NEW j \in Jobs, Poll(j) PROVE TypeOK'
  BY <1>7 DEF Poll, Present, rowVars, taskVars
<1>8. CASE UNCHANGED vars
  BY <1>8 DEF vars, rowVars, taskVars
<1> QED BY <1>1, <1>2, <1>3, <1>4, <1>5, <1>6, <1>7, <1>8 DEF Next

\* A step of one job leaves the others alone, and no row becomes absent.
Others(j) ==
  /\ row[j] # "absent" => row'[j] # "absent"
  /\ \A k \in Jobs \ {j} :
    /\ pc'[k] = pc[k] /\ ran'[k] = ran[k] /\ phase'[k] = phase[k]
    /\ filed'[k] = filed[k] /\ seen'[k] = seen[k] /\ doomed'[k] = doomed[k]
    /\ row'[k] = row[k] \/ (row[k] \in Active \cup Final /\ row'[k] = "gone")

\* What such a step leaves true of the others.
LEMMA OthersKept ==
  ASSUME JobInv, NEW j \in Jobs, Others(j), server' = server, NEW k \in Jobs \ {j}
  PROVE  Progress(k)' /\ Agreement(k)'
<1>1. Progress(k) /\ Agreement(k) /\ row[k] \in {"absent", "gone"} \cup Active \cup Final
  BY DEF JobInv, TypeOK
<1>2. \A l \in doomed'[k] : row'[l] # "absent"
  <2>1. \A l \in Jobs : row[l] # "absent" => row'[l] # "absent"
    BY DEF Others
  <2>2. doomed'[k] = doomed[k] /\ doomed[k] \subseteq Jobs
    BY DEF Others, JobInv, TypeOK
  <2> QED BY <1>1, <2>1, <2>2 DEF Agreement
<1>3. CASE row'[k] = row[k]
  BY <1>1, <1>2, <1>3 DEF Others, Progress, Agreement, Present
<1>4. CASE row[k] \in Active \cup Final /\ row'[k] = "gone"
  BY <1>1, <1>2, <1>4 DEF Others, Progress, Agreement, Present
<1> QED BY <1>3, <1>4 DEF Others

\* The handler's steps keep the invariant.
LEMMA HandlerKeeps ==
  ASSUME JobInv, NEW j \in Jobs, Post(j) \/ HandlerStep(j)
  PROVE  Others(j) /\ server' = server /\ Progress(j)' /\ Agreement(j)'
<1> USE NodesAssumption DEF JobInv, TypeOK, Moves, Others, Progress, Agreement, Present
<1>1. CASE Post(j)
  BY <1>1 DEF Post
<1>2. CASE Create(j)
  <2>1. \A k \in Jobs \ {j} :
          row'[k] = row[k] \/ (row'[k] = "gone" /\ row[k] \in Active \cup Final)
    BY <1>2 DEF Create
  <2> QED BY <1>2, <2>1 DEF Create
<1>3. CASE Launch(j)
  BY <1>3 DEF Launch, rowVars
<1>4. CASE CreateFails(j)
  BY <1>4 DEF CreateFails, rowVars
<1> QED BY <1>1, <1>2, <1>3, <1>4 DEF HandlerStep

\* _update keeps the invariant.
LEMMA UpdateKeeps ==
  ASSUME JobInv, NEW j \in Jobs,
         Get(j) \/ Disappeared(j) \/ Save(j) \/ UpdateRaises(j)
  PROVE  Others(j) /\ server' = server /\ Progress(j)' /\ Agreement(j)'
<1> USE NodesAssumption DEF JobInv, TypeOK, Moves, Others, Progress, Agreement, Present
<1>1. CASE Get(j)
  BY <1>1 DEF Get, rowVars
<1>2. CASE Disappeared(j)
  BY <1>2 DEF Disappeared, After, AllRan, rowVars
<1>3. CASE UpdateRaises(j)
  BY <1>3 DEF UpdateRaises, Raised, rowVars
<1>4. CASE Save(j)
  <2>1. /\ row[j] \in Active /\ pc[j] \in Updates /\ server = "up"
        /\ ran'[j] = ran[j] /\ filed'[j] = filed[j] /\ seen'[j] = seen[j]
        /\ row'[j] = Status(j) /\ pc'[j] = After(j) /\ server' = server
        /\ phase'[j] = IF pc[j] = "report" THEN ran[j] ELSE phase[j]
        /\ doomed' = doomed
        /\ \A k \in Jobs \ {j} :
             /\ row'[k] = row[k] /\ pc'[k] = pc[k] /\ phase'[k] = phase[k]
             /\ ran'[k] = ran[k] /\ filed'[k] = filed[k] /\ seen'[k] = seen[k]
    BY <1>4 DEF Save
  <2>2. row'[j] # "absent" /\ Others(j)
    BY <2>1 DEF Status
  <2>3. Progress(j)'
    BY <2>1 DEF After, AllRan, Status
  <2>4. Agreement(j)'
    <3>1. \A k \in doomed'[j] : row'[k] # "absent"
      BY <2>1, <2>2
    <3>2. seen'[j] \notin Final
      BY <2>1
    <3> QED BY <2>1, <3>1, <3>2 DEF After, AllRan, Status
  <2> QED BY <2>1, <2>2, <2>3, <2>4
<1> QED BY <1>1, <1>2, <1>3, <1>4

\* The other steps of the task, and those of the page, keep it.
LEMMA TaskKeeps ==
  ASSUME JobInv, NEW j \in Jobs, TaskStep(j) \/ Poll(j)
  PROVE  Others(j) /\ server' = server /\ Progress(j)' /\ Agreement(j)'
<1> USE NodesAssumption DEF JobInv, TypeOK, Moves, Others, Progress, Agreement, Present
<1>1. CASE Get(j) \/ Disappeared(j) \/ Save(j) \/ UpdateRaises(j)
  BY <1>1, UpdateKeeps
<1>2. CASE Vet(j) \/ VetRaises(j)
  BY <1>2 DEF Vet, VetRaises, rowVars
<1>3. CASE Node(j)
  BY <1>3 DEF Node, rowVars
<1>4. CASE File(j)
  BY <1>4 DEF File, rowVars
<1>5. CASE Filed(j)
  BY <1>5 DEF Filed, rowVars
<1>6. CASE Fail(j)
  BY <1>6 DEF Fail, rowVars
<1>7. CASE Poll(j)
  BY <1>7 DEF Poll, rowVars, taskVars
<1> QED BY <1>1, <1>2, <1>3, <1>4, <1>5, <1>6, <1>7 DEF TaskStep

\* Every step keeps the invariant.
LEMMA JobNext == JobInv /\ [Next]_vars => JobInv'
<1> SUFFICES ASSUME JobInv, [Next]_vars PROVE JobInv'
  OBVIOUS
<1>1. TypeOK'
  BY TypeNext
<1>2. ASSUME NEW k \in Jobs PROVE Progress(k)' /\ Agreement(k)'
  <2> USE NodesAssumption DEF JobInv, Progress, Agreement, Present
  <2>1. CASE Midnight
    BY <2>1 DEF Midnight, rowVars, taskVars
  <2>2. CASE Die
    BY <2>2 DEF Die, rowVars, TypeOK
  <2>3. CASE Boot
    <3>1. /\ pc' = pc /\ ran' = ran /\ phase' = phase /\ filed' = filed /\ seen' = seen
          /\ doomed' = doomed /\ server = "down" /\ server' = "up"
          /\ \A l \in Jobs : row'[l] = IF row[l] \in Active THEN "error" ELSE row[l]
      BY <2>3 DEF Boot, Stuck, taskVars
    <3>2. \A l \in doomed'[k] : row'[l] # "absent"
      BY <3>1 DEF TypeOK
    <3> QED BY <3>1, <3>2 DEF TypeOK
  <2>4. ASSUME NEW j \in Jobs, Post(j) \/ HandlerStep(j) PROVE Progress(k)' /\ Agreement(k)'
    BY <2>4, HandlerKeeps, OthersKept
  <2>5. ASSUME NEW j \in Jobs, TaskStep(j) \/ Poll(j) PROVE Progress(k)' /\ Agreement(k)'
    BY <2>5, TaskKeeps, OthersKept
  <2>6. CASE UNCHANGED vars
    BY <2>6 DEF vars, rowVars, taskVars
  <2> QED BY <2>1, <2>2, <2>3, <2>4, <2>5, <2>6 DEF Next
<1> QED BY <1>1, <1>2 DEF JobInv

\* JobInv holds in every reachable state.
THEOREM JobInvariant == SafeSpec => []JobInv
BY InitJob, JobNext, PTL DEF SafeSpec

\* Every variable keeps its type.
THEOREM TypeCorrect == SafeSpec => []TypeOK
<1>1. JobInv => TypeOK
  BY DEF JobInv
<1> QED BY <1>1, JobInvariant, PTL

\* While the server is up, a pending or running row is worked on, unless an
\* exception escaped: no failure, prune or restart the code handles leaves one.
THEOREM ActiveIsWorkedOnHolds == SafeSpec => []ActiveIsWorkedOn
<1>1. JobInv => ActiveIsWorkedOn
  BY DEF JobInv, Agreement, ActiveIsWorkedOn
<1> QED BY <1>1, JobInvariant, PTL

\* A final status that the page saw is what the downloads find, until the row
\* is pruned.
THEOREM SeenStandsHolds == SafeSpec => []SeenStands
<1>1. JobInv => SeenStands
  BY DEF JobInv, Agreement, SeenStands
<1> QED BY <1>1, JobInvariant, PTL

\* A done job reported every node, and a re-run filed its audit.
THEOREM DoneIsCompleteHolds == SafeSpec => []DoneIsComplete
<1>1. JobInv => DoneIsComplete
  BY DEF JobInv, Agreement, DoneIsComplete
<1> QED BY <1>1, JobInvariant, PTL

-----------------------------------------------------------------------------
\* What a session that creates j knows: it is still the day it began, and it
\* found every row that is too old, and none that is not.
Informed(j) ==
  pc[j] = "creating" =>
    /\ born[j] = day
    /\ \A k \in Created :
         /\ k \in doomed[j] => Old(k)
         /\ k \in Present /\ Old(k) => k \in doomed[j]

AgeInv ==
  /\ \A j \in Jobs : born[j] <= day
  /\ \A j \in Jobs : Informed(j)
  /\ RetentionExact

\* The initial states satisfy it.
LEMMA InitAge == Init => AgeInv
BY DaysAssumption DEF Init, AgeInv, Informed, RetentionExact, Created, Present

\* A step that creates no row, prunes none and sets no date keeps it.
LEMMA AgeUntouched ==
  ASSUME JobInv, AgeInv, born' = born, day' = day, doomed' = doomed,
         \A k \in Jobs : pc'[k] = "creating" => pc[k] = "creating",
         \A k \in Jobs : row'[k] = "absent" <=> row[k] = "absent",
         \A k \in Jobs : row'[k] = "gone" <=> row[k] = "gone",
         row' \in [Jobs -> {"absent", "gone"} \cup Active \cup Final]
  PROVE  AgeInv'
<1>1. Created' = Created
  BY DEF Created
<1>2. Present' = Present
  BY DEF Present, JobInv, TypeOK
<1>3. RetentionExact'
  BY <1>1 DEF RetentionExact, AgeInv, Created
<1>4. ASSUME NEW j \in Jobs PROVE Informed(j)'
  BY <1>1, <1>2 DEF Informed, AgeInv, Old
<1> QED BY <1>3, <1>4 DEF AgeInv

\* Every step keeps it.
LEMMA AgeNext == JobInv /\ AgeInv /\ [Next]_vars => AgeInv'
<1> SUFFICES ASSUME JobInv, AgeInv, [Next]_vars PROVE AgeInv'
  OBVIOUS
<1> USE DEF Moves
<1>1. TypeOK /\ TypeOK'
  BY TypeNext DEF JobInv
<1>2. CASE Midnight
  <2>1. /\ day' = day + 1 /\ row' = row /\ born' = born /\ pc' = pc
        /\ \A j \in Jobs : pc[j] # "creating"
    BY <1>2 DEF Midnight, rowVars, taskVars
  <2>2. Created' = Created /\ RetentionExact'
    BY <2>1 DEF RetentionExact, AgeInv, Created
  <2>3. \A j \in Jobs : born'[j] <= day'
    BY <1>1, <2>1 DEF AgeInv, TypeOK
  <2>4. \A j \in Jobs : Informed(j)'
    BY <2>1 DEF Informed
  <2> QED BY <2>2, <2>3, <2>4 DEF AgeInv
<1>3. CASE Die
  <2>1. /\ day' = day /\ row' = row /\ born' = born
        /\ \A j \in Jobs : pc'[j] # "creating"
    BY <1>3 DEF Die, rowVars, JobInv, TypeOK
  <2>2. Created' = Created /\ RetentionExact'
    BY <2>1 DEF RetentionExact, AgeInv, Created
  <2>3. \A j \in Jobs : Informed(j)'
    BY <2>1 DEF Informed
  <2> QED BY <2>1, <2>2, <2>3 DEF AgeInv
<1>4. CASE Boot
  BY <1>1, <1>4, AgeUntouched DEF Boot, Stuck, taskVars, TypeOK
<1>5. ASSUME NEW j \in Jobs, Post(j) PROVE AgeInv'
  <2>1. /\ day' = day /\ row' = row /\ row[j] = "absent"
        /\ born'[j] = day /\ doomed'[j] = {k \in Present : Old(k)}
        /\ \A k \in Jobs \ {j} :
             born'[k] = born[k] /\ doomed'[k] = doomed[k] /\ pc'[k] = pc[k]
    BY <1>1, <1>5 DEF Post, JobInv, Agreement, TypeOK
  <2>2. Created' = Created /\ Created \subseteq Jobs \ {j}
    BY <2>1 DEF Created
  <2>3. Present' = Present /\ Present \subseteq Created
    BY <2>1 DEF Present, Created
  <2>4. RetentionExact'
    BY <2>1, <2>2 DEF RetentionExact, AgeInv
  <2>5. \A k \in Jobs : born'[k] <= day'
    BY <1>1, <2>1 DEF AgeInv, TypeOK
  <2>6. \A k \in Created : Old(k)' = Old(k)
    BY <2>1, <2>2 DEF Old
  <2>7. ASSUME NEW k \in Jobs PROVE Informed(k)'
    <3>1. CASE k = j
      BY <2>1, <2>2, <2>3, <2>6, <3>1 DEF Informed
    <3>2. CASE k # j
      <4>1. Informed(k)
        BY DEF AgeInv
      <4> QED BY <2>1, <2>2, <2>3, <2>6, <3>2, <4>1 DEF Informed
    <3> QED BY <3>1, <3>2
  <2> QED BY <2>4, <2>5, <2>7 DEF AgeInv
<1>6. ASSUME NEW j \in Jobs, Create(j) PROVE AgeInv'
  <2>1. /\ day' = day /\ born' = born /\ pc[j] = "creating" /\ pc'[j] # "creating"
        /\ row[j] = "absent" /\ row'[j] = "pending"
        /\ \A k \in Jobs \ {j} :
             /\ row'[k] = IF k \in doomed[j] THEN "gone" ELSE row[k]
             /\ doomed'[k] = doomed[k] /\ pc'[k] = pc[k]
    BY <1>1, <1>6 DEF Create, JobInv, Agreement, TypeOK
  <2>2. \A k \in doomed[j] : k \in Created
    BY <1>1 DEF JobInv, Agreement, TypeOK, Created
  <2>3. Created' = Created \cup {j} /\ j \notin Created
    BY <2>1, <2>2 DEF Created
  <2>4. /\ born[j] = day
        /\ \A k \in Created : k \in doomed[j] => Old(k)
        /\ \A k \in Created : k \in Present /\ Old(k) => k \in doomed[j]
    BY <2>1 DEF AgeInv, Informed
  <2>5. \A k \in Jobs : born[k] \in Nat /\ day \in Nat /\ Retain \in Nat /\ born[k] <= day
    BY <1>1, DaysAssumption DEF TypeOK, AgeInv
  <2>6. ASSUME NEW k \in Created'
        PROVE  row'[k] = "gone" <=> \E i \in Created' : born[k] + Retain < born[i]
    <3>1. CASE k = j
      BY <2>1, <2>3, <2>4, <2>5, <3>1 DEF Created
    <3>2. CASE k \in Created
      <4>1. k \in Jobs /\ k # j
        BY <2>3, <3>2 DEF Created
      <4>2. row[k] = "gone" <=> \E i \in Created : born[k] + Retain < born[i]
        BY <3>2 DEF AgeInv, RetentionExact
      <4>3. row'[k] = "gone" <=> row[k] = "gone" \/ k \in doomed[j]
        BY <2>1, <4>1
      <4>4. Old(k) <=> born[k] + Retain < born[j]
        BY <2>4 DEF Old
      <4>5. row[k] # "gone" => k \in Present
        BY <1>1, <3>2, <4>1 DEF Present, Created, TypeOK
      <4> QED BY <2>3, <2>4, <3>2, <4>2, <4>3, <4>4, <4>5
    <3> QED BY <2>3, <3>1, <3>2
  <2>7. ASSUME NEW k \in Jobs PROVE Informed(k)'
    <3>1. SUFFICES ASSUME pc'[k] = "creating", NEW l \in Created'
                   PROVE  /\ born'[k] = day'
                          /\ l \in doomed'[k] => Old(l)'
                          /\ l \in Present' /\ Old(l)' => l \in doomed'[k]
      BY <2>3 DEF Informed
    <3>2. k # j /\ pc[k] = "creating" /\ doomed'[k] = doomed[k]
      BY <2>1, <3>1
    <3>3. born[k] = day /\ Informed(k)
      BY <3>2 DEF AgeInv, Informed
    <3>4. Old(l)' <=> Old(l)
      BY <2>1 DEF Old
    <3>5. CASE l = j
      <4>1. ~Old(l)
        BY <2>4, <2>5, <3>5, <2>1, <1>6 DEF Old
      <4>2. l \notin doomed[k]
        BY <1>1, <2>1, <3>5 DEF JobInv, Agreement
      <4> QED BY <2>1, <3>2, <3>3, <3>4, <4>1, <4>2
    <3>6. CASE l # j
      <4>1. l \in Created
        BY <2>3, <3>6
      <4>2. l \in Present' => l \in Present
        BY <2>1, <3>6, <4>1 DEF Present
      <4> QED BY <2>1, <3>2, <3>3, <3>4, <4>1, <4>2 DEF Informed
    <3> QED BY <3>5, <3>6
  <2> QED BY <2>1, <2>5, <2>6, <2>7 DEF AgeInv, RetentionExact
<1>7. ASSUME NEW j \in Jobs, CreateFails(j) PROVE AgeInv'
  <2>1. /\ day' = day /\ born' = born /\ row' = row /\ pc'[j] # "creating"
        /\ \A k \in Jobs \ {j} : doomed'[k] = doomed[k] /\ pc'[k] = pc[k]
    BY <1>1, <1>7 DEF CreateFails, rowVars, TypeOK
  <2>2. Created' = Created /\ Present' = Present /\ RetentionExact'
    BY <2>1 DEF RetentionExact, AgeInv, Created, Present
  <2>3. \A k \in Jobs : Informed(k)'
    BY <2>1, <2>2 DEF AgeInv, Informed, Old
  <2> QED BY <2>1, <2>2, <2>3 DEF AgeInv
<1>8. ASSUME NEW j \in Jobs, Launch(j) PROVE AgeInv'
  BY <1>1, <1>8, AgeUntouched DEF Launch, rowVars, TypeOK
<1>9. ASSUME NEW j \in Jobs, TaskStep(j) \/ Poll(j) PROVE AgeInv'
  <2>1. CASE Save(j)
    BY <1>1, <2>1, AgeUntouched DEF Save, After, Status, Present, TypeOK
  <2>2. CASE (TaskStep(j) /\ ~Save(j)) \/ Poll(j)
    <3>1. /\ day' = day /\ born' = born /\ row' = row /\ doomed' = doomed
          /\ \A k \in Jobs : pc'[k] = "creating" => pc[k] = "creating"
      BY <1>1, <2>2
         DEF TaskStep, Get, Disappeared, UpdateRaises, Vet, VetRaises, Node, File, Filed,
             Fail, Poll, After, Raised, rowVars, taskVars, TypeOK
    <3> QED BY <1>1, <3>1, AgeUntouched DEF TypeOK
  <2> QED BY <1>9, <2>1, <2>2
<1>10. CASE UNCHANGED vars
  BY <1>1, <1>10, AgeUntouched DEF vars, rowVars, taskVars, TypeOK
<1> QED BY <1>2, <1>3, <1>4, <1>5, <1>6, <1>7, <1>8, <1>9, <1>10 DEF Next, HandlerStep

\* A row is gone exactly when some job was created more than the retention
\* after it, whatever fails or is killed.
THEOREM RetentionExactHolds == SafeSpec => []RetentionExact
<1>1. SafeSpec => [](JobInv /\ AgeInv)
  BY InitJob, JobNext, InitAge, AgeNext, PTL DEF SafeSpec
<1>2. AgeInv => RetentionExact
  BY DEF AgeInv
<1> QED BY <1>1, <1>2, PTL

HIDE DEF Active, Final, Updates, Handling, Working, Escaped, Places, Unborn, Before, Behind

----------------------------------------------------------------------------
(* Positions in a list.                                                    *)

\* A position has fewer positions before it than a later one, and than there
\* are.
LEMMA Counts ==
  ASSUME NEW n \in Nat, NEW K \in SUBSET (1..n)
  PROVE  /\ IsFiniteSet(K) /\ Cardinality(K) \in Nat
         /\ \A i \in K : CountBefore(K, i) \in 0..(Cardinality(K) - 1)
         /\ \A i, j \in K : i < j => CountBefore(K, i) < CountBefore(K, j)
<1>1. IsFiniteSet(1..n) /\ \A i \in K : i \in Nat
  BY FS_Interval
<1>2. IsFiniteSet(K)
  BY <1>1, FS_Subset
<1>3. Cardinality(K) \in Nat
  BY <1>2, FS_CardinalityType
<1> DEFINE B(i) == {j \in K : j < i}
<1>4. ASSUME NEW i \in K, NEW T \in SUBSET K, i \in T, B(i) \subseteq T
      PROVE  Cardinality(B(i)) \in Nat /\ Cardinality(T) \in Nat /\ Cardinality(B(i)) < Cardinality(T)
  <2>1. IsFiniteSet(T) /\ IsFiniteSet(B(i))
    BY <1>2, FS_Subset
  <2>2. Cardinality(T) \in Nat /\ Cardinality(B(i)) \in Nat
    BY <2>1, FS_CardinalityType
  <2>3. i \notin B(i)
    OBVIOUS
  <2>4. Cardinality(B(i) \cup {i}) = Cardinality(B(i)) + 1
    <3> HIDE DEF B
    <3> QED
      BY <2>1, <2>3, FS_AddElement
  <2>5. B(i) \cup {i} \subseteq T
    BY <1>4
  <2>6. Cardinality(B(i) \cup {i}) <= Cardinality(T)
    <3> HIDE DEF B
    <3> QED
      BY <2>1, <2>5, FS_Subset
  <2> HIDE DEF B
  <2> QED
    BY <2>2, <2>4, <2>6
<1>5. \A i \in K : CountBefore(K, i) \in 0..(Cardinality(K) - 1)
  <2> TAKE i \in K
  <2>1. Cardinality(B(i)) \in Nat /\ Cardinality(B(i)) < Cardinality(K)
    <3>1. B(i) \subseteq K
      OBVIOUS
    <3> HIDE DEF B
    <3> QED
      BY <1>4, <3>1
  <2> QED
    BY <1>3, <2>1 DEF CountBefore
<1>6. ASSUME NEW i \in K, NEW j \in K, i < j
      PROVE  CountBefore(K, i) < CountBefore(K, j)
  <2>1. B(j) \in SUBSET K /\ i \in B(j) /\ B(i) \subseteq B(j)
    <3>1. ASSUME NEW k \in B(i)
          PROVE  k \in B(j)
      BY <1>1, <1>6, <3>1
    <3> QED
      BY <1>6, <3>1
  <2>2. Cardinality(B(i)) < Cardinality(B(j))
    <3> HIDE DEF B
    <3> QED
      BY <1>4, <2>1
  <2> QED
    BY <2>2 DEF CountBefore
<1> QED
  BY <1>2, <1>3, <1>5, <1>6

\* Nth lists the positions, each once, in their order.
LEMMA NthIs ==
  ASSUME NEW n \in Nat, NEW K \in SUBSET (1..n)
  PROVE  /\ \A m \in 1..Cardinality(K) : Nth(K, m) \in K
         /\ \A i \in K : \E m \in 1..Cardinality(K) : Nth(K, m) = i
         /\ \A l, m \in 1..Cardinality(K) : l < m => Nth(K, l) < Nth(K, m)
<1> DEFINE c == Cardinality(K)
<1>0. \A i \in K : i \in 1..n
  OBVIOUS
<1>1. /\ IsFiniteSet(K) /\ c \in Nat
      /\ \A i \in K : CountBefore(K, i) \in 0..(c - 1)
      /\ \A i, j \in K : i < j => CountBefore(K, i) < CountBefore(K, j)
  BY Counts
<1> HIDE DEF c
<1> DEFINE f == [i \in K |-> CountBefore(K, i) + 1]
<1>2. f \in Injection(K, 1..c)
  <2>1. f \in [K -> 1..c]
    BY <1>1
  <2>2. \A i, j \in K : f[i] = f[j] => i = j
    <3> SUFFICES ASSUME NEW i \in K, NEW j \in K, i # j
                 PROVE  f[i] # f[j]
      OBVIOUS
    <3>1. i < j \/ j < i
      BY <1>0
    <3> QED
      BY <1>1, <3>1
  <2> QED
    BY <2>1, <2>2 DEF Injection, IsInjective
<1>3. f \in Surjection(K, 1..c)
  <2>1. IsFiniteSet(1..c) /\ Cardinality(1..c) = c
    BY <1>1, FS_Interval
  <2> QED
    BY <1>2, <2>1, FS_Injection DEF c
<1>4. \A m \in 1..c : \E i \in K : CountBefore(K, i) = m - 1
  <2> TAKE m \in 1..c
  <2>1. PICK i \in K : f[i] = m
    BY <1>3 DEF Surjection
  <2> QED
    BY <1>1, <2>1
<1>5. \A m \in 1..c : Nth(K, m) \in K /\ CountBefore(K, Nth(K, m)) = m - 1
  BY <1>4 DEF Nth
<1>6. \A i, j \in K : CountBefore(K, i) = CountBefore(K, j) => i = j
  <2> SUFFICES ASSUME NEW i \in K, NEW j \in K, i # j
               PROVE  CountBefore(K, i) # CountBefore(K, j)
    OBVIOUS
  <2>1. i < j \/ j < i
    BY <1>0
  <2> QED
    BY <1>1, <2>1
<1>7. \A i \in K : \E m \in 1..c : Nth(K, m) = i
  <2> TAKE i \in K
  <2> DEFINE m == CountBefore(K, i) + 1
  <2>1. m \in 1..c /\ m - 1 = CountBefore(K, i)
    BY <1>1
  <2> QED
    BY <1>5, <1>6, <2>1
<1>8. ASSUME NEW l \in 1..c, NEW m \in 1..c, l < m
      PROVE  Nth(K, l) < Nth(K, m)
  <2>1. Nth(K, l) \in K /\ Nth(K, m) \in K
    BY <1>5
  <2>2. ~(Nth(K, m) < Nth(K, l)) /\ Nth(K, l) # Nth(K, m)
    <3>1. l - 1 < m - 1 /\ l - 1 \in Int /\ m - 1 \in Int
      BY <1>1, <1>8
    <3>2. CountBefore(K, Nth(K, l)) = l - 1 /\ CountBefore(K, Nth(K, m)) = m - 1
      BY <1>5
    <3>3. Nth(K, m) < Nth(K, l) => CountBefore(K, Nth(K, m)) < CountBefore(K, Nth(K, l))
      BY <1>1, <2>1
    <3> QED
      BY <3>1, <3>2, <3>3
  <2>3. Nth(K, l) \in 1..n /\ Nth(K, m) \in 1..n
    BY <1>0, <2>1
  <2> QED
    BY <2>2, <2>3
<1> QED
  BY <1>5, <1>7, <1>8 DEF c

\* Some positions have a first and a last one.
LEMMA Ends ==
  ASSUME NEW n \in Nat, NEW K \in SUBSET (1..n), K # {}
  PROVE  /\ Nth(K, 1) \in K /\ \A i \in K : Nth(K, 1) <= i
         /\ Nth(K, Cardinality(K)) \in K /\ \A i \in K : i <= Nth(K, Cardinality(K))
<1> DEFINE c == Cardinality(K)
<1>1. c \in Nat
  BY Counts
<1>2. /\ \A m \in 1..c : Nth(K, m) \in K
      /\ \A i \in K : \E m \in 1..c : Nth(K, m) = i
      /\ \A l, m \in 1..c : l < m => Nth(K, l) < Nth(K, m)
  BY NthIs
<1> HIDE DEF c
<1>3. ASSUME NEW i \in K
      PROVE  1 \in 1..c /\ c \in 1..c /\ Nth(K, 1) <= i /\ i <= Nth(K, c)
  <2>1. PICK m \in 1..c : Nth(K, m) = i
    BY <1>2
  <2>2. 1 \in 1..c /\ c \in 1..c
    BY <1>1
  <2>3. Nth(K, 1) \in 1..n /\ Nth(K, c) \in 1..n /\ i \in 1..n
    BY <1>2, <2>2
  <2>4. 1 < m => Nth(K, 1) < i
    BY <1>2, <2>1, <2>2
  <2>5. m < c => i < Nth(K, c)
    BY <1>2, <2>1, <2>2
  <2>6. (m = 1 \/ 1 < m) /\ (m = c \/ m < c)
    BY <1>1
  <2> QED
    BY <2>1, <2>2, <2>3, <2>4, <2>5, <2>6
<1> QED
  BY <1>2, <1>3 DEF c

\* The entries picked are those at the positions, as many as there are.
LEMMA PickedIs ==
  ASSUME NEW S, NEW list \in Seq(S), NEW K \in SUBSET DOMAIN list
  PROVE  /\ Picked(list, K) \in Seq(S)
         /\ Len(Picked(list, K)) = Cardinality(K)
         /\ Range(Picked(list, K)) = {list[i] : i \in K}
<1> DEFINE n == Len(list)
           c == Cardinality(K)
<1>1. n \in Nat /\ K \in SUBSET (1..n) /\ \A i \in 1..n : list[i] \in S
  OBVIOUS
<1> HIDE DEF n
<1>2. c \in Nat
  BY <1>1, Counts
<1>3. /\ \A m \in 1..c : Nth(K, m) \in K
      /\ \A i \in K : \E m \in 1..c : Nth(K, m) = i
  BY <1>1, NthIs
<1>4. Picked(list, K) = [m \in 1..c |-> list[Nth(K, m)]]
  BY DEF Picked
<1> HIDE DEF c
<1>5. \A m \in 1..c : list[Nth(K, m)] \in S
  BY <1>1, <1>3
<1>6. Picked(list, K) \in Seq(S) /\ Len(Picked(list, K)) = c /\ DOMAIN Picked(list, K) = 1..c
  BY <1>2, <1>4, <1>5
<1>7. Range(Picked(list, K)) = {list[i] : i \in K}
  BY <1>3, <1>4, <1>6 DEF Range
<1> QED
  BY <1>6, <1>7 DEF c

\* A concatenation has the entries of both.
LEMMA Concat ==
  ASSUME NEW S, NEW a \in Seq(S), NEW b \in Seq(S)
  PROVE  /\ a \o b \in Seq(S) /\ Len(a \o b) = Len(a) + Len(b)
         /\ Range(a \o b) = Range(a) \cup Range(b)
<1>0. a \o b \in Seq(S) /\ Len(a \o b) = Len(a) + Len(b)
  OBVIOUS
<1> DEFINE m == Len(a)
           n == Len(b)
           ab == a \o b
<1>1. m \in Nat /\ n \in Nat /\ DOMAIN a = 1..m /\ DOMAIN b = 1..n /\ DOMAIN ab = 1..(m + n)
  OBVIOUS
<1>2. \A i \in 1..(m + n) : ab[i] = IF i <= m THEN a[i] ELSE b[i - m]
  OBVIOUS
<1> HIDE DEF m, n, ab
<1>3. \A i \in 1..(m + n) : (i <= m => i \in 1..m) /\ (i > m => i - m \in 1..n)
  BY <1>1
<1>4. \A i \in 1..m : i \in 1..(m + n) /\ ab[i] = a[i]
  BY <1>1, <1>2
<1>5. \A i \in 1..n : i + m \in 1..(m + n) /\ ab[i + m] = b[i]
  BY <1>1, <1>2
<1>6. Range(ab) \subseteq Range(a) \cup Range(b)
  BY <1>1, <1>2, <1>3 DEF Range
<1>7. Range(a) \subseteq Range(ab)
  BY <1>1, <1>4 DEF Range
<1>8. Range(b) \subseteq Range(ab)
  <2> SUFFICES ASSUME NEW i \in 1..n
               PROVE  \E j \in DOMAIN ab : ab[j] = b[i]
    BY <1>1 DEF Range
  <2> QED
    BY <1>1, <1>5
<1> QED
  BY <1>0, <1>6, <1>7, <1>8 DEF ab

----------------------------------------------------------------------------
(* Merging.                                                                *)

\* A finding of the checks has its type.
LEMMA InstanceIs ==
  ASSUME NEW f \in Instances
  PROVE  /\ f.check \in Checks /\ f.page \in Pages \cup {NoPage}
         /\ f.severity \in Severities /\ f.confidence \in Confidences
<1>1. PICK c \in Checks, p \in Pages \cup {NoPage}, spot \in DOMAIN Value,
           s \in Severities, k \in Confidences : f = Instance(c, p, spot, s, k)
  BY DEF Instances
<1>2. f.check = c /\ f.page = p /\ f.severity = s /\ f.confidence = k
  BY <1>1 DEF Instance, Finding
<1> QED
  BY <1>2

\* A finding that a check reports on a page is one.
LEMMA InstanceTyped ==
  ASSUME NEW c \in Checks, NEW p \in Pages \cup {NoPage}, NEW spot \in DOMAIN Value,
         NEW s \in Severities, NEW k \in Confidences
  PROVE  Instance(c, p, spot, s, k) \in Instances
BY DEF Instances

\* A merged finding keeps the judgement of its first, at the place of the
\* pattern.
LEMMA MergedIs ==
  ASSUME NEW list, NEW i
  PROVE  LET m == AggregateGroup(list, i)
         IN  /\ m.check = list[i].check /\ m.severity = list[i].severity
             /\ m.confidence = list[i].confidence
             /\ m.page = NoPage /\ m.location = Place(list, i)
BY DEF AggregateGroup, Finding

\* The first of a group stands for it.
LEMMA FirstOf ==
  ASSUME NEW list \in Seq(Instances), NEW i \in DOMAIN list, Merged(list, i)
  PROVE  \E j \in Firsts(list) : /\ list[j].check = list[i].check
                                 /\ Place(list, j) = Place(list, i)
<1> DEFINE n == Len(list)
           G == Group(list, i)
           j == Nth(G, 1)
<1>1. n \in Nat /\ DOMAIN list = 1..n /\ i \in G /\ G \in SUBSET (1..n)
  BY DEF Group, OfCheck
<1>2. j \in G /\ \A k \in G : j <= k
  <2> HIDE DEF n, G
  <2> QED
    BY <1>1, Ends
<1>3. j \in DOMAIN list /\ list[j].check = list[i].check
  BY <1>1, <1>2 DEF Group, OfCheck
<1>4. Strategy[list[i].check] # "check" => ValueOf(list[j]) = ValueOf(list[i])
  BY <1>2 DEF Group
<1> HIDE DEF j
<1>5. Group(list, j) = G
  BY <1>3, <1>4 DEF Group
<1>6. Merged(list, j)
  <2>1. Cardinality(Group(list, j)) = Cardinality(Group(list, i))
    BY <1>5
  <2> QED
    BY <2>1, <1>3, <1>4 DEF Merged
<1>7. Place(list, j) = Place(list, i)
  <2> SUFFICES ASSUME Strategy[list[i].check] # "check"
               PROVE  ValueOf(list[j]) = ValueOf(list[i])
    BY <1>3 DEF Place
  <2> QED
    BY <1>4
<1> QED
  BY <1>2, <1>3, <1>5, <1>6, <1>7 DEF Firsts

\* The merged list: the findings that stay, and one for every pattern.
LEMMA AggregateIs ==
  ASSUME NEW list \in Seq(Instances)
  PROVE  LET P == {AggregateGroup(list, i) : i \in Firsts(list)}
         IN  /\ Aggregate(list) \in Seq(Instances \cup P)
             /\ Range(Aggregate(list)) = {list[i] : i \in Alone(list)} \cup P
<1> DEFINE P == {AggregateGroup(list, i) : i \in Firsts(list)}
           n == Len(list)
           c == Cardinality(Firsts(list))
           rest == Picked(list, Alone(list))
           T == Instances \cup P
<1>1. n \in Nat /\ DOMAIN list = 1..n
  OBVIOUS
<1>2. Alone(list) \in SUBSET DOMAIN list /\ Firsts(list) \in SUBSET (1..n)
  BY <1>1 DEF Alone, Firsts
<1>3. rest \in Seq(Instances) /\ Range(rest) = {list[i] : i \in Alone(list)}
  BY <1>2, PickedIs
<1>4. c \in Nat
  <2> HIDE DEF n
  <2> QED
    BY <1>1, <1>2, Counts
<1>5. /\ \A m \in 1..c : Nth(Firsts(list), m) \in Firsts(list)
      /\ \A i \in Firsts(list) : \E m \in 1..c : Nth(Firsts(list), m) = i
  <2> HIDE DEF n
  <2> QED
    BY <1>1, <1>2, NthIs
<1>6. Patterns(list) = [m \in 1..c |-> AggregateGroup(list, Nth(Firsts(list), m))]
  BY DEF Patterns
<1>7. \A m \in 1..c : AggregateGroup(list, Nth(Firsts(list), m)) \in P
  <2> HIDE DEF c
  <2> QED
    BY <1>5
<1> HIDE DEF c, n, rest
<1>8. Patterns(list) \in Seq(P) /\ DOMAIN Patterns(list) = 1..c
  <2> HIDE DEF P
  <2> QED
    BY <1>4, <1>6, <1>7
<1>9. Range(Patterns(list)) = P
  <2>1. ASSUME NEW m \in 1..c
        PROVE  Patterns(list)[m] \in P
    BY <1>6, <1>7
  <2>2. ASSUME NEW i \in Firsts(list)
        PROVE  \E m \in 1..c : Patterns(list)[m] = AggregateGroup(list, i)
    BY <1>5, <1>6
  <2> QED
    BY <1>8, <2>1, <2>2 DEF Range
<1> HIDE DEF P
<1>10. rest \in Seq(T) /\ Patterns(list) \in Seq(T)
  BY <1>3, <1>8
<1> HIDE DEF T
<1>11. rest \o Patterns(list) \in Seq(T)
  BY <1>10
<1>12. Range(rest \o Patterns(list)) = Range(rest) \cup Range(Patterns(list))
  BY <1>10, Concat
<1> QED
  BY <1>3, <1>9, <1>11, <1>12 DEF Aggregate, P, T, rest
\* What is merged has the judgement of a finding that was reported, and is
\* that finding or about the whole store.
LEMMA AggregateFrom ==
  ASSUME NEW list \in Seq(Instances), NEW f \in Range(Aggregate(list))
  PROVE  \E g \in Range(list) : /\ f.check = g.check /\ f.severity = g.severity
                                /\ f.confidence = g.confidence
                                /\ f = g \/ f.page = NoPage
<1> DEFINE P == {AggregateGroup(list, i) : i \in Firsts(list)}
<1>1. f \in {list[i] : i \in Alone(list)} \cup P
  BY AggregateIs
<1>2. CASE f \in {list[i] : i \in Alone(list)}
  BY <1>2 DEF Alone, Range
<1>3. CASE f \in P
  <2>1. PICK i \in Firsts(list) : f = AggregateGroup(list, i)
    BY <1>3
  <2>2. i \in DOMAIN list
    BY DEF Firsts
  <2>3. /\ f.check = list[i].check /\ f.severity = list[i].severity
        /\ f.confidence = list[i].confidence /\ f.page = NoPage
    BY <2>1, MergedIs
  <2> QED
    BY <2>2, <2>3 DEF Range
<1> QED
  BY <1>1, <1>2, <1>3

\* The judgement of a finding is one of those the report knows.
Judged(f) == f.check \in Checks /\ f.severity \in Severities /\ f.confidence \in Confidences

\* The merged list is a list of findings with their judgements.
LEMMA AggregateTyped ==
  ASSUME NEW list \in Seq(Instances)
  PROVE  /\ Aggregate(list) \in Seq(Range(Aggregate(list)))
         /\ \A f \in Range(Aggregate(list)) : Judged(f)
<1> DEFINE L == Aggregate(list)
<1>1. PICK T : L \in Seq(T)
  BY AggregateIs
<1>2. \A f \in Range(list) : f \in Instances
  BY DEF Range
<1> HIDE DEF L
<1>3. L \in Seq(Range(L))
  <2>1. Len(L) \in Nat /\ DOMAIN L = 1..Len(L) /\ L = [i \in 1..Len(L) |-> L[i]]
    BY <1>1
  <2>2. \A i \in 1..Len(L) : L[i] \in Range(L)
    BY <2>1 DEF Range
  <2> QED
    BY <2>1, <2>2
<1>4. ASSUME NEW f \in Range(L)
      PROVE  Judged(f)
  <2>1. PICK g \in Range(list) : /\ f.check = g.check /\ f.severity = g.severity
                                 /\ f.confidence = g.confidence
    BY AggregateFrom DEF L
  <2>2. g \in Instances
    BY <1>2
  <2> QED
    BY <2>1, <2>2, InstanceIs DEF Judged
<1> QED
  BY <1>3, <1>4 DEF L

\* Nothing is reported of a store only if nothing was found.
LEMMA AggregateEmpty ==
  ASSUME NEW list \in Seq(Instances), Aggregate(list) = <<>>
  PROVE  list = <<>>
<1>1. Range(Aggregate(list)) = {}
  BY DEF Range
<1>2. {list[i] : i \in Alone(list)} \cup {AggregateGroup(list, i) : i \in Firsts(list)} = {}
  BY <1>1, AggregateIs
<1>3. Alone(list) = {} /\ Firsts(list) = {}
  BY <1>2
<1>4. \A i \in DOMAIN list : FALSE
  BY <1>3, FirstOf DEF Alone
<1>5. Len(list) \in Nat /\ DOMAIN list = 1..Len(list)
  OBVIOUS
<1>6. ~(1 \in 1..Len(list))
  BY <1>4, <1>5
<1>7. Len(list) = 0
  BY <1>5, <1>6
<1> QED
  BY <1>7

----------------------------------------------------------------------------
(* The sections of a report.                                               *)

\* The sections that only the full view has.
Other(list) ==
  Picked(list, OfTier(list, "suspension")) \o Picked(list, OfTier(list, "listing"))
    \o Picked(list, OfTier(list, "quality"))

\* The suspension risks are those of the list, the other sections hold the
\* rest, and every finding is in one of them.
LEMMA Sections ==
  ASSUME NEW S, NEW list \in Seq(S), \A f \in S : f.check \in Checks
  PROVE  /\ Range(Picked(list, Due(list))) = {f \in Range(list) : Suspension(f)}
         /\ Range(Other(list)) = {f \in Range(list) : ~Suspension(f)}
         /\ Picked(list, Due(list)) \in Seq(S) /\ Other(list) \in Seq(S)
         /\ Len(Picked(list, Due(list))) + Len(Other(list)) = Len(list)
         /\ Len(Picked(list, Due(list))) + Cardinality(DOMAIN list \ Due(list)) = Len(list)
<1> DEFINE n == Len(list)
           D == Due(list)
           A == OfTier(list, "suspension")
           B == OfTier(list, "listing")
           C == OfTier(list, "quality")
<1>1. n \in Nat /\ DOMAIN list = 1..n /\ \A i \in 1..n : list[i] \in S
  OBVIOUS
<1>2. /\ D \in SUBSET (1..n) /\ A \in SUBSET (1..n) /\ B \in SUBSET (1..n) /\ C \in SUBSET (1..n)
      /\ A \cap B = {} /\ (A \cup B) \cap C = {}
  BY <1>1 DEF Due, OfTier
<1>3. A \cup B \cup C = (1..n) \ D
  <2>1. \A i \in 1..n : Tier[list[i].check] \in {"suspension", "listing", "quality"}
    BY <1>1, ReportAssumption
  <2> QED
    BY <1>1, <2>1 DEF OfTier
<1>4. /\ Picked(list, D) \in Seq(S) /\ Len(Picked(list, D)) = Cardinality(D)
      /\ Range(Picked(list, D)) = {list[i] : i \in D}
  BY <1>1, <1>2, PickedIs
<1> DEFINE a == Picked(list, A)
           b == Picked(list, B)
           c == Picked(list, C)
           d == Picked(list, D)
<1>5. /\ a \in Seq(S) /\ Len(a) = Cardinality(A) /\ Range(a) = {list[i] : i \in A}
      /\ b \in Seq(S) /\ Len(b) = Cardinality(B) /\ Range(b) = {list[i] : i \in B}
      /\ c \in Seq(S) /\ Len(c) = Cardinality(C) /\ Range(c) = {list[i] : i \in C}
  <2> HIDE DEF A, B, C
  <2>1. A \in SUBSET DOMAIN list /\ B \in SUBSET DOMAIN list /\ C \in SUBSET DOMAIN list
    BY <1>1, <1>2
  <2>2. a \in Seq(S) /\ Len(a) = Cardinality(A) /\ Range(a) = {list[i] : i \in A}
    BY <2>1, PickedIs
  <2>3. b \in Seq(S) /\ Len(b) = Cardinality(B) /\ Range(b) = {list[i] : i \in B}
    BY <2>1, PickedIs
  <2>4. c \in Seq(S) /\ Len(c) = Cardinality(C) /\ Range(c) = {list[i] : i \in C}
    BY <2>1, PickedIs
  <2> QED
    BY <2>2, <2>3, <2>4
<1>6. Other(list) = a \o b \o c
  BY DEF Other
<1>7. {list[i] : i \in D} = {f \in Range(list) : Suspension(f)}
  BY DEF Due, Range
<1>8. {list[i] : i \in (1..n) \ D} = {f \in Range(list) : ~Suspension(f)}
  BY <1>1 DEF Due, Range
<1> HIDE DEF n, a, b, c, d, A, B, C, D
<1>9. a \o b \in Seq(S) /\ Len(a \o b) = Len(a) + Len(b) /\ Range(a \o b) = Range(a) \cup Range(b)
  <2>1. a \in Seq(S) /\ b \in Seq(S)
    BY <1>5
  <2> QED
    BY <2>1, Concat
<1> DEFINE ab == a \o b
<1>9a. ab \in Seq(S) /\ c \in Seq(S)
  BY <1>5, <1>9
<1> HIDE DEF ab
<1>10. /\ ab \o c \in Seq(S) /\ Len(ab \o c) = Len(ab) + Len(c)
       /\ Range(ab \o c) = Range(ab) \cup Range(c)
  BY <1>9a, Concat
<1>11. Range(Other(list)) = {list[i] : i \in A} \cup {list[i] : i \in B} \cup {list[i] : i \in C}
  BY <1>5, <1>6, <1>9, <1>10 DEF ab
<1>12. {list[i] : i \in A} \cup {list[i] : i \in B} \cup {list[i] : i \in C} = {list[i] : i \in (1..n) \ D}
  BY <1>3
<1>13. IsFiniteSet(1..n) /\ Cardinality(1..n) = n
  BY <1>1, FS_Interval
<1>14. /\ IsFiniteSet(A) /\ IsFiniteSet(B) /\ IsFiniteSet(C) /\ IsFiniteSet(D)
       /\ Cardinality(A) \in Nat /\ Cardinality(B) \in Nat /\ Cardinality(C) \in Nat
       /\ Cardinality(D) \in Nat
  BY <1>1, <1>2, Counts
<1>15. Cardinality((1..n) \ D) = n - Cardinality(D)
  <2>1. (1..n) \cap D = D
    BY <1>2
  <2>2. Cardinality((1..n) \ D) = Cardinality(1..n) - Cardinality((1..n) \cap D)
    BY <1>13, FS_Difference
  <2> QED
    BY <1>13, <2>1, <2>2
<1>16. Cardinality(A \cup B \cup C) = Cardinality(A) + Cardinality(B) + Cardinality(C)
  <2>1. Cardinality({}) = 0
    BY FS_EmptySet
  <2>2. /\ Cardinality(A \cup B) = Cardinality(A) + Cardinality(B) - Cardinality(A \cap B)
        /\ IsFiniteSet(A \cup B)
    BY <1>14, FS_Union
  <2> DEFINE AB == A \cup B
  <2>3. IsFiniteSet(AB) /\ AB \cap C = {} /\ A \cap B = {}
    BY <1>2, <2>2
  <2> HIDE DEF AB
  <2>4. Cardinality(AB \cup C) = Cardinality(AB) + Cardinality(C) - Cardinality(AB \cap C)
    BY <1>14, <2>3, FS_Union
  <2>5. Cardinality(A \cap B) = 0 /\ Cardinality(AB \cap C) = 0
    BY <2>1, <2>3
  <2>6. /\ Cardinality(AB) = Cardinality(A) + Cardinality(B)
        /\ Cardinality(A \cup B \cup C) = Cardinality(AB \cup C)
    BY <1>14, <2>2, <2>5 DEF AB
  <2> QED
    BY <1>14, <2>4, <2>5, <2>6
<1>17. Cardinality(A) + Cardinality(B) + Cardinality(C) = n - Cardinality(D)
  BY <1>3, <1>15, <1>16
<1>18. Other(list) \in Seq(S) /\ Len(Other(list)) = n - Cardinality(D)
  BY <1>5, <1>6, <1>9, <1>10, <1>17 DEF ab
<1>19. Range(Other(list)) = {f \in Range(list) : ~Suspension(f)}
  BY <1>8, <1>11, <1>12
<1>20. Range(Picked(list, D)) = {f \in Range(list) : Suspension(f)}
  BY <1>4, <1>7
<1>21. Cardinality(DOMAIN list \ D) = n - Cardinality(D)
  BY <1>1, <1>15
<1>22. Len(Picked(list, D)) = Cardinality(D) /\ Cardinality(D) \in Nat /\ n \in Nat
  BY <1>1, <1>4, <1>14
<1>23. /\ Len(Picked(list, D)) + Len(Other(list)) = n
       /\ Len(Picked(list, D)) + Cardinality(DOMAIN list \ D) = n
  BY <1>18, <1>21, <1>22
<1> QED
  BY <1>4, <1>18, <1>19, <1>20, <1>23 DEF n, D

----------------------------------------------------------------------------
(* The parts of a report agree.                                            *)

\* What is itemized in a view, and what it lists.
LEMMA ViewIs ==
  ASSUME NEW site, NEW findings \in Seq(Instances), NEW majorOnly \in BOOLEAN
  PROVE  LET list == Aggregate(findings)
             M == MarkdownReport(site, findings, majorOnly)
         IN  /\ Range(M.suspension) = {f \in Range(list) : Suspension(f)}
             /\ Range(M.suspension \o M.other) = Itemized(Range(list), majorOnly)
             /\ Len(M.suspension) + Len(M.other) + M.hidden = Len(list)
<1> DEFINE list == Aggregate(findings)
           M == MarkdownReport(site, findings, majorOnly)
           S == Range(list)
           R == {f \in S : Suspension(f)}
           d == Picked(list, Due(list))
           n == Len(list)
           h == Cardinality(DOMAIN list \ Due(list))
<1>1. list \in Seq(S) /\ \A f \in S : f.check \in Checks
  BY AggregateTyped DEF Judged
<1> HIDE DEF list
<1>2. n \in Nat
  BY <1>1
<1> HIDE DEF n, S
<1>3. /\ Range(d) = {f \in Range(list) : Suspension(f)}
      /\ Range(Other(list)) = {f \in Range(list) : ~Suspension(f)}
      /\ d \in Seq(S) /\ Other(list) \in Seq(S)
      /\ Len(d) + Len(Other(list)) = n
      /\ Len(d) + h = n
  BY <1>1, Sections DEF n
<1>4. /\ M.suspension = d
      /\ M.other = IF majorOnly THEN <<>> ELSE Other(list)
      /\ M.hidden = IF majorOnly THEN h ELSE 0
  BY DEF MarkdownReport, Other, list
<1>5. Len(d) \in Nat
  BY <1>3
<1> HIDE DEF M, h
<1>6. CASE majorOnly
  <2>1. M.other = <<>> /\ M.suspension = d /\ M.hidden = h
    BY <1>4, <1>6
  <2> HIDE DEF d
  <2>2. d \o <<>> = d /\ Len(<<>>) = 0
    BY <1>3
  <2>3. Itemized(Range(list), majorOnly) = {f \in Range(list) : Suspension(f)}
    BY <1>6 DEF Itemized
  <2>4. Range(M.suspension \o M.other) = Itemized(Range(list), majorOnly)
    BY <1>3, <2>1, <2>2, <2>3
  <2> QED
    BY <1>3, <1>5, <2>1, <2>2, <2>4 DEF M, n, list, S
<1>7. CASE ~majorOnly
  <2>1. M.other = Other(list) /\ M.suspension = d /\ M.hidden = 0
    BY <1>4, <1>7
  <2> HIDE DEF d
  <2>2. Range(d \o Other(list)) = Range(d) \cup Range(Other(list))
    BY <1>3, Concat
  <2>3. Itemized(Range(list), majorOnly) = Range(list)
    BY <1>7 DEF Itemized
  <2>4. Range(M.suspension \o M.other) = Itemized(Range(list), majorOnly)
    BY <1>3, <2>1, <2>2, <2>3
  <2>5. Len(d) + Len(Other(list)) + 0 = n
    BY <1>2, <1>3
  <2> QED
    BY <1>3, <2>1, <2>4, <2>5 DEF M, n, list, S
<1> QED
  BY <1>6, <1>7

\* PASS stands for a page that loaded and has nothing to show.
LEMMA PassIs ==
  ASSUME NEW condition \in Conditions, NEW shown
  PROVE  /\ PageStatus(condition, shown) = "PASS" => condition = "fine" /\ shown = {}
         /\ PageStatus("fine", {}) = "PASS"
BY DEF PageStatus, Conditions

\* A page that is passed was loaded, and no listed finding is about it.
LEMMA Passed ==
  ASSUME NEW site \in [Pages -> Conditions], NEW findings \in Seq(Instances),
         NEW majorOnly \in BOOLEAN, NEW p \in Pages \ Catalog,
         MarkdownReport(site, findings, majorOnly).overview[p] = "PASS"
  PROVE  LET M == MarkdownReport(site, findings, majorOnly)
         IN  site[p] = "fine" /\ \A f \in Range(M.suspension \o M.other) : f.page # p
<1> DEFINE list == Aggregate(findings)
           M == MarkdownReport(site, findings, majorOnly)
           shown == Itemized(OnPage(list, p), majorOnly)
<1>1. M.overview[p] = PageStatus(site[p], shown)
  BY DEF MarkdownReport, Overview
<1>2. site[p] = "fine" /\ shown = {}
  <2>1. site[p] \in Conditions
    OBVIOUS
  <2> HIDE DEF shown, M
  <2> QED
    BY <1>1, <2>1, PassIs DEF M
<1>3. \A f \in Itemized(Range(list), majorOnly) : f.page # p
  BY <1>2 DEF OnPage, Itemized
<1>4. Range(M.suspension \o M.other) = Itemized(Range(list), majorOnly)
  BY ViewIs
<1> QED
  BY <1>2, <1>3, <1>4

\* What has to be fixed is a listed suspension risk, and what it is about is
\* not passed.
LEMMA Fixed ==
  ASSUME NEW site \in [Pages -> Conditions], NEW findings \in Seq(Instances),
         NEW majorOnly \in BOOLEAN,
         NEW f \in MarkdownReport(site, findings, majorOnly).fixes
  PROVE  LET M == MarkdownReport(site, findings, majorOnly)
         IN  /\ f \in Range(Aggregate(findings)) /\ Suspension(f)
             /\ f \in Range(M.suspension)
             /\ f.page \in Pages \ Catalog => M.overview[f.page] # "PASS"
             /\ f.page \in Catalog =>
                  Section[f.page] \in DOMAIN M.catalog /\ M.catalog[Section[f.page]] # "PASS"
<1> DEFINE list == Aggregate(findings)
           M == MarkdownReport(site, findings, majorOnly)
<1>1. M.fixes = RequiredFixes(list) /\ M.catalog = CatalogStatus(site, list, majorOnly)
  BY DEF MarkdownReport
<1>2. f \in Range(list) /\ Suspension(f)
  BY <1>1 DEF RequiredFixes, Due, Range
<1>3. f \in Itemized(Range(list), majorOnly) /\ f \in Range(M.suspension)
  <2>1. Range(M.suspension) = {g \in Range(list) : Suspension(g)}
    BY ViewIs
  <2> QED
    BY <1>2, <2>1 DEF Itemized
<1>4. ASSUME f.page \in Pages \ Catalog, M.overview[f.page] = "PASS"
      PROVE  FALSE
  <2>1. f \in Range(M.suspension \o M.other)
    BY <1>3, ViewIs
  <2> QED
    BY <1>4, <2>1, Passed
<1>5. ASSUME f.page \in Catalog
      PROVE  Section[f.page] \in DOMAIN M.catalog /\ M.catalog[Section[f.page]] # "PASS"
  <2> DEFINE s == Section[f.page]
             shown == Itemized(InSection(list, s), majorOnly)
  <2>1. f \in shown /\ s \in Flagged(list, majorOnly)
    BY <1>2, <1>5 DEF Itemized, InSection, Flagged
  <2>2. s \in DOMAIN M.catalog /\ M.catalog[s] = PageStatus(site[Representative(s)], shown)
    BY <1>1, <2>1 DEF CatalogStatus
  <2>3. PageStatus(site[Representative(s)], shown) # "PASS"
    <3> HIDE DEF shown, s
    <3> QED
      BY <2>1 DEF PageStatus
  <2> QED
    BY <2>2, <2>3
<1> QED
  BY <1>2, <1>3, <1>4, <1>5

\* Every view of a report is one.
LEMMA ViewTyped ==
  ASSUME NEW site \in [Pages -> Conditions], NEW findings \in Seq(Instances),
         NEW majorOnly \in BOOLEAN
  PROVE  ViewTypeOK(MarkdownReport(site, findings, majorOnly))
<1> DEFINE list == Aggregate(findings)
           M == MarkdownReport(site, findings, majorOnly)
<1>1. \A condition, shown : PageStatus(condition, shown) \in Statuses
  BY DEF PageStatus, Statuses
<1>2. M.banner \in BOOLEAN /\ M.summary \in {"incomplete", "suspension", "lower", "clean"}
  BY DEF MarkdownReport, CrawlFailed, Summary
<1>3. M.hidden \in Nat
  <2>1. M.hidden = IF majorOnly THEN Cardinality(DOMAIN list \ Due(list)) ELSE 0
    BY DEF MarkdownReport
  <2>2. Len(list) \in Nat /\ DOMAIN list = 1..Len(list)
    BY AggregateTyped
  <2> HIDE DEF list, M
  <2> DEFINE rest == DOMAIN list \ Due(list)
  <2>3. rest \in SUBSET (1..Len(list))
    BY <2>2
  <2> HIDE DEF rest
  <2>4. Cardinality(rest) \in Nat
    BY <2>2, <2>3, Counts
  <2> QED
    BY <2>1, <2>4 DEF rest
<1>4. M.overview \in [Pages \ Catalog -> Statuses]
  BY <1>1 DEF MarkdownReport, Overview
<1>5. /\ DOMAIN M.catalog \subseteq {Section[p] : p \in Catalog}
      /\ \A s \in DOMAIN M.catalog : M.catalog[s] \in Statuses
  BY <1>1 DEF MarkdownReport, CatalogStatus, Flagged
<1>6. M.areas \in [Areas -> {"Pass", "At Risk", "Fail", "Cannot Verify"}]
  <2>1. \A a : AreaStatus(site, list, a) \in {"Pass", "At Risk", "Fail", "Cannot Verify"}
    BY DEF AreaStatus
  <2> QED
    BY <2>1 DEF MarkdownReport
<1>7. M.risk.rating \in {"N/A", "LOW", "MEDIUM", "HIGH"}
  BY DEF MarkdownReport, RiskScore, Rating
<1>8. ASSUME NEW f \in M.fixes
      PROVE  f.check \in Checks /\ f.fix # NoFix
  <2>1. f \in Range(list)
    BY Fixed
  <2>2. f.check \in Checks
    BY <2>1, AggregateTyped DEF Judged
  <2>3. f.fix # NoFix
    BY DEF MarkdownReport, RequiredFixes
  <2> QED
    BY <2>2, <2>3
<1> HIDE DEF M
<1> QED
  BY <1>2, <1>3, <1>4, <1>5, <1>6, <1>7, <1>8 DEF ViewTypeOK, M
\* Everything reported is in the merged list, itself or in the finding of its
\* pattern.
LEMMA Kept ==
  ASSUME NEW list \in Seq(Instances), NEW i \in DOMAIN list
  PROVE  \E m \in Range(Aggregate(list)) :
           \/ m = list[i]
           \/ /\ m.check = list[i].check /\ m.page = NoPage /\ m.location = Place(list, i)
              /\ Merged(list, i)
<1> DEFINE P == {AggregateGroup(list, j) : j \in Firsts(list)}
<1>1. Range(Aggregate(list)) = {list[j] : j \in Alone(list)} \cup P
  BY AggregateIs
<1>2. CASE ~Merged(list, i)
  <2>1. i \in Alone(list)
    BY <1>2 DEF Alone
  <2> QED
    BY <1>1, <2>1
<1>3. CASE Merged(list, i)
  <2>1. PICK j \in Firsts(list) : list[j].check = list[i].check /\ Place(list, j) = Place(list, i)
    BY <1>3, FirstOf
  <2> DEFINE m == AggregateGroup(list, j)
  <2>2. m.check = list[i].check /\ m.page = NoPage /\ m.location = Place(list, i)
    BY <2>1, MergedIs
  <2>3. m \in Range(Aggregate(list))
    BY <1>1
  <2> QED
    BY <1>3, <2>2, <2>3
<1> QED
  BY <1>2, <1>3

\* A report without findings scores 100.
LEMMA ScoreOfNothing == Score(<<>>) = 100
<1> DEFINE Is(g) == g = [n \in 0..0 |-> IF n = 0 THEN 200 ELSE g[n - 1] - Points(<<>>[n])]
           G == CHOOSE g : Is(g)
<1>1. Is([n \in 0..0 |-> 200])
  OBVIOUS
<1>2. Is(G)
  BY <1>1
<1>3. G[0] = 200
  BY <1>2
<1>4. Score(<<>>) = Rounded(G[0])
  BY DEF Score
<1>5. Rounded(200) = 100
  BY DEF Rounded
<1> QED
  BY <1>3, <1>4, <1>5

\* Every page that did not load is reported; and if none did, no suspension
\* risk is but what an address alone shows.
Grounded(site, list) ==
  /\ \A p \in Missed(site) : BrokenLink(site, p) \in Range(list)
  /\ CrawlFailed(site) => \A f \in Range(list) : f.check \in ByAddress \/ ~Suspension(f)

\* A report on a crawl that loaded nothing has no verdict.
LEMMA NoVerdict ==
  ASSUME NEW site \in [Pages -> Conditions], NEW findings \in Seq(Instances),
         NEW majorOnly \in BOOLEAN, Grounded(site, findings), CrawlFailed(site)
  PROVE  LET M == MarkdownReport(site, findings, majorOnly)
         IN  /\ M.risk.rating = "N/A" /\ M.summary = "incomplete"
             /\ \A a \in Areas : M.areas[a] = "Cannot Verify"
             /\ \A p \in DOMAIN M.overview : M.overview[p] # "PASS"
             /\ \A f \in M.fixes : f.check \in ByAddress
<1> DEFINE list == Aggregate(findings)
           M == MarkdownReport(site, findings, majorOnly)
<1>1. /\ M.risk = RiskScore(site, list) /\ M.summary = Summary(site, list)
      /\ \A a \in Areas : M.areas[a] = AreaStatus(site, list, a)
      /\ M.overview = Overview(site, list, majorOnly)
  BY DEF MarkdownReport
<1>2. M.risk.rating = "N/A" /\ M.summary = "incomplete"
  BY <1>1 DEF RiskScore, Summary
<1>3. \A a \in Areas : M.areas[a] = "Cannot Verify"
  BY <1>1 DEF AreaStatus
<1>4. DOMAIN M.overview = Pages \ Catalog
  BY <1>1 DEF Overview
<1>5. ASSUME NEW p \in Pages \ Catalog, M.overview[p] = "PASS"
      PROVE  FALSE
  <2>1. site[p] = "fine"
    BY <1>5, Passed
  <2> QED
    BY <2>1 DEF CrawlFailed, Fine
<1>6. ASSUME NEW f \in M.fixes
      PROVE  f.check \in ByAddress
  <2>1. f \in Range(list) /\ Suspension(f)
    BY Fixed
  <2>2. PICK g \in Range(findings) : /\ f.check = g.check /\ f.severity = g.severity
                                     /\ f.confidence = g.confidence
    BY <2>1, AggregateFrom
  <2>3. Suspension(g)
    BY <2>1, <2>2 DEF Suspension
  <2> QED
    BY <2>2, <2>3 DEF Grounded
<1> QED
  BY <1>2, <1>3, <1>4, <1>5, <1>6

\* A critical suspension risk rates every other store HIGH and is the next
\* thing to do.
LEMMA CriticalFirst ==
  ASSUME NEW site, NEW findings \in Seq(Instances), NEW majorOnly \in BOOLEAN, ~CrawlFailed(site),
         NEW f \in Range(MarkdownReport(site, findings, majorOnly).suspension),
         f.severity = "critical"
  PROVE  LET M == MarkdownReport(site, findings, majorOnly)
         IN  M.risk.rating = "HIGH" /\ M.assessment.next = {"critical"}
<1> DEFINE list == Aggregate(findings)
           M == MarkdownReport(site, findings, majorOnly)
           n == Len(list)
           K == {i \in Due(list) : list[i].severity = "critical"}
           next == {list[i].severity : i \in {j \in Due(list) : \A k \in Due(list) : ~Ahead(list, k, j)}}
<1>1. /\ M.risk = [score |-> Score(list), rating |-> Rating(list)]
      /\ M.assessment.next = next
  BY DEF MarkdownReport, RiskScore, Assessment
<1>2. f \in Range(list) /\ Suspension(f)
  BY ViewIs
<1>3. M.risk.rating = "HIGH"
  BY <1>1, <1>2 DEF Rating, Critical
<1>4. n \in Nat /\ DOMAIN list = 1..n /\ \A i \in 1..n : list[i].severity \in Severities
  <2>1. list \in Seq(Range(list)) /\ \A g \in Range(list) : g.severity \in Severities
    BY AggregateTyped DEF Judged
  <2> HIDE DEF list
  <2> QED
    BY <2>1
<1> HIDE DEF n, list, M
<1>5. K \in SUBSET (1..n) /\ K # {}
  <2>1. PICK i \in DOMAIN list : list[i] = f
    BY <1>2 DEF Range
  <2>2. i \in K
    BY <1>2, <2>1 DEF Due
  <2>3. \A j \in K : j \in 1..n
    BY <1>4 DEF Due
  <2> QED
    BY <2>2, <2>3
<1> DEFINE least == Nth(K, 1)
<1>6. least \in K /\ \A i \in K : least <= i
  <2> HIDE DEF K
  <2> QED
    BY <1>4, <1>5, Ends
<1> HIDE DEF least
<1>7. \A s \in Severities : ~Worse(s, "critical") /\ (s # "critical" => Worse("critical", s))
  BY DEF Worse, Rank, Severities
<1>8. \A i \in Due(list) : i \in 1..n /\ list[i].severity \in Severities
  BY <1>4 DEF Due
<1>9. least \in Due(list) /\ list[least].severity = "critical"
  BY <1>6
<1>10. \A k \in Due(list) : ~Ahead(list, k, least)
  <2> TAKE k \in Due(list)
  <2>1. ~Worse(list[k].severity, list[least].severity)
    BY <1>7, <1>8, <1>9
  <2>2. list[k].severity = list[least].severity => least <= k
    BY <1>6, <1>9
  <2>3. k \in 1..n /\ least \in 1..n
    BY <1>8, <1>9
  <2> QED
    BY <2>1, <2>2, <2>3 DEF Ahead
<1>11. ASSUME NEW j \in Due(list), \A k \in Due(list) : ~Ahead(list, k, j)
       PROVE  list[j].severity = "critical"
  <2>1. ~Ahead(list, least, j)
    BY <1>9, <1>11
  <2> QED
    BY <1>7, <1>8, <1>9, <2>1 DEF Ahead
<1>12. next = {"critical"}
  BY <1>9, <1>10, <1>11
<1> QED
  BY <1>1, <1>3, <1>12 DEF M

\* A store is called clean when all its pages were read and nothing was found.
LEMMA CleanMeansPassed ==
  ASSUME NEW site \in [Pages -> Conditions], NEW findings \in Seq(Instances),
         NEW majorOnly \in BOOLEAN, Grounded(site, findings),
         MarkdownReport(site, findings, majorOnly).summary = "clean"
  PROVE  LET M == MarkdownReport(site, findings, majorOnly)
         IN  /\ ~CrawlFailed(site)
             /\ \A p \in DOMAIN M.overview : M.overview[p] = "PASS"
             /\ M.risk.score = 100 /\ M.assessment.unread = 0
<1> DEFINE list == Aggregate(findings)
           M == MarkdownReport(site, findings, majorOnly)
<1>1. ~CrawlFailed(site) /\ list = <<>>
  BY DEF MarkdownReport, Summary
<1>2. findings = <<>>
  BY <1>1, AggregateEmpty
<1>3. \A p \in Pages : site[p] = "fine"
  <2>1. Missed(site) = {}
    BY <1>2 DEF Grounded, Range
  <2> QED
    BY <1>1, <2>1 DEF Missed, Conditions
<1>4. /\ M.overview = [p \in Pages \ Catalog |-> PageStatus(site[p], Itemized(OnPage(list, p), majorOnly))]
      /\ M.risk.score = Score(list)
      /\ M.assessment.unread = Cardinality({p \in Pages : site[p] = "unverified"})
  BY <1>1 DEF MarkdownReport, Overview, RiskScore, Assessment
<1> HIDE DEF M
<1>5. \A p \in DOMAIN M.overview : M.overview[p] = "PASS"
  <2> TAKE p \in DOMAIN M.overview
  <2>1. Itemized(OnPage(list, p), majorOnly) = {}
    BY <1>1 DEF Itemized, OnPage, Range
  <2>2. site[p] = "fine" /\ M.overview[p] = PageStatus(site[p], Itemized(OnPage(list, p), majorOnly))
    BY <1>3, <1>4
  <2> QED
    BY <2>1, <2>2, PassIs DEF Conditions
<1>6. M.assessment.unread = 0
  <2>1. {p \in Pages : site[p] = "unverified"} = {}
    BY <1>3
  <2> QED
    BY <1>4, <2>1, FS_EmptySet
<1>7. M.risk.score = 100
  BY <1>1, <1>4, ScoreOfNothing
<1> QED
  BY <1>1, <1>5, <1>6, <1>7 DEF M

----------------------------------------------------------------------------
(* The audit graph *)

\* An enumeration of a finite set has its members.
LEMMA Enumerated ==
  ASSUME NEW S, IsFiniteSet(S)
  PROVE  SetToSeq(S) \in Seq(S) /\ Range(SetToSeq(S)) = S
<1> DEFINE n == Cardinality(S)
           q == SetToSeq(S)
<1>1. n \in Nat /\ ExistsBijection(1..n, S)
  BY FS_CardinalityType
<1>2. \E f \in [1..n -> S] : IsInjective(f)
  BY <1>1 DEF ExistsBijection, Bijection, Injection, IsInjective
<1>3. q \in [1..n -> S] /\ IsInjective(q)
  BY <1>2 DEF SetToSeq
<1> HIDE DEF q
<1>4. IsFiniteSet(1..n) /\ Cardinality(1..n) = n
  BY <1>1, FS_Interval
<1>5. q \in Injection(1..n, S)
  BY <1>3 DEF Injection, IsInjective
<1>6. q \in Surjection(1..n, S)
  BY <1>4, <1>5, FS_Injection
<1>7. Range(q) = S
  BY <1>3, <1>6 DEF Surjection, Range
<1>8. q \in Seq(S)
  BY <1>1, <1>3
<1> QED
  BY <1>7, <1>8 DEF q

\* A finding is a list of one.
LEMMA Listed ==
  ASSUME NEW S, NEW f \in S
  PROVE  <<f>> \in Seq(S) /\ <<>> \in Seq(S)
OBVIOUS

\* The checks report findings, and those of a crawl that loaded nothing are
\* no suspension risks unless an address alone shows them.
Harmless(site, list) ==
  CrawlFailed(site) => \A f \in Range(list) : f.check \in ByAddress \/ ~Suspension(f)

\* What is reported when nothing could be loaded is a caution.
LEMMA IncompleteIs ==
  ASSUME NEW site
  PROVE  Incomplete(site) \in Seq(Instances) /\ Harmless(site, Incomplete(site))
<1> DEFINE f == Instance("crawl_incomplete", Home, NoValue, "high", "cannot_verify")
<1>1. f \in Instances
  <2>1. /\ "crawl_incomplete" \in Checks /\ Home \in Pages \cup {NoPage} /\ NoValue \in DOMAIN Value
        /\ "high" \in Severities /\ "cannot_verify" \in Confidences
    BY ReportAssumption DEF Severities, Confidences
  <2> QED
    BY <2>1, InstanceTyped
<1>2. ~Suspension(f)
  BY DEF Suspension, Instance, Finding
<1> HIDE DEF f
<1>3. Incomplete(site) = <<f>> \/ Incomplete(site) = <<>>
  BY DEF Incomplete, f
<1>4. Range(<<f>>) = {f} /\ Range(<<>>) = {}
  BY DEF Range
<1>5. Incomplete(site) \in Seq(Instances)
  BY <1>1, <1>3, Listed
<1> QED
  BY <1>2, <1>3, <1>4, <1>5 DEF Harmless

\* What the checks of content report after a crawl that loaded nothing is seen
\* in an address.
LEMMA SeenIs ==
  ASSUME NEW site, NEW list \in Seq(Instances), NEW K \in SUBSET DOMAIN list
  PROVE  Seen(site, list, K) \in Seq(Instances) /\ Harmless(site, Seen(site, list, K))
<1> DEFINE L == {i \in K : MayReport(site, list[i])}
<1>1. L \in SUBSET DOMAIN list
  OBVIOUS
<1>2. Picked(list, L) \in Seq(Instances) /\ Range(Picked(list, L)) = {list[i] : i \in L}
  BY <1>1, PickedIs
<1>3. ASSUME CrawlFailed(site), NEW i \in L
      PROVE  list[i].check \in ByAddress
  BY <1>3 DEF MayReport, CrawlFailed
<1> QED
  BY <1>2, <1>3 DEF Seen, Harmless

\* Every page that did not load is reported, and as no suspension risk.
LEMMA BrokenLinksAre ==
  ASSUME NEW site
  PROVE  /\ BrokenLinks(site) \in Seq(Instances) /\ Harmless(site, BrokenLinks(site))
         /\ \A p \in Missed(site) : BrokenLink(site, p) \in Range(BrokenLinks(site))
<1> DEFINE M == Missed(site)
           q == SetToSeq(M)
<1>1. IsFiniteSet(M) /\ M \subseteq Pages
  BY ReportAssumption, FS_Subset DEF Missed
<1>2. q \in Seq(M) /\ Range(q) = M
  BY <1>1, Enumerated
<1>3. BrokenLinks(site) = [n \in DOMAIN q |-> BrokenLink(site, q[n])]
  BY DEF BrokenLinks
<1> HIDE DEF q
<1>4. ASSUME NEW p \in M
      PROVE  BrokenLink(site, p) \in Instances /\ ~Suspension(BrokenLink(site, p))
  <2>1. /\ "broken_internal_link" \in Checks /\ p \in Pages \cup {NoPage} /\ NoValue \in DOMAIN Value
        /\ {"medium", "low"} \subseteq Severities /\ {"confirmed", "cannot_verify"} \subseteq Confidences
    BY <1>1, <1>4, ReportAssumption DEF Severities, Confidences
  <2>2. BrokenLink(site, p) \in Instances
    BY <2>1, InstanceTyped DEF BrokenLink
  <2> QED
    BY <2>2, TierAssumption DEF BrokenLink, Suspension, Instance, Finding
<1>5. \A n \in DOMAIN q : q[n] \in M
  BY <1>2
<1>6. DOMAIN q = 1..Len(q) /\ Len(q) \in Nat
  BY <1>2
<1>7. BrokenLinks(site) \in Seq(Instances)
  BY <1>3, <1>4, <1>5, <1>6
<1>8. \A f \in Range(BrokenLinks(site)) : ~Suspension(f)
  BY <1>3, <1>4, <1>5 DEF Range
<1>9. \A p \in M : BrokenLink(site, p) \in Range(BrokenLinks(site))
  BY <1>2, <1>3 DEF Range
<1> QED
  BY <1>7, <1>8, <1>9 DEF Harmless

\* A probe's answer is a list of findings.
LEMMA ProbesAre ==
  ASSUME NEW i \in Images, NEW answer \in ProbeResults(i)
  PROVE  answer \in Seq(Instances)
<1>1. /\ {"product_image_broken", "product_image_low_resolution"} \subseteq Checks
      /\ Shown[i] \in Pages \cup {NoPage} /\ i \in DOMAIN Value /\ NoValue \in DOMAIN Value
      /\ {"medium", "low"} \subseteq Severities /\ {"confirmed", "cannot_verify"} \subseteq Confidences
  BY ReportAssumption DEF Severities, Confidences
<1>2. /\ Instance("product_image_broken", Shown[i], i, "medium", "confirmed") \in Instances
      /\ Instance("product_image_broken", Shown[i], i, "low", "cannot_verify") \in Instances
      /\ Instance("product_image_low_resolution", Shown[i], i, "medium", "confirmed") \in Instances
  BY <1>1, InstanceTyped
<1> DEFINE a == Instance("product_image_broken", Shown[i], i, "medium", "confirmed")
           b == Instance("product_image_broken", Shown[i], i, "low", "cannot_verify")
           c == Instance("product_image_low_resolution", Shown[i], i, "medium", "confirmed")
<1>3. answer \in {<<>>, <<a>>, <<b>>, <<c>>}
  BY DEF ProbeResults, Loaded
<1> HIDE DEF a, b, c
<1>4. <<>> \in Seq(Instances) /\ <<a>> \in Seq(Instances) /\ <<b>> \in Seq(Instances)
      /\ <<c>> \in Seq(Instances)
  BY <1>2, Listed DEF a, b, c
<1> QED
  BY <1>3, <1>4

\* What is appended to the findings leaves them grounded.
LEMMA StillGrounded ==
  ASSUME NEW site, NEW a \in Seq(Instances), NEW b \in Seq(Instances),
         Grounded(site, a), Harmless(site, b)
  PROVE  a \o b \in Seq(Instances) /\ Grounded(site, a \o b)
<1>1. a \o b \in Seq(Instances) /\ Range(a \o b) = Range(a) \cup Range(b)
  BY Concat
<1> QED
  BY <1>1 DEF Grounded, Harmless

\* When the deterministic checks are done the findings are grounded.
LEMMA NowGrounded ==
  ASSUME NEW site, NEW K \in SUBSET DOMAIN Issues
  PROVE  LET all == Seen(site, Issues, K) \o Incomplete(site) \o BrokenLinks(site)
         IN  all \in Seq(Instances) /\ Grounded(site, all)
<1> DEFINE a == Seen(site, Issues, K)
           b == Incomplete(site)
           c == BrokenLinks(site)
<1>1. a \in Seq(Instances) /\ Harmless(site, a)
  BY ReportAssumption, SeenIs
<1>2. b \in Seq(Instances) /\ Harmless(site, b)
  BY IncompleteIs
<1>3. c \in Seq(Instances) /\ Harmless(site, c) /\ \A p \in Missed(site) : BrokenLink(site, p) \in Range(c)
  BY BrokenLinksAre
<1> HIDE DEF a, b, c
<1>4. a \o b \in Seq(Instances) /\ Range(a \o b) = Range(a) \cup Range(b)
  <2>1. a \in Seq(Instances) /\ b \in Seq(Instances)
    BY <1>1, <1>2
  <2> QED
    BY <2>1, Concat
<1> DEFINE ab == a \o b
<1> HIDE DEF ab
<1>5. ab \in Seq(Instances) /\ Range(ab) = Range(a) \cup Range(b)
  BY <1>4 DEF ab
<1>6. ab \o c \in Seq(Instances) /\ Range(ab \o c) = Range(ab) \cup Range(c)
  <2>1. ab \in Seq(Instances) /\ c \in Seq(Instances)
    BY <1>3, <1>5
  <2> QED
    BY <2>1, Concat
<1>7. Grounded(site, ab \o c)
  BY <1>1, <1>2, <1>3, <1>5, <1>6 DEF Grounded, Harmless
<1> QED
  BY <1>6, <1>7 DEF a, b, c, ab

\* Both views and the delta are those of the findings, which are grounded from
\* the deterministic checks on; only images of loaded pages are probed.
Compiled ==
  Published =>
    /\ report = Reports
    /\ delta = IF base = <<>> THEN NoReport ELSE Deltas(base[1])
AuditInv ==
  /\ AuditTypeOK
  /\ Compiled
  /\ node \in {"image_probes", "compile_report"} \/ Published => Grounded(pages, raw)
  /\ probing \subseteq {i \in Images : pages[Shown[i]] = "fine"}
  /\ node # "image_probes" => probing = {}

\* Two views are not the missing report.
LEMMA Written ==
  \A full, major : /\ [full |-> full, major |-> major] # <<>>
                   /\ DOMAIN [full |-> full, major |-> major] = Views
<1>1. DOMAIN <<>> = {}
  OBVIOUS
<1>2. ASSUME NEW full, NEW major
      PROVE  [full |-> full, major |-> major] # <<>>
  <2>1. "full" \in DOMAIN [full |-> full, major |-> major]
    OBVIOUS
  <2> QED
    BY <1>1, <2>1
<1>3. \A full, major : DOMAIN [full |-> full, major |-> major] = Views
  BY DEF Views
<1> QED
  BY <1>2, <1>3

\* It holds before the first audit.
LEMMA AuditInvInit == AuditInit => AuditInv
BY DEF AuditInit, AuditInv, AuditTypeOK, Compiled, Published, NoReport, Conditions

\* An image is probed only after a crawl that loaded its page.
LEMMA ProbedLoaded ==
  ASSUME AuditInv, NEW i \in probing
  PROVE  i \in Images /\ ~CrawlFailed(pages)
<1>1. i \in Images /\ pages[Shown[i]] = "fine"
  BY DEF AuditInv
<1>2. Shown[i] \in Pages
  BY <1>1, ReportAssumption
<1> QED
  BY <1>1, <1>2 DEF CrawlFailed, Fine

\* Every node of the graph keeps it.
LEMMA AuditInvStep == AuditInv /\ [AuditNext]_auditVars => AuditInv'
<1> SUFFICES ASSUME AuditInv, [AuditNext]_auditVars PROVE AuditInv'
  OBVIOUS
<1>0. /\ node \in {"idle", "deterministic_checks", "image_probes", "compile_report", "done", "failed"}
      /\ pages \in [Pages -> Conditions] /\ probing \subseteq Images /\ raw \in Seq(Instances)
      /\ previous \in Seq(Seq(Instances)) /\ Len(previous) <= 1
      /\ base \in Seq(Seq(Instances)) /\ Len(base) <= 1
      /\ (node = "done" <=> Published)
      /\ (Published => /\ previous = <<raw>> /\ DOMAIN report = Views
                       /\ \A v \in Views : ViewTypeOK(report[v]))
      /\ (delta # NoReport <=> base # <<>>)
      /\ (delta # NoReport => Published /\ DOMAIN delta = Views)
      /\ (node \in {"image_probes", "compile_report"} \/ Published => Grounded(pages, raw))
      /\ probing \subseteq {i \in Images : pages[Shown[i]] = "fine"}
      /\ (node # "image_probes" => probing = {})
  BY DEF AuditInv, AuditTypeOK
<1>1. CASE CrawlAndClassify
  <2>1. pages' \in [Pages -> Conditions]
    BY <1>1, ReportAssumption DEF CrawlAndClassify
  <2>2. raw' = <<>> /\ base' = <<>> /\ report' = NoReport /\ delta' = NoReport
        /\ node' = "deterministic_checks" /\ probing' = {} /\ previous' = previous
    BY <1>0, <1>1 DEF CrawlAndClassify
  <2> QED
    BY <1>0, <2>1, <2>2 DEF AuditInv, AuditTypeOK, Compiled, Published
<1>2. CASE DeterministicChecks
  <2>1. PICK K \in SUBSET DOMAIN Issues :
          raw' = Seen(pages, Issues, K) \o Incomplete(pages) \o BrokenLinks(pages)
    BY <1>2 DEF DeterministicChecks
  <2>2. raw' \in Seq(Instances) /\ Grounded(pages, raw')
    BY <2>1, NowGrounded
  <2>3. probing' = {i \in Images : pages[Shown[i]] = "fine"} /\ node' = "image_probes"
        /\ pages' = pages /\ previous' = previous /\ base' = base /\ report' = report
        /\ delta' = delta /\ report = NoReport
    BY <1>0, <1>2 DEF DeterministicChecks, Published
  <2> QED
    BY <1>0, <2>2, <2>3 DEF AuditInv, AuditTypeOK, Compiled, Published
<1>3. ASSUME NEW i \in Images, ProbeImage(i)
      PROVE  AuditInv'
  <2>1. PICK answer \in ProbeResults(i) : raw' = raw \o answer
    BY <1>3 DEF ProbeImage
  <2>2. i \in probing /\ probing' = probing \ {i} /\ node = "image_probes" /\ node' = node
        /\ pages' = pages /\ previous' = previous /\ base' = base /\ report' = report
        /\ delta' = delta /\ report = NoReport
    BY <1>0, <1>3 DEF ProbeImage, Published
  <2>3. answer \in Seq(Instances) /\ Harmless(pages, answer)
    BY <2>2, ProbesAre, ProbedLoaded DEF Harmless
  <2>4. raw' \in Seq(Instances) /\ Grounded(pages, raw')
    BY <1>0, <2>1, <2>2, <2>3, StillGrounded
  <2> QED
    BY <1>0, <2>2, <2>4 DEF AuditInv, AuditTypeOK, Compiled, Published
<1>4. CASE LlmGrading
  <2>1. PICK K \in SUBSET DOMAIN Graded : raw' = raw \o Seen(pages, Graded, K)
    BY <1>4 DEF LlmGrading
  <2>2. probing' = {} /\ node = "image_probes" /\ node' = "compile_report"
        /\ pages' = pages /\ previous' = previous /\ base' = base /\ report' = report
        /\ delta' = delta /\ report = NoReport
    BY <1>0, <1>4 DEF LlmGrading, Published
  <2>3. Seen(pages, Graded, K) \in Seq(Instances) /\ Harmless(pages, Seen(pages, Graded, K))
    BY ReportAssumption, SeenIs
  <2>4. raw' \in Seq(Instances) /\ Grounded(pages, raw')
    BY <1>0, <2>1, <2>2, <2>3, StillGrounded
  <2> QED
    BY <1>0, <2>2, <2>4 DEF AuditInv, AuditTypeOK, Compiled, Published
<1>5. CASE CompileReport
  <2>1. /\ report' = Reports
        /\ delta' = IF previous = <<>> THEN NoReport ELSE Deltas(previous[1])
        /\ base' = previous /\ previous' = <<raw>> /\ node = "compile_report" /\ node' = "done"
        /\ pages' = pages /\ probing' = probing /\ raw' = raw
    BY <1>5 DEF CompileReport
  <2>2. /\ report' # NoReport /\ DOMAIN report' = Views
        /\ (delta' # NoReport <=> base' # <<>>)
        /\ (delta' # NoReport => DOMAIN delta' = Views)
    BY <2>1, Written DEF NoReport, Reports, Deltas
  <2>3. <<raw>> \in Seq(Seq(Instances)) /\ Len(<<raw>>) = 1
    BY <1>0, Listed
  <2>4. \A v \in Views : ViewTypeOK(report'[v])
    <3>1. /\ report'["full"] = MarkdownReport(pages, raw, FALSE)
          /\ report'["major"] = MarkdownReport(pages, raw, TRUE)
      BY <2>1 DEF Reports
    <3>2. ViewTypeOK(report'["full"]) /\ ViewTypeOK(report'["major"])
      BY <1>0, <3>1, ViewTyped
    <3> QED
      BY <3>2 DEF Views
  <2>5. AuditTypeOK'
    BY <1>0, <2>1, <2>2, <2>3, <2>4 DEF AuditTypeOK, Published
  <2>6. Compiled'
    BY <2>1 DEF Compiled, Reports, Deltas
  <2> QED
    BY <1>0, <2>1, <2>5, <2>6 DEF AuditInv
<1>6. CASE Raise
  <2>1. node' = "failed" /\ probing' = {} /\ raw' = <<>> /\ pages' = pages /\ previous' = previous
        /\ base' = base /\ report' = report /\ delta' = delta /\ report = NoReport
    BY <1>0, <1>6 DEF Raise, Published
  <2> QED
    BY <1>0, <2>1 DEF AuditInv, AuditTypeOK, Compiled, Published
<1>7. CASE UNCHANGED auditVars
  <2>1. /\ node' = node /\ pages' = pages /\ probing' = probing /\ raw' = raw
        /\ previous' = previous /\ base' = base /\ report' = report /\ delta' = delta
    BY <1>7 DEF auditVars
  <2>2. AuditTypeOK'
    BY <2>1 DEF AuditInv, AuditTypeOK, Published
  <2>3. Compiled'
    BY <2>1 DEF AuditInv, Compiled, Published, Reports, Deltas
  <2> QED
    BY <2>1, <2>2, <2>3, <1>0 DEF AuditInv, Published
<1> QED
  BY <1>1, <1>2, <1>3, <1>4, <1>5, <1>6, <1>7 DEF AuditNext

\* In every state of every sequence of audits.
LEMMA AuditInvariant == AuditSpec => []AuditInv
<1>1. AuditInit => AuditInv
  BY AuditInvInit
<1>2. AuditInv /\ [AuditNext]_auditVars => AuditInv'
  BY AuditInvStep
<1> QED
  BY <1>1, <1>2, PTL DEF AuditSpec

\* A view of a published report is that of its findings.
LEMMA Viewed ==
  ASSUME AuditInv, Published, NEW v \in Views
  PROVE  /\ raw \in Seq(Instances) /\ pages \in [Pages -> Conditions] /\ Grounded(pages, raw)
         /\ report["full"] = MarkdownReport(pages, raw, FALSE)
         /\ report["major"] = MarkdownReport(pages, raw, TRUE)
         /\ \E majorOnly \in BOOLEAN : report[v] = MarkdownReport(pages, raw, majorOnly)
<1>1. raw \in Seq(Instances) /\ pages \in [Pages -> Conditions] /\ Grounded(pages, raw)
  BY DEF AuditInv, AuditTypeOK
<1>2. report = [full |-> MarkdownReport(pages, raw, FALSE), major |-> MarkdownReport(pages, raw, TRUE)]
  BY DEF AuditInv, Compiled, Reports
<1>3. /\ report["full"] = MarkdownReport(pages, raw, FALSE)
      /\ report["major"] = MarkdownReport(pages, raw, TRUE)
  BY <1>2
<1>4. \E majorOnly \in BOOLEAN : report[v] = MarkdownReport(pages, raw, majorOnly)
  <2>1. CASE v = "full"
    BY <1>3, <2>1
  <2>2. CASE v = "major"
    BY <1>3, <2>2
  <2> QED
    BY <2>1, <2>2 DEF Views
<1> QED
  BY <1>1, <1>3, <1>4

\* Every variable holds what its node leaves in it (app/graph.py,
\* _finalize_full_audit), for every store and every number of audits: a report
\* has both views exactly when the audit is done, and then its findings are
\* stored as they were reported.
THEOREM AuditTypeCorrect == AuditSpec => []AuditTypeOK
<1>1. AuditInv => AuditTypeOK
  BY DEF AuditInv
<1> QED
  BY <1>1, AuditInvariant, PTL

\* Merging loses nothing (finding_aggregation.py): every finding of the checks
\* is in the full report or in the merged finding of its pattern, and what a
\* view hides it counts.
THEOREM NothingDroppedHolds == AuditSpec => []NothingDropped
<1>1. ASSUME AuditInv, Published
      PROVE  NothingDropped
  <2>0. "full" \in Views
    BY DEF Views
  <2>1. raw \in Seq(Instances) /\ report["full"] = MarkdownReport(pages, raw, FALSE)
    BY <1>1, <2>0, Viewed
  <2>2. Range(report["full"].suspension \o report["full"].other) = Range(Aggregate(raw))
    <3>1. Range(report["full"].suspension \o report["full"].other) = Itemized(Range(Aggregate(raw)), FALSE)
      BY <2>1, ViewIs
    <3> QED
      BY <3>1 DEF Itemized
  <2>3. ASSUME NEW i \in DOMAIN raw
        PROVE  \E m \in Range(Aggregate(raw)) : Stands(m, i)
    BY <2>1, Kept DEF Stands
  <2>4. ASSUME NEW v \in Views
        PROVE  Len(report[v].suspension) + Len(report[v].other) + report[v].hidden = Len(Aggregate(raw))
    <3>1. PICK majorOnly \in BOOLEAN : report[v] = MarkdownReport(pages, raw, majorOnly)
      BY <1>1, Viewed
    <3> QED
      BY <2>1, <3>1, ViewIs
  <2> QED
    BY <2>2, <2>3, <2>4 DEF NothingDropped
<1>2. AuditInv => NothingDropped
  BY <1>1 DEF NothingDropped
<1> QED
  BY <1>2, AuditInvariant, PTL

\* What the report wants fixed it also shows as an issue, in both views, and it
\* does not pass the page it is about (generate_markdown_report).
THEOREM FixesAreIssuesHolds == AuditSpec => []FixesAreIssues
<1>1. ASSUME AuditInv, Published, NEW v \in Views, NEW f \in report[v].fixes
      PROVE  /\ f \in Range(report["full"].suspension) \cap Range(report["major"].suspension)
             /\ f.page \in Pages \ Catalog => report[v].overview[f.page] # "PASS"
             /\ f.page \in Catalog =>
                  Section[f.page] \in DOMAIN report[v].catalog /\ report[v].catalog[Section[f.page]] # "PASS"
  <2>1. /\ raw \in Seq(Instances) /\ pages \in [Pages -> Conditions]
        /\ report["full"] = MarkdownReport(pages, raw, FALSE)
        /\ report["major"] = MarkdownReport(pages, raw, TRUE)
    BY <1>1, Viewed
  <2>2. PICK majorOnly \in BOOLEAN : report[v] = MarkdownReport(pages, raw, majorOnly)
    BY <1>1, Viewed
  <2>3. f \in MarkdownReport(pages, raw, majorOnly).fixes
    BY <1>1, <2>2
  <2>4. LET M == MarkdownReport(pages, raw, majorOnly)
        IN  /\ f \in Range(Aggregate(raw)) /\ Suspension(f)
            /\ f.page \in Pages \ Catalog => M.overview[f.page] # "PASS"
            /\ f.page \in Catalog =>
                 Section[f.page] \in DOMAIN M.catalog /\ M.catalog[Section[f.page]] # "PASS"
    BY <2>1, <2>3, Fixed
  <2>5. \A b \in BOOLEAN : Range(MarkdownReport(pages, raw, b).suspension)
                             = {g \in Range(Aggregate(raw)) : Suspension(g)}
    BY <2>1, ViewIs
  <2>6. f \in Range(report["full"].suspension) \cap Range(report["major"].suspension)
    BY <2>1, <2>4, <2>5
  <2> QED
    BY <2>2, <2>4, <2>6
<1>2. AuditInv => FixesAreIssues
  BY <1>1 DEF FixesAreIssues
<1> QED
  BY <1>2, AuditInvariant, PTL

\* PASS stands only for a page that was loaded and has no finding of the view
\* (_page_status).
THEOREM PassMeansCheckedHolds == AuditSpec => []PassMeansChecked
<1>1. ASSUME AuditInv, Published, NEW v \in Views, NEW p \in Pages \ Catalog,
             report[v].overview[p] = "PASS"
      PROVE  /\ pages[p] = "fine"
             /\ \A f \in Range(report[v].suspension \o report[v].other) : f.page # p
  <2>1. raw \in Seq(Instances) /\ pages \in [Pages -> Conditions]
    BY <1>1, Viewed
  <2>2. PICK majorOnly \in BOOLEAN : report[v] = MarkdownReport(pages, raw, majorOnly)
    BY <1>1, Viewed
  <2>3. MarkdownReport(pages, raw, majorOnly).overview[p] = "PASS"
    BY <1>1, <2>2
  <2> QED
    BY <2>1, <2>2, <2>3, Passed
<1>2. AuditInv => PassMeansChecked
  BY <1>1 DEF PassMeansChecked
<1> QED
  BY <1>2, AuditInvariant, PTL

\* A crawl that loaded nothing gives no verdict; every other rates a critical
\* suspension risk HIGH and is clean only with all pages passed
\* (compute_risk_score, _build_policy_matrix, _prose_executive_summary).
THEOREM NoVerdictWithoutCrawlHolds == AuditSpec => []NoVerdictWithoutCrawl
<1>1. ASSUME AuditInv, Published, NEW v \in Views
      PROVE  /\ report[v].banner =>
                  /\ report[v].risk.rating = "N/A"
                  /\ \A a \in Areas : report[v].areas[a] = "Cannot Verify"
                  /\ \A p \in DOMAIN report[v].overview : report[v].overview[p] # "PASS"
                  /\ \A f \in report[v].fixes : f.check \in ByAddress
             /\ \A f \in Range(report[v].suspension) :
                  f.severity = "critical" /\ ~report[v].banner =>
                    report[v].risk.rating = "HIGH" /\ report[v].assessment.next = {"critical"}
             /\ report[v].summary = "clean" =>
                  /\ ~report[v].banner
                  /\ \A p \in DOMAIN report[v].overview : report[v].overview[p] = "PASS"
                  /\ report[v].risk.score = 100 /\ report[v].assessment.unread = 0
  <2>1. raw \in Seq(Instances) /\ pages \in [Pages -> Conditions] /\ Grounded(pages, raw)
    BY <1>1, Viewed
  <2>2. PICK majorOnly \in BOOLEAN : report[v] = MarkdownReport(pages, raw, majorOnly)
    BY <1>1, Viewed
  <2> DEFINE M == MarkdownReport(pages, raw, majorOnly)
  <2>3. M.banner = CrawlFailed(pages)
    BY DEF MarkdownReport
  <2>4. CrawlFailed(pages) =>
          /\ M.risk.rating = "N/A"
          /\ \A a \in Areas : M.areas[a] = "Cannot Verify"
          /\ \A p \in DOMAIN M.overview : M.overview[p] # "PASS"
          /\ \A f \in M.fixes : f.check \in ByAddress
    BY <2>1, NoVerdict
  <2>5. ASSUME NEW f \in Range(M.suspension), f.severity = "critical", ~CrawlFailed(pages)
        PROVE  M.risk.rating = "HIGH" /\ M.assessment.next = {"critical"}
    BY <2>1, <2>5, CriticalFirst
  <2>6. M.summary = "clean" =>
          /\ ~CrawlFailed(pages)
          /\ \A p \in DOMAIN M.overview : M.overview[p] = "PASS"
          /\ M.risk.score = 100 /\ M.assessment.unread = 0
    BY <2>1, CleanMeansPassed
  <2> HIDE DEF M
  <2> QED
    BY <2>2, <2>3, <2>4, <2>5, <2>6 DEF M
<1>2. AuditInv => NoVerdictWithoutCrawl
  BY <1>1 DEF NoVerdictWithoutCrawl
<1> QED
  BY <1>2, AuditInvariant, PTL

----------------------------------------------------------------------------
(* The delta report *)

\* How many entries of a list are in a set.
HowMany(list, S) == Cardinality({i \in DOMAIN list : list[i] \in S})

\* Lists that are reordered have as many entries of any kind.
LEMMA SameNumber ==
  ASSUME NEW T, NEW a \in Seq(T), NEW b \in Seq(T), Reordered(a, b), NEW S
  PROVE  HowMany(a, S) = HowMany(b, S)
<1> DEFINE X(f) == {i \in DOMAIN a : a[i] = f}
           Y(f) == {j \in DOMAIN b : b[j] = f}
           R == Range(a) \cup Range(b)
           A == {i \in DOMAIN a : a[i] \in S}
           B == {j \in DOMAIN b : b[j] \in S}
           H == [f \in R |-> CHOOSE h : h \in Bijection(X(f), Y(f))]
           G == [i \in A |-> H[a[i]][i]]
<1>1. IsFiniteSet(DOMAIN a) /\ IsFiniteSet(DOMAIN b)
  BY FS_Interval
<1>2. ASSUME NEW f \in R
      PROVE  H[f] \in Bijection(X(f), Y(f))
  <2>1. IsFiniteSet(X(f)) /\ IsFiniteSet(Y(f))
    BY <1>1, FS_Subset
  <2>2. Cardinality(X(f)) = Cardinality(Y(f))
    BY <1>2 DEF Reordered, Times
  <2>3. ExistsBijection(X(f), Y(f))
    BY <2>1, <2>2, FS_SameCardinalityBij
  <2>4. \E h : h \in Bijection(X(f), Y(f))
    BY <2>3 DEF ExistsBijection
  <2>5. H[f] = CHOOSE h : h \in Bijection(X(f), Y(f))
    BY <1>2
  <2> QED
    BY <2>4, <2>5
<1> HIDE DEF H
<1>3. ASSUME NEW f \in R
      PROVE  /\ \A i \in X(f) : H[f][i] \in Y(f)
             /\ \A i, j \in X(f) : H[f][i] = H[f][j] => i = j
             /\ \A j \in Y(f) : \E i \in X(f) : H[f][i] = j
  <2>1. H[f] \in Bijection(X(f), Y(f))
    BY <1>2
  <2>2. H[f] \in [X(f) -> Y(f)]
    BY <2>1 DEF Bijection, Injection
  <2>3. \A i, j \in X(f) : H[f][i] = H[f][j] => i = j
    BY <2>1, <2>2 DEF Bijection, Injection, IsInjective
  <2>4. \A j \in Y(f) : \E i \in X(f) : H[f][i] = j
    BY <2>1 DEF Bijection, Surjection
  <2> QED
    BY <2>2, <2>3, <2>4
<1>4. \A i \in A : a[i] \in R /\ i \in X(a[i])
  BY DEF Range
<1>5. \A j \in B : b[j] \in R /\ j \in Y(b[j])
  BY DEF Range
<1>6. \A i \in A : G[i] = H[a[i]][i]
  OBVIOUS
<1>7. ASSUME NEW i \in A
      PROVE  G[i] \in B /\ b[G[i]] = a[i]
  <2>1. H[a[i]][i] \in Y(a[i])
    BY <1>3, <1>4
  <2> QED
    BY <1>6, <2>1
<1>8. ASSUME NEW i \in A, NEW j \in A, G[i] = G[j]
      PROVE  i = j
  <2>1. a[i] = a[j]
    BY <1>7, <1>8
  <2>2. i \in X(a[i]) /\ j \in X(a[i]) /\ a[i] \in R
    BY <1>4, <2>1
  <2>3. H[a[i]][i] = H[a[i]][j]
    BY <1>6, <1>8, <2>1
  <2> QED
    BY <1>3, <2>2, <2>3
<1>9. ASSUME NEW j \in B
      PROVE  \E i \in A : G[i] = j
  <2>1. PICK i \in X(b[j]) : H[b[j]][i] = j
    BY <1>3, <1>5
  <2>2. i \in A /\ a[i] = b[j]
    BY <1>9
  <2> QED
    BY <1>6, <2>1, <2>2
<1>10. G \in [A -> B]
  BY <1>7
<1> HIDE DEF G
<1>11. G \in Bijection(A, B)
  BY <1>8, <1>9, <1>10 DEF Bijection, Injection, Surjection, IsInjective
<1>12. IsFiniteSet(A)
  BY <1>1, FS_Subset
<1>13. Cardinality(A) = Cardinality(B)
  BY <1>11, <1>12, FS_Bijection DEF ExistsBijection
<1> QED
  BY <1>13 DEF HowMany

\* A finding is merged in both orders of a list or in none, at one place.
LEMMA MergedAlike ==
  ASSUME NEW a \in Seq(Instances), NEW b \in Seq(Instances), Reordered(a, b),
         NEW i \in DOMAIN a, NEW j \in DOMAIN b, a[i] = b[j]
  PROVE  (Merged(a, i) <=> Merged(b, j)) /\ Place(a, i) = Place(b, j)
<1> DEFINE c == a[i].check
           R == Range(a) \cup Range(b)
           C == {f \in R : f.check = c}
           P == {f \in C : Strategy[c] # "check" => ValueOf(f) = ValueOf(a[i])}
<1>1. OfCheck(a, c) = {k \in DOMAIN a : a[k] \in C} /\ OfCheck(b, c) = {k \in DOMAIN b : b[k] \in C}
  BY DEF OfCheck, Range
<1>2. Group(a, i) = {k \in DOMAIN a : a[k] \in P}
  BY DEF Group, OfCheck, Range
<1>3. Group(b, j) = {k \in DOMAIN b : b[k] \in P}
  BY DEF Group, OfCheck, Range
<1> HIDE DEF C, P
<1>4. Cardinality(OfCheck(a, c)) = Cardinality(OfCheck(b, c))
  <2>1. HowMany(a, C) = HowMany(b, C)
    BY SameNumber
  <2> QED
    BY <1>1, <2>1 DEF HowMany
<1>5. Cardinality(Group(a, i)) = Cardinality(Group(b, j))
  <2>1. HowMany(a, P) = HowMany(b, P)
    BY SameNumber
  <2> QED
    BY <1>2, <1>3, <2>1 DEF HowMany
<1>6. Merged(a, i) <=> Merged(b, j)
  BY <1>4, <1>5 DEF Merged
<1> QED
  BY <1>6 DEF Place

\* The keys of the findings that a list is merged to.
Keys(list) == {Key(f) : f \in Range(Aggregate(list))}

\* A merged pattern has one key, whichever of its findings it is taken from.
LEMMA PatternKey ==
  ASSUME NEW list \in Seq(Instances), NEW i \in DOMAIN list, Merged(list, i)
  PROVE  <<list[i].check, NoPage, Place(list, i)>> \in Keys(list)
<1>1. PICK j \in Firsts(list) : list[j].check = list[i].check /\ Place(list, j) = Place(list, i)
  BY FirstOf
<1>2. AggregateGroup(list, j) \in Range(Aggregate(list))
  BY AggregateIs
<1>3. LET m == AggregateGroup(list, j)
      IN  m.check = list[j].check /\ m.page = NoPage /\ m.location = Place(list, j)
  BY MergedIs
<1>4. Strategy[list[i].check] # "none"
  BY DEF Merged
<1>5. Key(AggregateGroup(list, j)) = <<list[i].check, NoPage, Place(list, i)>>
  BY <1>1, <1>3, <1>4 DEF Key
<1> QED
  BY <1>2, <1>5 DEF Keys

\* The keys do not depend on the order in which the findings were reported.
LEMMA SameKeys ==
  ASSUME NEW a \in Seq(Instances), NEW b \in Seq(Instances), Reordered(a, b)
  PROVE  Keys(a) \subseteq Keys(b)
<1>1. ASSUME NEW i \in DOMAIN a
      PROVE  \E j \in DOMAIN b : b[j] = a[i]
  <2>1. Times(a, a[i]) = Times(b, a[i])
    BY DEF Reordered, Range
  <2>2. IsFiniteSet(DOMAIN a) /\ IsFiniteSet(DOMAIN b)
    BY FS_Interval
  <2>3. IsFiniteSet({k \in DOMAIN a : a[k] = a[i]}) /\ IsFiniteSet({k \in DOMAIN b : b[k] = a[i]})
    BY <2>2, FS_Subset
  <2>4. Times(a, a[i]) # 0
    BY <2>3, FS_EmptySet DEF Times
  <2>5. {k \in DOMAIN b : b[k] = a[i]} # {}
    BY <2>1, <2>4, FS_EmptySet DEF Times
  <2> QED
    BY <2>5
<1>2. ASSUME NEW f \in Range(Aggregate(a))
      PROVE  Key(f) \in Keys(b)
  <2>1. CASE \E i \in Alone(a) : f = a[i]
    <3>1. PICK i \in Alone(a) : f = a[i]
      BY <2>1
    <3>2. i \in DOMAIN a /\ ~Merged(a, i)
      BY DEF Alone
    <3>3. PICK j \in DOMAIN b : b[j] = a[i]
      BY <1>1, <3>2
    <3>4. j \in Alone(b)
      BY <3>2, <3>3, MergedAlike DEF Alone
    <3>5. f \in Range(Aggregate(b))
      BY <3>1, <3>3, <3>4, AggregateIs
    <3> QED
      BY <3>5 DEF Keys
  <2>2. CASE \E i \in Firsts(a) : f = AggregateGroup(a, i)
    <3>1. PICK i \in Firsts(a) : f = AggregateGroup(a, i)
      BY <2>2
    <3>2. i \in DOMAIN a /\ Merged(a, i)
      BY DEF Firsts
    <3>3. PICK j \in DOMAIN b : b[j] = a[i]
      BY <1>1, <3>2
    <3>4. Merged(b, j) /\ Place(a, i) = Place(b, j)
      BY <3>2, <3>3, MergedAlike
    <3>5. f.check = a[i].check /\ f.page = NoPage /\ f.location = Place(a, i)
      BY <3>1, MergedIs
    <3>6. Key(f) = <<b[j].check, NoPage, Place(b, j)>>
      BY <3>2, <3>3, <3>4, <3>5 DEF Key, Merged
    <3> QED
      BY <3>4, <3>6, PatternKey
  <2> QED
    BY <2>1, <2>2, AggregateIs
<1> QED
  BY <1>2 DEF Keys

\* A finding taken by its key has that key.
LEMMA ByKeyIs ==
  ASSUME NEW list \in Seq(Instances)
  PROVE  LET by == ByKey(Aggregate(list))
         IN  DOMAIN by = Keys(list) /\ \A k \in Keys(list) : Key(by[k]) = k
<1> DEFINE all == Aggregate(list)
           same(k) == {i \in DOMAIN all : Key(all[i]) = k}
<1>1. all \in Seq(Range(all))
  BY AggregateTyped
<1>2. DOMAIN ByKey(all) = Keys(list)
  BY DEF ByKey, Keys
<1>3. ASSUME NEW k \in Keys(list)
      PROVE  Key(ByKey(all)[k]) = k
  <2>1. ByKey(all)[k] = all[Nth(same(k), Cardinality(same(k)))]
    BY <1>3 DEF ByKey, Keys
  <2>2. same(k) # {}
    BY <1>3 DEF Keys, Range
  <2>3. Len(all) \in Nat /\ DOMAIN all = 1..Len(all)
    BY <1>1
  <2>4. same(k) \in SUBSET (1..Len(all))
    BY <2>3
  <2>5. Nth(same(k), Cardinality(same(k))) \in same(k)
    BY <2>2, <2>3, <2>4, Ends
  <2> QED
    BY <2>1, <2>5
<1> QED
  BY <1>2, <1>3

\* What the delta calls new has a key only the later audit has, and what it
\* calls resolved one that only the earlier has.
LEMMA DeltaIs ==
  ASSUME NEW before \in Seq(Instances), NEW after \in Seq(Instances), NEW majorOnly \in BOOLEAN
  PROVE  LET D == DeltaReport(Aggregate(before), Aggregate(after), majorOnly)
         IN  /\ \A x \in D.new : Key(x) \in Keys(after) \ Keys(before)
             /\ \A x \in D.resolved : Key(x) \in Keys(before) \ Keys(after)
<1> DEFINE was == ByKey(Aggregate(before))
           is == ByKey(Aggregate(after))
           D == DeltaReport(Aggregate(before), Aggregate(after), majorOnly)
<1>1. /\ D.new \subseteq {is[k] : k \in DOMAIN is \ DOMAIN was}
      /\ D.resolved \subseteq {was[k] : k \in DOMAIN was \ DOMAIN is}
  BY DEF DeltaReport, Itemized
<1>2. DOMAIN was = Keys(before) /\ \A k \in Keys(before) : Key(was[k]) = k
  BY ByKeyIs
<1>3. DOMAIN is = Keys(after) /\ \A k \in Keys(after) : Key(is[k]) = k
  BY ByKeyIs
<1> HIDE DEF was, is, D
<1>4. \A x \in D.new : Key(x) \in Keys(after) \ Keys(before)
  BY <1>1, <1>2, <1>3
<1>5. \A x \in D.resolved : Key(x) \in Keys(before) \ Keys(after)
  BY <1>1, <1>2, <1>3
<1> QED
  BY <1>4, <1>5 DEF D

\* A pattern that is merged in both audits is neither new nor resolved.
LEMMA PatternKnown ==
  ASSUME NEW before \in Seq(Instances), NEW after \in Seq(Instances),
         NEW x, x.page = NoPage,
         NEW i \in DOMAIN before, NEW j \in DOMAIN after,
         before[i].check = x.check, SamePattern(before[i], after[j]),
         Merged(before, i), Merged(after, j),
         x.location \in {Place(before, i), Place(after, j)}
  PROVE  Key(x) \in Keys(before) \cap Keys(after)
<1>1. after[j].check = x.check /\ Strategy[x.check] # "none"
  BY DEF SamePattern, Merged
<1>2. Place(before, i) = Place(after, j)
  BY <1>1 DEF Place, SamePattern
<1>3. Key(x) = <<x.check, NoPage, Place(before, i)>>
  BY <1>1, <1>2 DEF Key
<1> QED
  BY <1>1, <1>2, <1>3, PatternKey

\* The delta tells no news that are none (generate_delta_report): findings
\* reported in another order are not new, nor are they resolved, and a pattern
\* merged in both audits is the same finding on whatever pages it is.
THEOREM NoFalseNewsHolds == AuditSpec => []NoFalseNews
<1>1. ASSUME AuditInv, Published, delta # NoReport
      PROVE  NoFalseNews
  <2> DEFINE a == base[1]
  <2>1. raw \in Seq(Instances) /\ base \in Seq(Seq(Instances)) /\ Len(base) <= 1 /\ base # <<>>
        /\ delta = Deltas(base[1])
    BY <1>1 DEF AuditInv, AuditTypeOK, Compiled
  <2>2. a \in Seq(Instances)
    BY <2>1
  <2> HIDE DEF a
  <2>3. /\ delta["full"] = DeltaReport(Aggregate(a), Aggregate(raw), FALSE)
        /\ delta["major"] = DeltaReport(Aggregate(a), Aggregate(raw), TRUE)
    BY <2>1 DEF a, Deltas
  <2>4. ASSUME NEW v \in Views
        PROVE  /\ \A x \in delta[v].new : Key(x) \in Keys(raw) \ Keys(a)
               /\ \A x \in delta[v].resolved : Key(x) \in Keys(a) \ Keys(raw)
    <3>1. PICK majorOnly \in BOOLEAN : delta[v] = DeltaReport(Aggregate(a), Aggregate(raw), majorOnly)
      BY <2>3 DEF Views
    <3> QED
      BY <2>1, <2>2, <3>1, DeltaIs
  <2>5. ASSUME Reordered(a, raw), NEW v \in Views
        PROVE  News(v) = {}
    <3>1. Reordered(raw, a)
      BY <2>5 DEF Reordered
    <3>2. Keys(a) = Keys(raw)
      BY <2>1, <2>2, <2>5, <3>1, SameKeys
    <3> QED
      BY <2>4, <3>2 DEF News
  <2>6. ASSUME NEW x \in News("full") \cup News("major"), x.page = NoPage,
               NEW i \in DOMAIN a, NEW j \in DOMAIN raw,
               a[i].check = x.check, SamePattern(a[i], raw[j]),
               Merged(a, i), Merged(raw, j), x.location \in {Place(a, i), Place(raw, j)}
        PROVE  FALSE
    <3>1. Key(x) \in Keys(a) \cap Keys(raw)
      BY <2>1, <2>2, <2>6, PatternKnown
    <3>2. PICK v \in Views : x \in News(v)
      BY <2>6 DEF Views
    <3> QED
      BY <2>4, <3>1, <3>2 DEF News
  <2> QED
    BY <2>5, <2>6 DEF NoFalseNews, a
<1>2. AuditInv => NoFalseNews
  BY <1>1 DEF NoFalseNews
<1> QED
  BY <1>2, AuditInvariant, PTL
=============================================================================
