------------------------ MODULE EvidenceBlobs_proofs ------------------------
(***************************************************************************)
(* Theorems about EvidenceBlobs, for any number of audits, references and  *)
(* hashes: refcounts are exact while sessions do not overlap, and they are *)
(* never too high, nor a reference dangling, while nothing is pruned.      *)
(***************************************************************************)
EXTENDS EvidenceBlobs, FiniteSetTheorems, TLAPS

-----------------------------------------------------------------------------
(* What the sessions look like, whether or not they overlap.               *)

\* The identity map holds an object for exactly the rows it asked for.
Paired == \A s \in Sessions, h \in Hashes : got[s][h] = Unread <=> mem[s][h] = Unread

\* A session that is not open holds nothing.
Clean == \A s \in Sessions \ Open : todo[s] = {} /\ handled[s] = {} /\ got[s] = Nothing

\* A reference is handled once.
Once == \A s \in Sessions : todo[s] \cap handled[s] = {}

\* An audit writes the references of its current batch, all unset so far.
InHand ==
  \A r \in Runs : \A f \in todo[r] \cup handled[r] :
    hashOf[f] = NoBlob /\ BatchOf(f) = <<r, pc[r]>>

\* A set reference names its content, and its batch is behind its run.
Stored ==
  \A f \in Refs : hashOf[f] # NoBlob =>
    /\ hashOf[f] = content[f]
    /\ IF f \in Bodies THEN pc[RunOf[f]] \in {"kept", "shots", "done", "failed"}
                       ELSE pc[RunOf[f]] = "done"

\* What an audit wrote, its session has an object for.
Asked == \A r \in Runs : \A f \in handled[r] : got[r][content[f]] # Unread

\* What the retention job selected is set, and not selected again.
Selected ==
  /\ \A f \in todo[Janitor] \cup handled[Janitor] : hashOf[f] # NoBlob /\ BatchOf(f) \notin due
  /\ \A f \in handled[Janitor] : got[Janitor][hashOf[f]] # Unread

\* Only an open retention job has batches to select.
DueWhilePruning == due # {} => Janitor \in Open

Shape ==
  /\ TypeOK /\ Paired /\ Clean /\ Once
  /\ InHand /\ Stored /\ Asked /\ Selected /\ DueWhilePruning

\* References of this session to h whose column is set but not committed.
Own(r, h) == {f \in handled[r] : content[f] = h}
Taken(h) == {f \in handled[Janitor] : hashOf[f] = h}

-----------------------------------------------------------------------------
(* While nothing is pruned.                                                *)

\* The retention job finds no run.
Idle == due = {} /\ todo[Janitor] = {} /\ handled[Janitor] = {} /\ got[Janitor] = Nothing

\* A session counts at most the committed references and its own, and never
\* holds an object without bytes behind it.
Counts ==
  \A r \in Runs, h \in Hashes : got[r][h] # Unread =>
    /\ got[r][h] <= Cardinality(Pointing(h))
    /\ mem[r][h] > 0 /\ mem[r][h] <= got[r][h] + Cardinality(Own(r, h))
    /\ h \in objects
    /\ got[r][h] > 0 => refcount[h] > 0

RowsBacked == Rows \subseteq objects

OverlapInv == Shape /\ Idle /\ Counts /\ RowsBacked /\ NoDangling /\ NeverOvercounted

-----------------------------------------------------------------------------
(* While sessions do not overlap.                                          *)

Alone == \A s, q \in Open : s = q

\* The open session is up to date, and off by exactly what it handled.
InStep ==
  \A s \in Sessions, h \in Hashes : got[s][h] # Unread =>
    /\ got[s][h] = refcount[h]
    /\ s \in Runs => mem[s][h] = got[s][h] + Cardinality(Own(s, h))
    /\ s = Janitor => mem[s][h] = got[s][h] - Cardinality(Taken(h))

SerialInv == Shape /\ Alone /\ InStep /\ RefcountExact

\* Bytes are missing only for rows the open retention job is about to delete.
Backed == \A h \in Rows \ objects : Janitor \in Open /\ mem[Janitor][h] = 0

\* What an audit has an object for has its bytes.
BackedInHand == \A r \in Runs, h \in Hashes : got[r][h] # Unread => h \in objects

\* The retention job touches only runs the policy names.
AgedOnly ==
  /\ \A f \in todo[Janitor] \cup handled[Janitor] : RunOf[f] \in Prunable
  /\ \A b \in due : b[1] \in Prunable

KeptInv == SerialInv /\ Backed /\ BackedInHand /\ AgedOnly

-----------------------------------------------------------------------------
(* Shape is inductive on its own.                                          *)

LEMMA InitShape == Init => Shape
<1> SUFFICES ASSUME Init PROVE Shape
  OBVIOUS
<1>1. TypeOK
  BY DEF Init, TypeOK, Places, Batches, Nothing
<1>2. Paired /\ Clean /\ Once
  BY DEF Init, Paired, Clean, Once, Nothing
<1>3. InHand /\ Stored /\ Asked /\ Selected /\ DueWhilePruning
  BY DEF Init, InHand, Stored, Asked, Selected, Sessions, DueWhilePruning
<1>4. QED
  BY <1>1, <1>2, <1>3 DEF Shape

\* Where every reference belongs.
LEMMA BatchType ==
  /\ \A f \in Refs : RunOf[f] \in Runs /\ BatchOf(f) \in Batches
  /\ \A f, g \in Refs : BatchOf(f) = BatchOf(g) => (f \in Bodies <=> g \in Bodies) /\ RunOf[f] = RunOf[g]
  BY RunOfAssumption DEF BatchOf, Batches

LEMMA BeginShape ==
  ASSUME Shape, NEW r \in Runs, Begin(r) PROVE Shape'
<1> DEFINE kind == IF pc[r] = "crawled" THEN "bodies" ELSE "shots"
<1>0. PICK failing \in SUBSET RefsOf(<<r, kind>>) : todo' = [todo EXCEPT ![r] = failing]
  BY DEF Begin
<1>1. /\ r \in Sessions /\ r # Janitor /\ r \notin Open
      /\ pc' = [pc EXCEPT ![r] = kind]
      /\ UNCHANGED <<content, refcount, hashOf, objects, due, handled, got, mem>>
      /\ failing \subseteq Refs /\ \A f \in failing : BatchOf(f) = <<r, kind>>
  BY MarkersAssumption DEF Begin, Open, Sessions, RefsOf
<1>2. handled[r] = {} /\ todo[r] = {}
  BY <1>1 DEF Shape, Clean
<1>3. TypeOK'
  BY <1>0, <1>1 DEF Shape, TypeOK, Places
<1>4. Paired' /\ Once' /\ Asked'
  BY <1>0, <1>1, <1>2 DEF Shape, TypeOK, Paired, Once, Asked
<1>5. Clean'
  BY <1>0, <1>1 DEF Shape, TypeOK, Clean, Open
<1>6. \A f \in failing : hashOf[f] = NoBlob
  BY <1>1, BatchType DEF Shape, Stored, Begin, BatchOf
<1>7. InHand'
  BY <1>0, <1>1, <1>2, <1>6 DEF Shape, TypeOK, InHand, BatchOf
<1>8. Stored'
  BY <1>1, BatchType DEF Shape, TypeOK, Stored, Begin
<1>9. Selected' /\ DueWhilePruning'
  BY <1>0, <1>1 DEF Shape, TypeOK, Selected, BatchOf, Sessions, DueWhilePruning, Open
<1>10. QED
  BY <1>3, <1>4, <1>5, <1>7, <1>8, <1>9 DEF Shape

\* A session that asks for h knows it afterwards, and nothing else changes.
LEMMA RememberEffect ==
  ASSUME TypeOK, Paired, NEW s \in Sessions, NEW h \in Hashes, NEW n \in Nat, Remember(s, h, n)
  PROVE  /\ got' \in [Sessions -> [Hashes -> Nat \cup {Unread}]]
         /\ mem' \in [Sessions -> [Hashes -> Nat \cup {Unread}]]
         /\ \A q \in Sessions, g \in Hashes :
              <<q, g>> # <<s, h>> => got'[q][g] = got[q][g] /\ mem'[q][g] = mem[q][g]
         /\ mem'[s][h] = n
         /\ got'[s][h] = IF got[s][h] = Unread THEN refcount[h] ELSE got[s][h]
         /\ got'[s][h] # Unread
         /\ Paired'
         /\ \A q \in Sessions : q # s => got'[q] = got[q]
<1>1. Unread \notin Nat
  BY MarkersAssumption
<1>2. /\ got' \in [Sessions -> [Hashes -> Nat \cup {Unread}]]
      /\ mem' \in [Sessions -> [Hashes -> Nat \cup {Unread}]]
  BY DEF Remember, TypeOK
<1>3. /\ \A q \in Sessions, g \in Hashes :
           <<q, g>> # <<s, h>> => got'[q][g] = got[q][g] /\ mem'[q][g] = mem[q][g]
      /\ mem'[s][h] = n
      /\ got'[s][h] = IF got[s][h] = Unread THEN refcount[h] ELSE got[s][h]
  BY DEF Remember, TypeOK
<1>4. got'[s][h] # Unread
  BY <1>1, <1>3 DEF TypeOK
<1>5. Paired'
  BY <1>1, <1>3, <1>4 DEF Paired
<1>6. \A q \in Sessions : q # s => got'[q] = got[q]
  BY DEF Remember, TypeOK
<1>7. QED
  BY <1>2, <1>3, <1>4, <1>5, <1>6

LEMMA GetType ==
  ASSUME TypeOK, Paired, NEW s \in Sessions, NEW h \in Hashes PROVE Get(s, h) \in Nat
  BY DEF TypeOK, Paired, Get

LEMMA WriteShape ==
  ASSUME Shape, NEW r \in Runs, NEW f \in Refs, Write(r, f) PROVE Shape'
<1> DEFINE h == content[f]
<1>0. /\ r \in Sessions /\ r # Janitor /\ r \in Open /\ h \in Hashes
      /\ f \in todo[r] /\ hashOf[f] = NoBlob /\ BatchOf(f) = <<r, pc[r]>>
      /\ UNCHANGED <<content, refcount, hashOf, pc, due>>
      /\ todo' = [todo EXCEPT ![r] = @ \ {f}]
      /\ handled' = [handled EXCEPT ![r] = @ \cup {f}]
      /\ Remember(r, h, Bump(Get(r, h)))
  BY MarkersAssumption DEF Write, Handle, Shape, TypeOK, InHand, Open, Sessions
<1>1. Bump(Get(r, h)) \in Nat
  BY <1>0, GetType DEF Shape, Bump
<1> HIDE DEF h
<1>2. /\ got' \in [Sessions -> [Hashes -> Nat \cup {Unread}]]
      /\ mem' \in [Sessions -> [Hashes -> Nat \cup {Unread}]]
      /\ \A q \in Sessions, g \in Hashes :
           <<q, g>> # <<r, h>> => got'[q][g] = got[q][g] /\ mem'[q][g] = mem[q][g]
      /\ got'[r][h] # Unread
      /\ Paired'
      /\ \A q \in Sessions : q # r => got'[q] = got[q]
  BY <1>0, <1>1, RememberEffect DEF Shape
<1>3. objects' \subseteq Hashes
  BY <1>0 DEF Write, Shape, TypeOK
<1>4. TypeOK'
  BY <1>0, <1>2, <1>3 DEF Shape, TypeOK
<1>5. Clean'
  BY <1>0, <1>2 DEF Shape, TypeOK, Clean, Open
<1>6. Once'
  BY <1>0 DEF Shape, TypeOK, Once
<1>7. InHand'
  BY <1>0 DEF Shape, TypeOK, InHand, BatchOf
<1>8. Stored'
  BY <1>0 DEF Shape, Stored
<1>9. Asked'
  <2>1. \A q \in Runs : \A g \in handled'[q] : got'[q][content[g]] # Unread
    <3> SUFFICES ASSUME NEW q \in Runs, NEW g \in handled'[q] PROVE got'[q][content[g]] # Unread
      OBVIOUS
    <3>1. q \in Sessions /\ g \in Refs /\ content[g] \in Hashes
      BY <1>4, <1>0 DEF TypeOK, Sessions
    <3>2. CASE q = r /\ g = f
      BY <3>2, <1>2 DEF h
    <3>3. CASE g \in handled[q]
      <4>1. got[q][content[g]] # Unread
        BY <3>3 DEF Shape, Asked
      <4>2. QED
        BY <1>2, <3>1, <4>1
    <3>4. QED
      BY <1>0, <3>2, <3>3 DEF Shape, TypeOK
  <2>2. QED
    BY <2>1, <1>0 DEF Asked
<1>10. Selected' /\ DueWhilePruning'
  BY <1>0, <1>2 DEF Shape, TypeOK, Selected, BatchOf, Sessions, DueWhilePruning, Open
<1>11. QED
  BY <1>2, <1>4, <1>5, <1>6, <1>7, <1>8, <1>9, <1>10 DEF Shape

LEMMA BeginPruneShape ==
  ASSUME Shape, BeginPrune PROVE Shape'
<1>0. /\ Janitor \in Sessions /\ Janitor \notin Open /\ Janitor \notin Runs
      /\ pc' = [pc EXCEPT ![Janitor] = "pruning"]
      /\ due' \subseteq Batches
      /\ UNCHANGED <<content, refcount, hashOf, objects, todo, handled, got, mem>>
  BY MarkersAssumption, PolicyAssumption DEF BeginPrune, Sessions, Open, Batches
<1>1. handled[Janitor] = {} /\ todo[Janitor] = {}
  BY <1>0 DEF Shape, Clean
<1>2. TypeOK'
  BY <1>0 DEF Shape, TypeOK, Places
<1>3. Paired' /\ Once' /\ Asked'
  BY <1>0 DEF Shape, Paired, Once, Asked
<1>4. Clean'
  BY <1>0 DEF Shape, TypeOK, Clean, Open
<1>5. InHand'
  BY <1>0 DEF Shape, TypeOK, InHand, BatchOf, Sessions
<1>6. Stored'
  BY <1>0, BatchType DEF Shape, TypeOK, Stored, Sessions
<1>7. Selected' /\ DueWhilePruning'
  BY <1>0, <1>1 DEF Shape, TypeOK, Selected, DueWhilePruning, Open
<1>8. QED
  BY <1>2, <1>3, <1>4, <1>5, <1>6, <1>7 DEF Shape

LEMMA SelectShape ==
  ASSUME Shape, NEW b \in Batches, Select(b) PROVE Shape'
<1> DEFINE found == {f \in RefsOf(b) : hashOf[f] # NoBlob}
<1>0. /\ Janitor \in Sessions /\ Janitor \notin Runs
      /\ b \in due /\ due' = due \ {b}
      /\ todo' = [todo EXCEPT ![Janitor] = found]
      /\ found \subseteq Refs /\ \A f \in found : hashOf[f] # NoBlob /\ BatchOf(f) = b
      /\ UNCHANGED <<content, refcount, hashOf, objects, pc, handled, got, mem>>
  BY MarkersAssumption DEF Select, Sessions, RefsOf
<1>1. TypeOK'
  BY <1>0 DEF Shape, TypeOK
<1>2. Paired' /\ Asked' /\ Stored' /\ InHand'
  BY <1>0 DEF Shape, TypeOK, Paired, Asked, Stored, InHand, BatchOf, Sessions
<1>3. Janitor \in Open
  BY <1>0 DEF Shape, DueWhilePruning
<1>4. Clean'
  BY <1>0, <1>3 DEF Shape, TypeOK, Clean, Open
<1>5. Once'
  BY <1>0 DEF Shape, TypeOK, Once, Selected
<1>6. DueWhilePruning'
  BY <1>0, <1>3 DEF DueWhilePruning, Open
<1>8. Selected'
  <2>1. \A f \in todo'[Janitor] \cup handled'[Janitor] : hashOf'[f] # NoBlob /\ BatchOf(f)' \notin due'
    <3> SUFFICES ASSUME NEW f \in todo'[Janitor] \cup handled'[Janitor]
                 PROVE  hashOf[f] # NoBlob /\ BatchOf(f) \notin due'
      BY <1>0 DEF BatchOf
    <3>1. CASE f \in found
      BY <3>1, <1>0
    <3>2. CASE f \in handled[Janitor]
      BY <3>2, <1>0 DEF Shape, Selected
    <3>3. QED
      BY <1>0, <3>1, <3>2 DEF Shape, TypeOK
  <2>2. QED
    BY <2>1, <1>0 DEF Shape, Selected
<1>9. QED
  BY <1>1, <1>2, <1>4, <1>5, <1>6, <1>8 DEF Shape

LEMMA UnreferenceShape ==
  ASSUME Shape, NEW f \in Refs, Unreference(f) PROVE Shape'
<1> DEFINE h == hashOf[f]
           n == Get(Janitor, h)
           less == IF n = 0 THEN 0 ELSE n - 1
           left == IF Spent(less) THEN 0 ELSE less
<1>0. /\ Janitor \in Sessions /\ Janitor \notin Runs
      /\ f \in todo[Janitor] /\ h # NoBlob /\ BatchOf(f) \notin due
      /\ UNCHANGED <<content, refcount, hashOf, pc, due>>
      /\ todo' = [todo EXCEPT ![Janitor] = @ \ {f}]
      /\ handled' = [handled EXCEPT ![Janitor] = @ \cup {f}]
      /\ Remember(Janitor, h, left)
  BY MarkersAssumption DEF Unreference, Handle, Shape, Selected, Sessions
<1>1. h \in Hashes /\ Janitor \in Open
  BY <1>0 DEF Shape, TypeOK, Clean
<1>2. left \in Nat
  <2>1. n \in Nat
    BY <1>0, <1>1, GetType DEF Shape
  <2>2. QED
    BY <2>1
<1> HIDE DEF h, n, less, left
<1>3. /\ got' \in [Sessions -> [Hashes -> Nat \cup {Unread}]]
      /\ mem' \in [Sessions -> [Hashes -> Nat \cup {Unread}]]
      /\ \A q \in Sessions, g \in Hashes :
           <<q, g>> # <<Janitor, h>> => got'[q][g] = got[q][g] /\ mem'[q][g] = mem[q][g]
      /\ got'[Janitor][h] # Unread
      /\ Paired'
      /\ \A q \in Sessions : q # Janitor => got'[q] = got[q]
  BY <1>0, <1>1, <1>2, RememberEffect DEF Shape
<1>4. objects' \subseteq Hashes
  BY <1>0 DEF Unreference, Shape, TypeOK
<1>5. TypeOK'
  BY <1>0, <1>3, <1>4 DEF Shape, TypeOK
<1>6. Clean'
  BY <1>0, <1>1, <1>3 DEF Shape, TypeOK, Clean, Open
<1>7. Once'
  BY <1>0 DEF Shape, TypeOK, Once
<1>8. InHand' /\ Stored' /\ Asked'
  BY <1>0, <1>3 DEF Shape, TypeOK, InHand, Stored, Asked, BatchOf, Sessions
<1>9. Selected'
  <2>1. \A g \in todo'[Janitor] \cup handled'[Janitor] : hashOf'[g] # NoBlob /\ BatchOf(g)' \notin due'
    BY <1>0 DEF Shape, TypeOK, Selected, BatchOf, h
  <2>2. ASSUME NEW g \in handled'[Janitor] PROVE got'[Janitor][hashOf'[g]] # Unread
    <3>1. CASE g = f
      BY <3>1, <1>0, <1>3 DEF h
    <3>2. CASE g \in handled[Janitor]
      <4>1. got[Janitor][hashOf[g]] # Unread /\ hashOf[g] \in Hashes
        BY <3>2, <1>0 DEF Shape, Selected, TypeOK
      <4>2. QED
        BY <1>0, <1>3, <4>1
    <3>3. QED
      BY <1>0, <3>1, <3>2 DEF Shape, TypeOK
  <2>3. QED
    BY <2>1, <2>2 DEF Selected
<1>10. DueWhilePruning'
  BY <1>0 DEF Shape, DueWhilePruning, Open
<1>11. QED
  BY <1>3, <1>5, <1>6, <1>7, <1>8, <1>9, <1>10 DEF Shape

\* A session that ends empties its identity map and no other.
LEMMA CloseEffect ==
  ASSUME TypeOK, Paired, Once, NEW s \in Sessions, Close(s)
  PROVE  /\ todo' \in [Sessions -> SUBSET Refs] /\ handled' \in [Sessions -> SUBSET Refs]
         /\ got' \in [Sessions -> [Hashes -> Nat \cup {Unread}]]
         /\ mem' \in [Sessions -> [Hashes -> Nat \cup {Unread}]]
         /\ todo'[s] = {} /\ handled'[s] = {} /\ got'[s] = Nothing
         /\ \A q \in Sessions : q # s =>
              todo'[q] = todo[q] /\ handled'[q] = handled[q] /\ got'[q] = got[q] /\ mem'[q] = mem[q]
         /\ Paired' /\ Once'
<1>1. Nothing \in [Hashes -> Nat \cup {Unread}] /\ \A h \in Hashes : Nothing[h] = Unread
  BY DEF Nothing
<1>2. /\ todo' \in [Sessions -> SUBSET Refs] /\ handled' \in [Sessions -> SUBSET Refs]
      /\ got' \in [Sessions -> [Hashes -> Nat \cup {Unread}]]
      /\ mem' \in [Sessions -> [Hashes -> Nat \cup {Unread}]]
  BY <1>1 DEF Close, TypeOK
<1>3. /\ todo'[s] = {} /\ handled'[s] = {} /\ got'[s] = Nothing /\ mem'[s] = Nothing
      /\ \A q \in Sessions : q # s =>
           todo'[q] = todo[q] /\ handled'[q] = handled[q] /\ got'[q] = got[q] /\ mem'[q] = mem[q]
  BY DEF Close, TypeOK
<1>4. Paired'
  BY <1>1, <1>3 DEF Paired
<1>5. Once'
  BY <1>3 DEF Once
<1>6. QED
  BY <1>2, <1>3, <1>4, <1>5

LEMMA RollBackShape ==
  ASSUME Shape, NEW s \in Open, RollBack(s) PROVE Shape'
<1>0. /\ s \in Sessions /\ Janitor \notin Runs /\ Close(s)
      /\ UNCHANGED <<content, refcount, hashOf, objects>>
      /\ pc' = [pc EXCEPT ![s] = IF s = Janitor THEN "idle" ELSE "failed"]
      /\ due' = IF s = Janitor THEN {} ELSE due
      /\ pc[s] \in {"bodies", "shots", "pruning"}
  BY MarkersAssumption DEF RollBack, LeftBehind, Open
<1>1. /\ todo' \in [Sessions -> SUBSET Refs] /\ handled' \in [Sessions -> SUBSET Refs]
      /\ got' \in [Sessions -> [Hashes -> Nat \cup {Unread}]]
      /\ mem' \in [Sessions -> [Hashes -> Nat \cup {Unread}]]
      /\ todo'[s] = {} /\ handled'[s] = {} /\ got'[s] = Nothing
      /\ \A q \in Sessions : q # s =>
           todo'[q] = todo[q] /\ handled'[q] = handled[q] /\ got'[q] = got[q] /\ mem'[q] = mem[q]
      /\ Paired' /\ Once'
  BY <1>0, CloseEffect DEF Shape
<1>2. TypeOK'
  BY <1>0, <1>1 DEF Shape, TypeOK, Places
<1>3. Clean'
  BY <1>0, <1>1 DEF Shape, TypeOK, Clean, Open
<1>4. InHand'
  BY <1>0, <1>1 DEF Shape, TypeOK, InHand, BatchOf, Sessions
<1>5. Stored'
  <2> SUFFICES ASSUME NEW f \in Refs, hashOf[f] # NoBlob
               PROVE  /\ hashOf[f] = content[f]
                      /\ IF f \in Bodies
                           THEN pc'[RunOf[f]] \in {"kept", "shots", "done", "failed"}
                           ELSE pc'[RunOf[f]] = "done"
    BY <1>0 DEF Stored
  <2>1. /\ hashOf[f] = content[f]
        /\ IF f \in Bodies THEN pc[RunOf[f]] \in {"kept", "shots", "done", "failed"}
                           ELSE pc[RunOf[f]] = "done"
    BY DEF Shape, Stored
  <2>2. RunOf[f] \in Sessions /\ RunOf[f] # Janitor
    BY <1>0, BatchType DEF Sessions
  <2>3. CASE RunOf[f] = s
    <3>1. pc'[RunOf[f]] = "failed"
      BY <1>0, <2>2, <2>3 DEF Shape, TypeOK
    <3>2. f \in Bodies
      BY <1>0, <2>1, <2>3
    <3>3. QED
      BY <2>1, <3>1, <3>2
  <2>4. CASE RunOf[f] # s
    BY <1>0, <2>1, <2>2, <2>4 DEF Shape, TypeOK
  <2>5. QED
    BY <2>3, <2>4
<1>6. Asked'
  BY <1>0, <1>1 DEF Shape, TypeOK, Asked, Sessions
<1>7. Selected'
  <2>1. CASE s = Janitor
    BY <1>0, <1>1, <2>1 DEF Selected
  <2>2. CASE s # Janitor
    <3>1. /\ todo'[Janitor] = todo[Janitor] /\ handled'[Janitor] = handled[Janitor]
          /\ got'[Janitor] = got[Janitor] /\ due' = due /\ hashOf' = hashOf
      BY <1>0, <1>1, <2>2 DEF Sessions
    <3>2. QED
      BY <3>1 DEF Shape, Selected, BatchOf
  <2>3. QED
    BY <2>1, <2>2
<1>8. DueWhilePruning'
  BY <1>0 DEF Shape, TypeOK, DueWhilePruning, Open, Sessions
<1>9. QED
  BY <1>1, <1>2, <1>3, <1>4, <1>5, <1>6, <1>7, <1>8 DEF Shape

\* After a commit a column holds what the session put there.
LEMMA CommitColumns ==
  ASSUME Shape, NEW s \in Sessions, Commit(s)
  PROVE  /\ s \in Open /\ todo[s] = {}
         /\ hashOf' \in [Refs -> Hashes \cup {NoBlob}]
         /\ \A f \in Refs \ handled[s] : hashOf'[f] = hashOf[f]
         /\ \A f \in handled[s] : hashOf'[f] = IF s = Janitor THEN NoBlob ELSE content[f]
<1>1. handled[s] \subseteq Refs
  BY DEF Shape, TypeOK
<1>2. QED
  BY <1>1 DEF Commit, Shape, TypeOK

LEMMA CommitShape ==
  ASSUME Shape, NEW s \in Sessions, Commit(s) PROVE Shape'
<1>0. /\ Janitor \notin Runs /\ Janitor \in Sessions /\ Close(s)
      /\ UNCHANGED <<content, objects, due>>
      /\ pc' = [pc EXCEPT ![s] = Finished(s)]
      /\ pc[s] \in {"bodies", "shots", "pruning"}
      /\ s = Janitor => due = {}
      /\ refcount' = [h \in Hashes |-> IF Changed(s, h) THEN mem[s][h] ELSE refcount[h]]
  BY MarkersAssumption DEF Commit, Open, Sessions
<1>1. /\ todo' \in [Sessions -> SUBSET Refs] /\ handled' \in [Sessions -> SUBSET Refs]
      /\ got' \in [Sessions -> [Hashes -> Nat \cup {Unread}]]
      /\ mem' \in [Sessions -> [Hashes -> Nat \cup {Unread}]]
      /\ todo'[s] = {} /\ handled'[s] = {} /\ got'[s] = Nothing
      /\ \A q \in Sessions : q # s =>
           todo'[q] = todo[q] /\ handled'[q] = handled[q] /\ got'[q] = got[q] /\ mem'[q] = mem[q]
      /\ Paired' /\ Once'
  BY <1>0, CloseEffect DEF Shape
<1>2. /\ s \in Open /\ todo[s] = {}
      /\ hashOf' \in [Refs -> Hashes \cup {NoBlob}]
      /\ \A f \in Refs \ handled[s] : hashOf'[f] = hashOf[f]
      /\ \A f \in handled[s] : hashOf'[f] = IF s = Janitor THEN NoBlob ELSE content[f]
  BY CommitColumns
<1>3. TypeOK'
  <2>1. \A h \in Hashes : Changed(s, h) => mem[s][h] \in Nat
    BY DEF Shape, TypeOK, Paired, Changed
  <2>2. refcount' \in [Hashes -> Nat]
    BY <1>0, <2>1 DEF Shape, TypeOK
  <2>3. Finished(s) \in Places /\ (s = Janitor <=> Finished(s) \in {"idle", "pruning"})
    BY DEF Finished, Places
  <2>4. QED
    BY <1>0, <1>1, <1>2, <2>2, <2>3 DEF Shape, TypeOK
<1>4. Clean'
  BY <1>0, <1>1, <1>2 DEF Shape, TypeOK, Clean, Open
<1>5. \* References other sessions hold are not those of s.
      \A q \in Sessions \ {s} : \A f \in todo[q] \cup handled[q] : f \in Refs \ handled[s]
  <2> SUFFICES ASSUME NEW q \in Sessions \ {s}, NEW f \in todo[q] \cup handled[q], f \in handled[s]
               PROVE  FALSE
    BY DEF Shape, TypeOK
  <2>1. CASE q = Janitor \/ s = Janitor
    BY <2>1 DEF Shape, InHand, Selected, Sessions
  <2>2. CASE q \in Runs /\ s \in Runs
    BY <2>2 DEF Shape, InHand, BatchOf
  <2>3. QED
    BY <2>1, <2>2 DEF Sessions
<1>6. InHand'
  <2> SUFFICES ASSUME NEW r \in Runs, NEW f \in todo'[r] \cup handled'[r]
               PROVE  hashOf'[f] = NoBlob /\ BatchOf(f)' = <<r, pc'[r]>>
    BY DEF InHand
  <2>1. r # s /\ r \in Sessions /\ f \in todo[r] \cup handled[r]
    BY <1>1 DEF Sessions
  <2>2. QED
    BY <2>1, <1>0, <1>2, <1>5 DEF Shape, TypeOK, InHand, BatchOf
<1>7. Stored'
  <2> SUFFICES ASSUME NEW f \in Refs, hashOf'[f] # NoBlob
               PROVE  /\ hashOf'[f] = content[f]
                      /\ IF f \in Bodies
                           THEN pc'[RunOf[f]] \in {"kept", "shots", "done", "failed"}
                           ELSE pc'[RunOf[f]] = "done"
    BY <1>0 DEF Stored
  <2>1. RunOf[f] \in Sessions /\ RunOf[f] # Janitor
    BY <1>0, BatchType DEF Sessions
  <2>2. CASE f \in handled[s]
    <3>1. s \in Runs /\ hashOf'[f] = content[f] /\ BatchOf(f) = <<s, pc[s]>>
      BY <1>2, <2>2 DEF Shape, InHand, Sessions
    <3>2. RunOf[f] = s /\ pc[s] = IF f \in Bodies THEN "bodies" ELSE "shots"
      BY <3>1 DEF BatchOf
    <3>3. pc'[s] = IF f \in Bodies THEN "kept" ELSE "done"
      BY <1>0, <3>1, <3>2 DEF Finished, Shape, TypeOK
    <3>4. QED
      BY <3>1, <3>2, <3>3
  <2>3. CASE f \notin handled[s]
    <3>1. /\ hashOf[f] # NoBlob /\ hashOf'[f] = hashOf[f] /\ hashOf[f] = content[f]
          /\ IF f \in Bodies THEN pc[RunOf[f]] \in {"kept", "shots", "done", "failed"}
                             ELSE pc[RunOf[f]] = "done"
      BY <1>2, <2>3 DEF Shape, Stored
    <3>2. CASE RunOf[f] # s
      BY <1>0, <2>1, <3>1, <3>2 DEF Shape, TypeOK
    <3>3. CASE RunOf[f] = s
      <4>1. f \in Bodies /\ pc[s] = "shots"
        BY <1>0, <3>1, <3>3
      <4>2. pc'[s] = "done"
        BY <1>0, <2>1, <3>3, <4>1 DEF Finished, Shape, TypeOK
      <4>3. QED
        BY <3>1, <3>3, <4>1, <4>2
    <3>4. QED
      BY <3>2, <3>3
  <2>4. QED
    BY <2>2, <2>3
<1>8. Asked'
  BY <1>0, <1>1 DEF Shape, TypeOK, Asked, Sessions
<1>9. Selected'
  <2>1. CASE s = Janitor
    BY <1>1, <2>1 DEF Selected
  <2>2. CASE s # Janitor
    <3>1. /\ todo'[Janitor] = todo[Janitor] /\ handled'[Janitor] = handled[Janitor]
          /\ got'[Janitor] = got[Janitor] /\ due' = due
          /\ \A f \in todo[Janitor] \cup handled[Janitor] : hashOf'[f] = hashOf[f]
      BY <1>0, <1>1, <1>2, <1>5, <2>2
    <3>2. QED
      BY <3>1 DEF Shape, Selected, BatchOf
  <2>3. QED
    BY <2>1, <2>2
<1>10. DueWhilePruning'
  BY <1>0 DEF Shape, TypeOK, DueWhilePruning, Open, Sessions
<1>11. QED
  BY <1>1, <1>3, <1>4, <1>6, <1>7, <1>8, <1>9, <1>10 DEF Shape

LEMMA NextShape == Shape /\ [Next]_vars => Shape'
<1> SUFFICES ASSUME Shape, [Next]_vars PROVE Shape'
  OBVIOUS
<1>1. CASE UNCHANGED vars
  <2>1. Open' = Open /\ \A f \in Refs : BatchOf(f)' = BatchOf(f)
    BY <1>1 DEF vars, Open, BatchOf
  <2>2. TypeOK' /\ Paired' /\ Clean' /\ Once'
    BY <1>1, <2>1 DEF vars, Shape, TypeOK, Paired, Clean, Once
  <2>3. InHand' /\ Stored' /\ Asked' /\ Selected' /\ DueWhilePruning'
    BY <1>1, <2>1 DEF vars, Shape, InHand, Stored, Asked, Selected, DueWhilePruning, BatchOf
  <2>4. QED
    BY <2>2, <2>3 DEF Shape
<1>2. ASSUME NEW s \in Sessions, CommitFails(s) \/ Abort(s) PROVE Shape'
  BY <1>2, RollBackShape DEF CommitFails, Abort
<1>3. QED
  BY <1>1, <1>2, BeginShape, WriteShape, BeginPruneShape, SelectShape, UnreferenceShape,
     CommitShape DEF Next

-----------------------------------------------------------------------------
(* Counting references.                                                    *)

LEMMA Counted ==
  ASSUME Shape, NEW h \in Hashes
  PROVE  /\ IsFiniteSet(Pointing(h)) /\ Cardinality(Pointing(h)) \in Nat
         /\ \A s \in Sessions : IsFiniteSet(Own(s, h)) /\ Cardinality(Own(s, h)) \in Nat
         /\ IsFiniteSet(Taken(h)) /\ Cardinality(Taken(h)) \in Nat
         /\ Taken(h) \subseteq Pointing(h) /\ Cardinality(Taken(h)) <= Cardinality(Pointing(h))
<1>0. Janitor \in Sessions
  BY DEF Sessions
<1>1. /\ Pointing(h) \in SUBSET Refs /\ Taken(h) \in SUBSET Refs
      /\ \A s \in Sessions : Own(s, h) \in SUBSET Refs
      /\ Taken(h) \in SUBSET Pointing(h)
  BY <1>0 DEF Shape, TypeOK, Pointing, Own, Taken
<1>2. IsFiniteSet(Pointing(h)) /\ IsFiniteSet(Taken(h)) /\ \A s \in Sessions : IsFiniteSet(Own(s, h))
  BY <1>1, RefsAssumption, FS_Subset
<1>3. Cardinality(Taken(h)) <= Cardinality(Pointing(h))
  BY <1>1, <1>2, FS_Subset
<1>4. QED
  BY <1>1, <1>2, <1>3, FS_CardinalityType

\* One more reference handled.
LEMMA WriteCounts ==
  ASSUME Shape, NEW r \in Runs, NEW f \in Refs, Write(r, f)
  PROVE  /\ Cardinality(Own(r, content[f])') = Cardinality(Own(r, content[f])) + 1
         /\ \A q \in Sessions, g \in Hashes :
              <<q, g>> # <<r, content[f]>> => Own(q, g)' = Own(q, g)
         /\ \A g \in Hashes : Pointing(g)' = Pointing(g) /\ Taken(g)' = Taken(g)
<1>0. /\ r \in Sessions /\ r # Janitor /\ content[f] \in Hashes
      /\ f \in todo[r] /\ f \notin handled[r]
      /\ UNCHANGED <<content, hashOf>>
      /\ handled' = [handled EXCEPT ![r] = @ \cup {f}]
  BY MarkersAssumption DEF Write, Handle, Shape, TypeOK, Once, Sessions
<1>1. Own(r, content[f])' = Own(r, content[f]) \cup {f} /\ f \notin Own(r, content[f])
  BY <1>0 DEF Own, Shape, TypeOK
<1>2. Cardinality(Own(r, content[f]) \cup {f}) = Cardinality(Own(r, content[f])) + 1
  BY <1>0, <1>1, Counted, FS_AddElement
<1>3. \A q \in Sessions, g \in Hashes :
        <<q, g>> # <<r, content[f]>> => Own(q, g)' = Own(q, g)
  BY <1>0 DEF Own, Shape, TypeOK
<1>4. \A g \in Hashes : Pointing(g)' = Pointing(g) /\ Taken(g)' = Taken(g)
  BY <1>0 DEF Pointing, Taken, Shape, TypeOK, Sessions
<1>5. QED
  BY <1>1, <1>2, <1>3, <1>4

\* A commit turns the references an audit handled into committed ones.
LEMMA CommitCounts ==
  ASSUME Shape, NEW r \in Runs, Commit(r), NEW h \in Hashes
  PROVE  /\ Pointing(h) \subseteq Pointing(h)'
         /\ Cardinality(Pointing(h)') = Cardinality(Pointing(h)) + Cardinality(Own(r, h))
<1>0. r \in Sessions /\ r # Janitor
  BY MarkersAssumption DEF Sessions
<1>1. /\ handled[r] \subseteq Refs
      /\ \A f \in Refs \ handled[r] : hashOf'[f] = hashOf[f]
      /\ \A f \in handled[r] : hashOf'[f] = content[f] /\ hashOf[f] = NoBlob
  BY <1>0, CommitColumns DEF Shape, TypeOK, InHand
<1>2. Pointing(h)' = Pointing(h) \cup Own(r, h) /\ Pointing(h) \cap Own(r, h) = {}
  BY <1>1, MarkersAssumption DEF Pointing, Own
<1>3. /\ IsFiniteSet(Pointing(h)) /\ IsFiniteSet(Own(r, h))
      /\ Cardinality(Pointing(h)) \in Nat /\ Cardinality(Own(r, h)) \in Nat
  BY <1>0, Counted
<1>4. Cardinality(Pointing(h) \cup Own(r, h)) =
        Cardinality(Pointing(h)) + Cardinality(Own(r, h)) - Cardinality(Pointing(h) \cap Own(r, h))
  BY <1>3, FS_Union
<1>5. Cardinality(Pointing(h) \cap Own(r, h)) = 0
  BY <1>2, FS_EmptySet
<1>6. QED
  BY <1>2, <1>3, <1>4, <1>5

-----------------------------------------------------------------------------
(* While nothing is pruned, audits may overlap as they like.               *)

\* Steps that leave the committed state, the objects and the sessions' counts
\* of every open audit alone.
LEMMA OverlapQuiet ==
  ASSUME OverlapInv, Shape', Idle', UNCHANGED <<content, refcount, hashOf, objects>>,
         \A r \in Runs : \/ UNCHANGED <<got[r], mem[r], handled[r]>>
                         \/ got'[r] = Nothing
  PROVE  OverlapInv'
<1>1. \A h \in Hashes : Pointing(h)' = Pointing(h)
  BY DEF Pointing
<1>2. Rows' = Rows
  BY DEF Rows
<1>3. NeverOvercounted' /\ NoDangling' /\ RowsBacked'
  BY <1>1, <1>2 DEF OverlapInv, NeverOvercounted, NoDangling, RowsBacked
<1>4. Counts'
  <2> SUFFICES ASSUME NEW r \in Runs, NEW h \in Hashes, got'[r][h] # Unread
               PROVE  /\ got'[r][h] <= Cardinality(Pointing(h)')
                      /\ mem'[r][h] > 0 /\ mem'[r][h] <= got'[r][h] + Cardinality(Own(r, h)')
                      /\ h \in objects'
                      /\ got'[r][h] > 0 => refcount'[h] > 0
    BY DEF Counts
  <2>1. got'[r] = got[r] /\ mem'[r] = mem[r] /\ handled'[r] = handled[r]
    BY DEF Nothing
  <2>2. Own(r, h)' = Own(r, h)
    BY <2>1 DEF Own
  <2>3. QED
    BY <1>1, <2>1, <2>2 DEF OverlapInv, Counts
<1>5. QED
  BY <1>3, <1>4 DEF OverlapInv

LEMMA WriteOverlap ==
  ASSUME OverlapInv, NEW r \in Runs, NEW f \in Refs, Write(r, f) PROVE OverlapInv'
<1> DEFINE h == content[f]
<1>0. /\ r \in Sessions /\ r # Janitor /\ Janitor \in Sessions /\ h \in Hashes
      /\ UNCHANGED <<content, refcount, hashOf, due>>
      /\ Remember(r, h, Bump(Get(r, h)))
      /\ todo'[Janitor] = todo[Janitor] /\ handled'[Janitor] = handled[Janitor]
      /\ objects' = IF Get(r, h) = 0 THEN objects \cup {h} ELSE objects
  BY MarkersAssumption DEF Write, Handle, OverlapInv, Shape, TypeOK, Sessions
<1>1. Shape' /\ Shape
  BY WriteShape DEF OverlapInv
<1>11. h' = h
  BY <1>0
<1>2. Get(r, h) \in Nat /\ Bump(Get(r, h)) = Get(r, h) + 1
  BY <1>0, <1>1, GetType DEF Shape, Bump
<1>3. /\ Cardinality(Own(r, h)') = Cardinality(Own(r, h)) + 1
      /\ \A q \in Sessions, g \in Hashes : <<q, g>> # <<r, h>> => Own(q, g)' = Own(q, g)
      /\ \A g \in Hashes : Pointing(g)' = Pointing(g)
  BY <1>1, WriteCounts
<1> HIDE DEF h
<1>4. /\ \A q \in Sessions, g \in Hashes :
           <<q, g>> # <<r, h>> => got'[q][g] = got[q][g] /\ mem'[q][g] = mem[q][g]
      /\ mem'[r][h] = Get(r, h) + 1
      /\ got'[r][h] = IF got[r][h] = Unread THEN refcount[h] ELSE got[r][h]
      /\ \A q \in Sessions : q # r => got'[q] = got[q]
  BY <1>0, <1>1, <1>2, RememberEffect DEF Shape
<1>5. Idle'
  BY <1>0, <1>4 DEF OverlapInv, Idle
<1>6. objects \subseteq objects' /\ h \in objects'
  <2>1. CASE Get(r, h) = 0
    BY <1>0, <2>1
  <2>2. CASE Get(r, h) > 0 /\ got[r][h] = Unread
    BY <1>0, <2>2 DEF Get, OverlapInv, RowsBacked, Rows
  <2>3. CASE got[r][h] # Unread
    BY <1>0, <2>3 DEF OverlapInv, Counts
  <2>4. QED
    BY <1>2, <2>1, <2>2, <2>3
<1>7. Rows' = Rows
  BY <1>0 DEF Rows
<1>8. NeverOvercounted' /\ NoDangling' /\ RowsBacked'
  BY <1>0, <1>3, <1>6, <1>7 DEF OverlapInv, NeverOvercounted, NoDangling, RowsBacked
<1>9. Counts'
  <2> SUFFICES ASSUME NEW q \in Runs, NEW g \in Hashes, got'[q][g] # Unread
               PROVE  /\ got'[q][g] <= Cardinality(Pointing(g)')
                      /\ mem'[q][g] > 0 /\ mem'[q][g] <= got'[q][g] + Cardinality(Own(q, g)')
                      /\ g \in objects'
                      /\ got'[q][g] > 0 => refcount'[g] > 0
    BY DEF Counts
  <2>0. q \in Sessions
    BY DEF Sessions
  <2>1. CASE <<q, g>> # <<r, h>>
    BY <1>0, <1>3, <1>4, <1>6, <2>0, <2>1 DEF OverlapInv, Counts
  <2>2. CASE q = r /\ g = h /\ got[r][h] = Unread
    <3>1. got'[r][h] = refcount[h] /\ mem'[r][h] = refcount[h] + 1 /\ refcount[h] \in Nat
      BY <1>0, <1>1, <1>4, <2>2 DEF Get, Shape, TypeOK
    <3>2. Cardinality(Own(r, h)) \in Nat /\ refcount[h] <= Cardinality(Pointing(h))
      BY <1>0, <1>1, Counted DEF OverlapInv, NeverOvercounted
    <3>3. Own(q, g)' = Own(r, h)' /\ Pointing(g)' = Pointing(h)'
      BY <1>11, <2>2 DEF Own, Pointing
    <3>4. QED
      BY <1>0, <1>3, <1>6, <2>2, <3>1, <3>2, <3>3
  <2>3. CASE q = r /\ g = h /\ got[r][h] # Unread
    <3>1. /\ got'[r][h] = got[r][h] /\ mem'[r][h] = mem[r][h] + 1
          /\ got[r][h] \in Nat /\ mem[r][h] \in Nat /\ Cardinality(Own(r, h)) \in Nat
      BY <1>0, <1>1, <1>4, <2>3, Counted DEF Get, Shape, TypeOK, Paired
    <3>2. /\ got[r][h] <= Cardinality(Pointing(h))
          /\ mem[r][h] > 0 /\ mem[r][h] <= got[r][h] + Cardinality(Own(r, h))
          /\ got[r][h] > 0 => refcount[h] > 0
      BY <1>0, <2>3 DEF OverlapInv, Counts
    <3>3. Own(q, g)' = Own(r, h)' /\ Pointing(g)' = Pointing(h)'
      BY <1>11, <2>3 DEF Own, Pointing
    <3>4. QED
      BY <1>0, <1>3, <1>6, <2>3, <3>1, <3>2, <3>3
  <2>4. QED
    BY <2>1, <2>2, <2>3
<1>10. QED
  BY <1>1, <1>5, <1>8, <1>9 DEF OverlapInv

LEMMA CommitOverlap ==
  ASSUME OverlapInv, NEW r \in Runs, Commit(r) PROVE OverlapInv'
<1>0. /\ r \in Sessions /\ r # Janitor /\ Janitor \in Sessions /\ Shape /\ Shape'
      /\ Close(r) /\ UNCHANGED <<content, objects, due>>
      /\ refcount' = [h \in Hashes |-> IF Changed(r, h) THEN mem[r][h] ELSE refcount[h]]
  BY MarkersAssumption, CommitShape DEF Commit, OverlapInv, Sessions
<1>1. /\ got'[r] = Nothing
      /\ \A q \in Sessions : q # r =>
           todo'[q] = todo[q] /\ handled'[q] = handled[q] /\ got'[q] = got[q] /\ mem'[q] = mem[q]
  BY <1>0, CloseEffect DEF Shape
<1>2. Idle'
  BY <1>0, <1>1 DEF OverlapInv, Idle
<1>3. \A h \in Hashes :
        /\ Pointing(h) \subseteq Pointing(h)'
        /\ Cardinality(Pointing(h)') = Cardinality(Pointing(h)) + Cardinality(Own(r, h))
        /\ Cardinality(Pointing(h)) \in Nat /\ Cardinality(Own(r, h)) \in Nat
  BY <1>0, CommitCounts, Counted
<1>4. \A h \in Hashes : Changed(r, h) =>
        /\ got[r][h] \in Nat /\ mem[r][h] \in Nat
        /\ mem[r][h] > 0 /\ h \in objects
        /\ mem[r][h] <= Cardinality(Pointing(h)) + Cardinality(Own(r, h))
  <2> SUFFICES ASSUME NEW h \in Hashes, Changed(r, h)
               PROVE  /\ got[r][h] \in Nat /\ mem[r][h] \in Nat
                      /\ mem[r][h] > 0 /\ h \in objects
                      /\ mem[r][h] <= Cardinality(Pointing(h)) + Cardinality(Own(r, h))
    OBVIOUS
  <2>1. got[r][h] # Unread
    BY DEF Changed
  <2>2. got[r][h] \in Nat /\ mem[r][h] \in Nat
    BY <1>0, <2>1 DEF Shape, TypeOK, Paired
  <2>3. /\ got[r][h] <= Cardinality(Pointing(h))
        /\ mem[r][h] > 0 /\ mem[r][h] <= got[r][h] + Cardinality(Own(r, h)) /\ h \in objects
    BY <2>1 DEF OverlapInv, Counts
  <2>4. QED
    BY <1>3, <2>2, <2>3
<1>5. \A h \in Hashes :
        /\ refcount[h] \in Nat
        /\ refcount'[h] = IF Changed(r, h) THEN mem[r][h] ELSE refcount[h]
        /\ refcount[h] > 0 => refcount'[h] > 0
  BY <1>0, <1>4 DEF Shape, TypeOK
<1>6. NeverOvercounted'
  <2> SUFFICES ASSUME NEW h \in Hashes PROVE refcount'[h] <= Cardinality(Pointing(h)')
    BY DEF NeverOvercounted
  <2>1. refcount[h] <= Cardinality(Pointing(h))
    BY DEF OverlapInv, NeverOvercounted
  <2>2. QED
    BY <1>3, <1>4, <1>5, <2>1
<1>7. RowsBacked'
  BY <1>0, <1>4, <1>5 DEF OverlapInv, RowsBacked, Rows
<1>8. NoDangling'
  <2> SUFFICES ASSUME NEW f \in Refs, hashOf'[f] # NoBlob PROVE hashOf'[f] \in Rows' /\ hashOf'[f] \in objects'
    BY DEF NoDangling
  <2>0. hashOf'[f] \in Hashes
    BY <1>0 DEF Shape, TypeOK
  <2>1. refcount'[hashOf'[f]] > 0
    <3>1. CASE f \in handled[r]
      <4>1. hashOf'[f] = content[f] /\ got[r][content[f]] # Unread /\ content[f] \in Hashes
        BY <1>0, <3>1, CommitColumns DEF Shape, Asked, TypeOK
      <4>2. CASE Changed(r, content[f])
        BY <1>4, <1>5, <4>1, <4>2
      <4>3. CASE ~Changed(r, content[f])
        <5>1. got[r][content[f]] \in Nat /\ mem[r][content[f]] = got[r][content[f]]
          BY <1>0, <4>1, <4>3 DEF Changed, Shape, TypeOK
        <5>2. mem[r][content[f]] > 0 /\ (got[r][content[f]] > 0 => refcount[content[f]] > 0)
          BY <4>1 DEF OverlapInv, Counts
        <5>3. QED
          BY <1>5, <4>1, <5>1, <5>2
      <4>4. QED
        BY <4>2, <4>3
    <3>2. CASE f \notin handled[r]
      <4>1. hashOf'[f] = hashOf[f]
        BY <1>0, <3>2, CommitColumns
      <4>2. refcount[hashOf[f]] > 0
        BY <4>1 DEF OverlapInv, NoDangling, Rows
      <4>3. QED
        BY <1>5, <2>0, <4>1, <4>2
    <3>3. QED
      BY <3>1, <3>2
  <2>2. hashOf'[f] \in Rows'
    BY <2>0, <2>1 DEF Rows
  <2>3. QED
    BY <1>7, <2>2 DEF RowsBacked
<1>9. Counts'
  <2> SUFFICES ASSUME NEW q \in Runs, NEW g \in Hashes, got'[q][g] # Unread
               PROVE  /\ got'[q][g] <= Cardinality(Pointing(g)')
                      /\ mem'[q][g] > 0 /\ mem'[q][g] <= got'[q][g] + Cardinality(Own(q, g)')
                      /\ g \in objects'
                      /\ got'[q][g] > 0 => refcount'[g] > 0
    BY DEF Counts
  <2>1. q # r /\ q \in Sessions
    BY <1>1 DEF Nothing, Sessions
  <2>2. got'[q] = got[q] /\ mem'[q] = mem[q] /\ Own(q, g)' = Own(q, g)
    BY <1>0, <1>1, <2>1 DEF Own
  <2>3. /\ got[q][g] \in Nat /\ got[q][g] <= Cardinality(Pointing(g))
        /\ mem[q][g] > 0 /\ mem[q][g] <= got[q][g] + Cardinality(Own(q, g))
        /\ g \in objects /\ (got[q][g] > 0 => refcount[g] > 0)
    BY <1>0, <2>1, <2>2 DEF OverlapInv, Counts, Shape, TypeOK
  <2>4. got[q][g] <= Cardinality(Pointing(g)')
    BY <1>3, <2>3
  <2>5. QED
    BY <1>0, <1>5, <2>2, <2>3, <2>4
<1>10. QED
  BY <1>0, <1>2, <1>6, <1>7, <1>8, <1>9 DEF OverlapInv

\* Everything that ends without a commit, and every start.
LEMMA RollBackOverlap ==
  ASSUME OverlapInv, NEW s \in Open, RollBack(s) PROVE OverlapInv'
<1>0. s \in Sessions /\ Janitor \in Sessions /\ Close(s) /\ Shape' /\ Shape
      /\ UNCHANGED <<content, refcount, hashOf, objects>> /\ (due' = {} \/ due' = due)
  BY RollBackShape DEF OverlapInv, RollBack, LeftBehind, Open, Sessions
<1>1. /\ todo'[s] = {} /\ handled'[s] = {} /\ got'[s] = Nothing
      /\ \A q \in Sessions : q # s =>
           todo'[q] = todo[q] /\ handled'[q] = handled[q] /\ got'[q] = got[q] /\ mem'[q] = mem[q]
  BY <1>0, CloseEffect DEF Shape
<1>2. Idle'
  BY <1>0, <1>1 DEF OverlapInv, Idle
<1>3. QED
  BY <1>0, <1>1, <1>2, OverlapQuiet DEF Sessions

LEMMA JanitorOverlap ==
  ASSUME OverlapInv, Prunable = {}, BeginPrune \/ Commit(Janitor) PROVE OverlapInv'
<1>0. Janitor \in Sessions /\ Shape
  BY DEF OverlapInv, Sessions
<1>1. CASE BeginPrune
  <2>1. due' = {} /\ UNCHANGED <<content, refcount, hashOf, objects, todo, handled, got, mem>>
    BY <1>1 DEF BeginPrune
  <2>2. Shape' /\ Idle'
    BY <1>0, <1>1, <2>1, BeginPruneShape DEF OverlapInv, Idle
  <2>3. QED
    BY <2>1, <2>2, OverlapQuiet
<1>2. CASE Commit(Janitor)
  <2>1. /\ Shape' /\ Close(Janitor) /\ UNCHANGED <<content, objects, due>>
        /\ got[Janitor] = Nothing /\ handled[Janitor] = {} /\ due = {}
    BY <1>0, <1>2, CommitShape DEF Commit, OverlapInv, Idle
  <2>2. /\ todo'[Janitor] = {} /\ handled'[Janitor] = {} /\ got'[Janitor] = Nothing
        /\ \A q \in Sessions : q # Janitor =>
             todo'[q] = todo[q] /\ handled'[q] = handled[q] /\ got'[q] = got[q] /\ mem'[q] = mem[q]
    BY <1>0, <2>1, CloseEffect DEF Shape
  <2>3. \A h \in Hashes : ~Changed(Janitor, h)
    BY <2>1 DEF Changed, Nothing
  <2>4. refcount' = refcount
    BY <1>0, <1>2, <2>3 DEF Commit, Shape, TypeOK
  <2>5. hashOf' = hashOf
    BY <1>0, <1>2, <2>1 DEF Commit, Shape, TypeOK
  <2>6. Idle'
    BY <2>1, <2>2 DEF Idle
  <2>7. QED
    BY <2>1, <2>2, <2>4, <2>5, <2>6, OverlapQuiet, MarkersAssumption DEF Sessions
<1>3. QED
  BY <1>1, <1>2

LEMMA InitOverlap == Init => OverlapInv
<1> SUFFICES ASSUME Init PROVE OverlapInv
  OBVIOUS
<1>1. Idle /\ Counts /\ RowsBacked /\ NoDangling
  BY DEF Init, Idle, Counts, RowsBacked, NoDangling, Rows, Sessions, Nothing
<1>2. \A h \in Hashes : Cardinality(Pointing(h)) \in Nat
  BY InitShape, Counted
<1>3. NeverOvercounted
  BY <1>2 DEF Init, NeverOvercounted
<1>4. QED
  BY <1>1, <1>3, InitShape DEF OverlapInv

LEMMA NextOverlap == Prunable = {} /\ OverlapInv /\ [Next]_vars => OverlapInv'
<1> SUFFICES ASSUME Prunable = {}, OverlapInv, [Next]_vars PROVE OverlapInv'
  OBVIOUS
<1>0. Shape /\ due = {} /\ todo[Janitor] = {}
  BY DEF OverlapInv, Idle
<1>1. CASE UNCHANGED vars
  <2>1. Shape' /\ Idle' /\ UNCHANGED <<content, refcount, hashOf, objects, got, mem, handled>>
    BY <1>0, <1>1, NextShape DEF vars, OverlapInv, Idle
  <2>2. QED
    BY <2>1, OverlapQuiet
<1>2. ASSUME NEW r \in Runs, Begin(r) PROVE OverlapInv'
  <2>1. /\ Shape' /\ r # Janitor /\ Janitor \in Sessions
        /\ UNCHANGED <<content, refcount, hashOf, objects, due, handled, got, mem>>
    BY <1>0, <1>2, BeginShape, MarkersAssumption DEF Begin, Sessions
  <2>2. todo'[Janitor] = todo[Janitor]
    BY <1>0, <1>2, <2>1 DEF Begin, Shape, TypeOK
  <2>3. Idle'
    BY <2>1, <2>2 DEF OverlapInv, Idle
  <2>4. QED
    BY <2>1, <2>3, OverlapQuiet
<1>3. ASSUME NEW b \in Batches, Select(b) PROVE FALSE
  BY <1>0, <1>3 DEF Select
<1>4. ASSUME NEW f \in Refs, Unreference(f) PROVE FALSE
  BY <1>0, <1>4 DEF Unreference, Handle
<1>5. ASSUME NEW s \in Sessions, Commit(s) PROVE OverlapInv'
  BY <1>5, CommitOverlap, JanitorOverlap DEF Sessions
<1>6. ASSUME NEW s \in Sessions, CommitFails(s) \/ Abort(s) PROVE OverlapInv'
  BY <1>6, RollBackOverlap DEF CommitFails, Abort
<1>7. QED
  BY <1>1, <1>2, <1>3, <1>4, <1>5, <1>6, WriteOverlap, JanitorOverlap DEF Next

\* Every variable keeps its type, whatever overlaps and fails.
THEOREM TypeCorrect == Spec => []TypeOK
<1>1. Shape => TypeOK
  BY DEF Shape
<1>2. QED
  BY <1>1, InitShape, NextShape, PTL DEF Spec

\* As long as nothing is pruned, any number of audits may overlap, fail and
\* race for the same content: what a committed Resource or FindingRecord
\* refers to has its Blob row and its bytes.
THEOREM NoDanglingHolds ==
  ASSUME Prunable = {} PROVE Spec => []NoDangling
<1>1. OverlapInv => NoDangling
  BY DEF OverlapInv
<1>2. OverlapInv /\ [Next]_vars => OverlapInv'
  BY NextOverlap
<1>3. QED
  BY <1>1, <1>2, InitOverlap, PTL DEF Spec

\* And no refcount is above the number of rows that point at its hash: the
\* increments overlapping audits lose are never made up.
THEOREM NeverOvercountedHolds ==
  ASSUME Prunable = {} PROVE Spec => []NeverOvercounted
<1>1. OverlapInv => NeverOvercounted
  BY DEF OverlapInv
<1>2. OverlapInv /\ [Next]_vars => OverlapInv'
  BY NextOverlap
<1>3. QED
  BY <1>1, <1>2, InitOverlap, PTL DEF Spec

-----------------------------------------------------------------------------
(* While sessions do not overlap, refcounts are exact.                     *)

\* One more reference released.
LEMMA ReleaseCounts ==
  ASSUME Shape, NEW f \in Refs, Unreference(f)
  PROVE  /\ f \in todo[Janitor] /\ hashOf[f] \in Hashes
         /\ Cardinality(Taken(hashOf[f])') = Cardinality(Taken(hashOf[f])) + 1
         /\ Cardinality(Taken(hashOf[f])) + 1 <= Cardinality(Pointing(hashOf[f]))
         /\ \A g \in Hashes : g # hashOf[f] => Taken(g)' = Taken(g)
         /\ \A g \in Hashes : Pointing(g)' = Pointing(g)
         /\ \A r \in Runs, g \in Hashes : Own(r, g)' = Own(r, g)
<1>0. /\ Janitor \in Sessions /\ Janitor \notin Runs
      /\ f \in todo[Janitor] /\ f \notin handled[Janitor] /\ hashOf[f] \in Hashes
      /\ hashOf' = hashOf /\ content' = content
      /\ handled' = [handled EXCEPT ![Janitor] = @ \cup {f}]
  BY MarkersAssumption DEF Unreference, Handle, Shape, TypeOK, Once, Selected, Sessions
<1>1. /\ Taken(hashOf[f])' = Taken(hashOf[f]) \cup {f} /\ f \notin Taken(hashOf[f])
      /\ Taken(hashOf[f]) \cup {f} \in SUBSET Pointing(hashOf[f])
  BY <1>0 DEF Taken, Pointing, Shape, TypeOK
<1>2. Cardinality(Taken(hashOf[f]) \cup {f}) = Cardinality(Taken(hashOf[f])) + 1
  BY <1>0, <1>1, Counted, FS_AddElement
<1>3. Cardinality(Taken(hashOf[f]) \cup {f}) <= Cardinality(Pointing(hashOf[f]))
  BY <1>0, <1>1, Counted, FS_Subset
<1>4. /\ \A g \in Hashes : g # hashOf[f] => Taken(g)' = Taken(g)
      /\ \A g \in Hashes : Pointing(g)' = Pointing(g)
      /\ \A r \in Runs, g \in Hashes : Own(r, g)' = Own(r, g)
  BY <1>0 DEF Taken, Pointing, Own, Shape, TypeOK, Sessions
<1>5. QED
  BY <1>0, <1>1, <1>2, <1>3, <1>4

\* A prune unsets the references it released.
LEMMA PruneCounts ==
  ASSUME Shape, Commit(Janitor), NEW h \in Hashes
  PROVE  Cardinality(Pointing(h)') = Cardinality(Pointing(h)) - Cardinality(Taken(h))
<1>0. /\ Janitor \in Sessions
      /\ \A f \in Refs \ handled[Janitor] : hashOf'[f] = hashOf[f]
      /\ \A f \in handled[Janitor] : hashOf'[f] = NoBlob
  BY CommitColumns DEF Sessions
<1>1. Pointing(h)' = Pointing(h) \ Taken(h) /\ Pointing(h) \cap Taken(h) = Taken(h)
  BY <1>0, MarkersAssumption DEF Pointing, Taken, Shape, TypeOK
<1>2. IsFiniteSet(Pointing(h))
  BY Counted
<1>3. Cardinality(Pointing(h) \ Taken(h)) =
        Cardinality(Pointing(h)) - Cardinality(Pointing(h) \cap Taken(h))
  BY <1>2, FS_Difference
<1>4. QED
  BY <1>1, <1>3

\* What a session does not hold, it has not counted.
LEMMA NotCounted ==
  ASSUME Shape, NEW s \in Sessions, NEW h \in Hashes, got[s][h] = Unread
  PROVE  /\ s \in Runs => Cardinality(Own(s, h)) = 0
         /\ s = Janitor => Cardinality(Taken(h)) = 0
<1>1. s \in Runs => Own(s, h) = {}
  BY DEF Shape, Asked, Own
<1>2. s = Janitor => Taken(h) = {}
  BY DEF Shape, Selected, Taken
<1>3. QED
  BY <1>1, <1>2, FS_EmptySet

\* Starting or ending a session without a commit leaves the books alone.
LEMMA SerialQuiet ==
  ASSUME SerialInv, Shape', Alone', UNCHANGED <<content, refcount, hashOf>>,
         \A s \in Sessions : \/ UNCHANGED <<got[s], mem[s], handled[s]>>
                             \/ got'[s] = Nothing
  PROVE  SerialInv'
<1>1. RefcountExact'
  BY DEF SerialInv, RefcountExact, Pointing
<1>2. InStep'
  <2> SUFFICES ASSUME NEW s \in Sessions, NEW h \in Hashes, got'[s][h] # Unread
               PROVE  /\ got'[s][h] = refcount'[h]
                      /\ s \in Runs => mem'[s][h] = got'[s][h] + Cardinality(Own(s, h)')
                      /\ s = Janitor => mem'[s][h] = got'[s][h] - Cardinality(Taken(h)')
    BY DEF InStep
  <2>1. got'[s] = got[s] /\ mem'[s] = mem[s] /\ handled'[s] = handled[s]
    BY DEF Nothing
  <2>2. Own(s, h)' = Own(s, h) /\ (s = Janitor => Taken(h)' = Taken(h))
    BY <2>1 DEF Own, Taken
  <2>3. QED
    BY <2>1, <2>2 DEF SerialInv, InStep
<1>3. QED
  BY <1>1, <1>2 DEF SerialInv

\* Room for one session means that none is open.
LEMMA RoomForOne ==
  ASSUME Alone, MaxOpen <= 1, Cardinality(Open) < MaxOpen PROVE Open = {}
<1>1. IsFiniteSet(Open)
  <2>1. CASE Open = {}
    BY <2>1, FS_EmptySet
  <2>2. CASE Open # {}
    <3>1. PICK s \in Open : TRUE
      BY <2>2
    <3>2. Open = {s}
      BY <3>1 DEF Alone
    <3>3. QED
      BY <3>2, FS_Singleton
  <2>3. QED
    BY <2>1, <2>2
<1>2. Cardinality(Open) = 0
  BY <1>1, FS_CardinalityType, MaxOpenAssumption
<1>3. QED
  BY <1>1, <1>2, FS_EmptySet

LEMMA WriteSerial ==
  ASSUME SerialInv, NEW r \in Runs, NEW f \in Refs, Write(r, f) PROVE SerialInv'
<1> DEFINE h == content[f]
<1>0. /\ r \in Sessions /\ r # Janitor /\ h \in Hashes /\ h' = h /\ Shape /\ Shape'
      /\ UNCHANGED <<content, refcount, hashOf, pc>>
      /\ Remember(r, h, Bump(Get(r, h)))
  BY MarkersAssumption, WriteShape DEF Write, SerialInv, Shape, TypeOK, Sessions
<1>1. Get(r, h) \in Nat /\ Bump(Get(r, h)) = Get(r, h) + 1
  BY <1>0, GetType DEF Shape, Bump
<1>2. /\ Cardinality(Own(r, h)') = Cardinality(Own(r, h)) + 1
      /\ \A q \in Sessions, g \in Hashes : <<q, g>> # <<r, h>> => Own(q, g)' = Own(q, g)
      /\ \A g \in Hashes : Pointing(g)' = Pointing(g) /\ Taken(g)' = Taken(g)
  BY <1>0, WriteCounts
<1> HIDE DEF h
<1>3. /\ \A q \in Sessions, g \in Hashes :
           <<q, g>> # <<r, h>> => got'[q][g] = got[q][g] /\ mem'[q][g] = mem[q][g]
      /\ mem'[r][h] = Get(r, h) + 1
      /\ got'[r][h] = IF got[r][h] = Unread THEN refcount[h] ELSE got[r][h]
  BY <1>0, <1>1, RememberEffect DEF Shape
<1>4. Alone' /\ RefcountExact'
  BY <1>0, <1>2 DEF SerialInv, Alone, Open, RefcountExact
<1>5. got'[r][h] = refcount[h] /\ mem'[r][h] = got'[r][h] + Cardinality(Own(r, h)')
  <2>1. Cardinality(Own(r, h)) \in Nat /\ refcount[h] \in Nat
    BY <1>0, Counted DEF Shape, TypeOK
  <2>2. CASE got[r][h] = Unread
    BY <1>0, <1>2, <1>3, <2>1, <2>2, NotCounted DEF Get
  <2>3. CASE got[r][h] # Unread
    <3>1. got[r][h] = refcount[h] /\ mem[r][h] = got[r][h] + Cardinality(Own(r, h))
      BY <1>0, <2>3 DEF SerialInv, InStep
    <3>2. QED
      BY <1>2, <1>3, <2>1, <2>3, <3>1 DEF Get
  <2>4. QED
    BY <2>2, <2>3
<1>6. InStep'
  <2> SUFFICES ASSUME NEW s \in Sessions, NEW g \in Hashes, got'[s][g] # Unread
               PROVE  /\ got'[s][g] = refcount'[g]
                      /\ s \in Runs => mem'[s][g] = got'[s][g] + Cardinality(Own(s, g)')
                      /\ s = Janitor => mem'[s][g] = got'[s][g] - Cardinality(Taken(g)')
    BY DEF InStep
  <2>1. CASE s = r /\ g = h
    <3>1. Own(s, g)' = Own(r, h)'
      BY <1>0, <2>1 DEF Own
    <3>2. QED
      BY <1>0, <1>5, <2>1, <3>1
  <2>2. CASE <<s, g>> # <<r, h>>
    BY <1>0, <1>2, <1>3, <2>2 DEF SerialInv, InStep
  <2>3. QED
    BY <2>1, <2>2
<1>7. QED
  BY <1>0, <1>4, <1>6 DEF SerialInv

LEMMA UnreferenceSerial ==
  ASSUME SerialInv, NEW f \in Refs, Unreference(f)
  PROVE  /\ SerialInv'
         /\ Get(Janitor, hashOf[f]) > 0
         /\ mem'[Janitor][hashOf[f]] = Get(Janitor, hashOf[f]) - 1
<1> DEFINE h == hashOf[f]
           n == Get(Janitor, h)
<1>0. /\ Janitor \in Sessions /\ Janitor \notin Runs /\ Shape /\ Shape'
      /\ UNCHANGED <<content, refcount, hashOf, pc>> /\ h' = h
  BY MarkersAssumption, UnreferenceShape DEF Unreference, SerialInv, Sessions
<1>1. /\ h \in Hashes
      /\ Cardinality(Taken(h)') = Cardinality(Taken(h)) + 1
      /\ Cardinality(Taken(h)) + 1 <= Cardinality(Pointing(h))
      /\ \A g \in Hashes : g # h => Taken(g)' = Taken(g)
      /\ \A g \in Hashes : Pointing(g)' = Pointing(g)
      /\ \A r \in Runs, g \in Hashes : Own(r, g)' = Own(r, g)
  BY <1>0, ReleaseCounts
<1>2. refcount[h] = Cardinality(Pointing(h)) /\ refcount[h] \in Nat /\ Cardinality(Taken(h)) \in Nat
  BY <1>0, <1>1, Counted DEF SerialInv, RefcountExact, Shape, TypeOK
<1>3. n = refcount[h] - Cardinality(Taken(h))
  <2>1. CASE got[Janitor][h] = Unread
    BY <1>0, <1>1, <1>2, <2>1, NotCounted DEF Get
  <2>2. CASE got[Janitor][h] # Unread
    BY <1>0, <1>1, <2>2 DEF Get, SerialInv, InStep
  <2>3. QED
    BY <2>1, <2>2
<1>4. n \in Nat /\ n > 0 /\ n - 1 \in Nat
  BY <1>1, <1>2, <1>3
<1>5. Remember(Janitor, h, n - 1)
  <2>1. Remember(Janitor, h, IF Spent(n - 1) THEN 0 ELSE n - 1)
    BY <1>4 DEF Unreference
  <2>2. Spent(n - 1) => n - 1 = 0
    BY <1>4 DEF Spent
  <2>3. QED
    BY <2>1, <2>2
<1> HIDE DEF h, n
<1>6. /\ \A q \in Sessions, g \in Hashes :
           <<q, g>> # <<Janitor, h>> => got'[q][g] = got[q][g] /\ mem'[q][g] = mem[q][g]
      /\ mem'[Janitor][h] = n - 1
      /\ got'[Janitor][h] = IF got[Janitor][h] = Unread THEN refcount[h] ELSE got[Janitor][h]
  BY <1>0, <1>1, <1>4, <1>5, RememberEffect DEF Shape
<1>7. Alone' /\ RefcountExact'
  BY <1>0, <1>1 DEF SerialInv, Alone, Open, RefcountExact
<1>8. got'[Janitor][h] = refcount[h]
  BY <1>0, <1>1, <1>6 DEF SerialInv, InStep
<1>9. mem'[Janitor][h] = refcount[h] - Cardinality(Taken(h)')
  BY <1>1, <1>2, <1>3, <1>6
<1>10. InStep'
  <2> SUFFICES ASSUME NEW s \in Sessions, NEW g \in Hashes, got'[s][g] # Unread
               PROVE  /\ got'[s][g] = refcount'[g]
                      /\ s \in Runs => mem'[s][g] = got'[s][g] + Cardinality(Own(s, g)')
                      /\ s = Janitor => mem'[s][g] = got'[s][g] - Cardinality(Taken(g)')
    BY DEF InStep
  <2>1. CASE s = Janitor /\ g = h
    <3>1. Taken(g)' = Taken(h)'
      BY <1>0, <2>1 DEF Taken
    <3>2. QED
      BY <1>0, <1>8, <1>9, <2>1, <3>1
  <2>2. CASE s = Janitor /\ g # h
    BY <1>0, <1>1, <1>6, <2>2 DEF SerialInv, InStep
  <2>3. CASE s # Janitor
    BY <1>0, <1>1, <1>6, <2>3 DEF SerialInv, InStep, Sessions
  <2>4. QED
    BY <2>1, <2>2, <2>3
<1>11. QED
  BY <1>0, <1>4, <1>6, <1>7, <1>10 DEF SerialInv, h, n

\* The session that commits is the only one, so it leaves nothing open.
LEMMA CommitSerial ==
  ASSUME SerialInv, NEW s \in Sessions, Commit(s) PROVE SerialInv'
<1>0. /\ Shape /\ Shape' /\ s \in Open /\ Close(s)
      /\ UNCHANGED content /\ Janitor \notin Runs
      /\ pc' = [pc EXCEPT ![s] = Finished(s)]
      /\ refcount' = [h \in Hashes |-> IF Changed(s, h) THEN mem[s][h] ELSE refcount[h]]
  BY MarkersAssumption, CommitShape DEF Commit, SerialInv
<1>1. \A q \in Sessions : q # s => q \notin Open
  BY <1>0 DEF SerialInv, Alone
<1>2. \A q \in Sessions : got'[q] = Nothing
  BY <1>0, <1>1, CloseEffect DEF Shape, Clean
<1>3. InStep'
  BY <1>2 DEF InStep, Nothing
<1>4. Open' = {}
  <2>1. Finished(s) \notin {"bodies", "shots", "pruning"}
    BY DEF Finished
  <2>2. QED
    BY <1>0, <1>1, <2>1 DEF Open, Shape, TypeOK
<1>5. Alone'
  BY <1>4 DEF Alone
<1>6. RefcountExact'
  <2> SUFFICES ASSUME NEW h \in Hashes PROVE refcount'[h] = Cardinality(Pointing(h)')
    BY DEF RefcountExact
  <2>1. /\ refcount[h] = Cardinality(Pointing(h)) /\ refcount[h] \in Nat
        /\ refcount'[h] = IF Changed(s, h) THEN mem[s][h] ELSE refcount[h]
    BY <1>0 DEF SerialInv, RefcountExact, Shape, TypeOK
  <2>2. CASE s \in Runs
    <3>1. /\ Cardinality(Pointing(h)') = Cardinality(Pointing(h)) + Cardinality(Own(s, h))
          /\ Cardinality(Own(s, h)) \in Nat
      BY <1>0, <2>2, CommitCounts, Counted
    <3>2. CASE got[s][h] = Unread
      BY <1>0, <2>1, <2>2, <3>1, <3>2, NotCounted DEF Changed
    <3>3. CASE got[s][h] # Unread
      <4>1. got[s][h] = refcount[h] /\ mem[s][h] = got[s][h] + Cardinality(Own(s, h))
        BY <2>2, <3>3 DEF SerialInv, InStep
      <4>2. QED
        BY <2>1, <3>1, <3>3, <4>1 DEF Changed
    <3>4. QED
      BY <3>2, <3>3
  <2>3. CASE s = Janitor
    <3>1. /\ Cardinality(Pointing(h)') = Cardinality(Pointing(h)) - Cardinality(Taken(h))
          /\ Cardinality(Taken(h)) \in Nat
      BY <1>0, <2>3, PruneCounts, Counted
    <3>2. CASE got[s][h] = Unread
      BY <1>0, <2>1, <2>3, <3>1, <3>2, NotCounted DEF Changed
    <3>3. CASE got[s][h] # Unread
      <4>1. got[s][h] = refcount[h] /\ mem[s][h] = got[s][h] - Cardinality(Taken(h))
        BY <2>3, <3>3 DEF SerialInv, InStep
      <4>2. QED
        BY <2>1, <3>1, <3>3, <4>1 DEF Changed
    <3>4. QED
      BY <3>2, <3>3
  <2>4. QED
    BY <2>2, <2>3 DEF Sessions
<1>7. QED
  BY <1>0, <1>3, <1>5, <1>6 DEF SerialInv

LEMMA RollBackSerial ==
  ASSUME SerialInv, NEW s \in Open, RollBack(s) PROVE SerialInv' /\ Open' = {}
<1>0. /\ s \in Sessions /\ Close(s) /\ Shape /\ Shape'
      /\ UNCHANGED <<content, refcount, hashOf>>
      /\ pc' = [pc EXCEPT ![s] = IF s = Janitor THEN "idle" ELSE "failed"]
  BY RollBackShape DEF SerialInv, RollBack, Open
<1>1. \A q \in Sessions : q # s => q \notin Open
  BY DEF SerialInv, Alone
<1>2. Open' = {}
  BY <1>0, <1>1 DEF Open, Shape, TypeOK
<1>3. \A q \in Sessions : got'[q] = Nothing
  BY <1>0, <1>1, CloseEffect DEF Shape, Clean
<1>4. Alone'
  BY <1>2 DEF Alone
<1>5. SerialInv'
  BY <1>0, <1>3, <1>4, SerialQuiet
<1>6. QED
  BY <1>2, <1>5

LEMMA StartSerial ==
  ASSUME SerialInv, MaxOpen <= 1, BeginPrune \/ \E r \in Runs : Begin(r)
  PROVE  SerialInv' /\ Open = {}
<1>0. /\ Shape /\ Shape' /\ Open = {} /\ Janitor \in Sessions
      /\ UNCHANGED <<content, refcount, hashOf, handled, got, mem>>
  BY BeginShape, BeginPruneShape, RoomForOne DEF SerialInv, Begin, BeginPrune, Sessions
<1>1. PICK s \in Sessions, place \in Places : pc' = [pc EXCEPT ![s] = place]
  <2>1. CASE BeginPrune
    BY <1>0, <2>1 DEF BeginPrune, Places
  <2>2. ASSUME NEW r \in Runs, Begin(r)
        PROVE  \E s \in Sessions, place \in Places : pc' = [pc EXCEPT ![s] = place]
    <3>1. /\ r \in Sessions
          /\ pc' = [pc EXCEPT ![r] = IF pc[r] = "crawled" THEN "bodies" ELSE "shots"]
      BY <2>2 DEF Begin, Sessions
    <3>2. (IF pc[r] = "crawled" THEN "bodies" ELSE "shots") \in Places
      BY DEF Places
    <3>3. QED
      BY <3>1, <3>2
  <2>3. QED
    BY <2>1, <2>2
<1>2. Open' \subseteq {s}
  BY <1>0, <1>1 DEF Open, Shape, TypeOK
<1>3. Alone'
  BY <1>2 DEF Alone
<1>4. QED
  BY <1>0, <1>3, SerialQuiet

LEMMA SelectSerial ==
  ASSUME SerialInv, NEW b \in Batches, Select(b) PROVE SerialInv'
<1>1. /\ Shape' /\ UNCHANGED <<content, refcount, hashOf, pc, handled, got, mem>>
  BY SelectShape DEF SerialInv, Select
<1>2. Alone'
  BY <1>1 DEF SerialInv, Alone, Open
<1>3. QED
  BY <1>1, <1>2, SerialQuiet

LEMMA InitSerial == Init => SerialInv
<1> SUFFICES ASSUME Init PROVE SerialInv
  OBVIOUS
<1>1. Alone /\ InStep
  BY DEF Init, Alone, Open, InStep, Nothing
<1>2. RefcountExact
  <2> SUFFICES ASSUME NEW h \in Hashes PROVE refcount[h] = Cardinality(Pointing(h))
    BY DEF RefcountExact
  <2>1. Pointing(h) = {}
    BY MarkersAssumption DEF Init, Pointing
  <2>2. QED
    BY <2>1, FS_EmptySet DEF Init
<1>3. QED
  BY <1>1, <1>2, InitShape DEF SerialInv

LEMMA NextSerial == MaxOpen <= 1 /\ SerialInv /\ [Next]_vars => SerialInv'
<1> SUFFICES ASSUME MaxOpen <= 1, SerialInv, [Next]_vars PROVE SerialInv'
  OBVIOUS
<1>1. CASE UNCHANGED vars
  <2>1. Shape' /\ Alone' /\ UNCHANGED <<content, refcount, hashOf, got, mem, handled>>
    BY <1>1, NextShape DEF vars, SerialInv, Alone, Open
  <2>2. QED
    BY <2>1, SerialQuiet
<1>2. ASSUME NEW s \in Sessions, CommitFails(s) \/ Abort(s) PROVE SerialInv'
  BY <1>2, RollBackSerial DEF CommitFails, Abort
<1>3. QED
  BY <1>1, <1>2, StartSerial, WriteSerial, SelectSerial, UnreferenceSerial, CommitSerial DEF Next

\* With one session at a time, whatever audits and prunes fail, a refcount is
\* the number of Resource and FindingRecord rows that point at the hash.
THEOREM RefcountExactHolds ==
  ASSUME MaxOpen <= 1 PROVE Spec => []RefcountExact
<1>1. SerialInv => RefcountExact
  BY DEF SerialInv
<1>2. SerialInv /\ [Next]_vars => SerialInv'
  BY NextSerial
<1>3. QED
  BY <1>1, <1>2, InitSerial, PTL DEF Spec

-----------------------------------------------------------------------------
(* And pruning takes nothing from a kept run, unless a prune fails midway. *)

\* A count that reaches zero has released every reference to its hash.
LEMMA ZeroMeansAll ==
  ASSUME SerialInv, NEW h \in Hashes, mem[Janitor][h] = 0
  PROVE  Pointing(h) = Taken(h)
<1>0. Janitor \in Sessions /\ Shape /\ mem[Janitor][h] # Unread
  BY MarkersAssumption DEF SerialInv, Sessions
<1>1. got[Janitor][h] # Unread
  BY <1>0 DEF Shape, Paired
<1>2. /\ got[Janitor][h] = refcount[h]
      /\ mem[Janitor][h] = got[Janitor][h] - Cardinality(Taken(h))
      /\ refcount[h] = Cardinality(Pointing(h))
  BY <1>0, <1>1 DEF SerialInv, InStep, RefcountExact
<1>3. /\ IsFiniteSet(Pointing(h)) /\ Taken(h) \in SUBSET Pointing(h)
      /\ Cardinality(Pointing(h)) \in Nat /\ Cardinality(Taken(h)) \in Nat
  BY <1>0, Counted
<1>4. Cardinality(Pointing(h)) = Cardinality(Taken(h))
  BY <1>2, <1>3
<1>5. QED
  BY <1>3, <1>4, FS_Subset

LEMMA KeptInvKeeps == KeptInv => KeptEvidence
<1> SUFFICES ASSUME KeptInv, NEW f \in Refs, hashOf[f] # NoBlob, RunOf[f] \notin Prunable
             PROVE  hashOf[f] \in Rows /\ hashOf[f] \in objects
  BY DEF KeptEvidence
<1> DEFINE h == hashOf[f]
<1>0. SerialInv /\ Shape /\ h \in Hashes
  BY DEF KeptInv, SerialInv, Shape, TypeOK
<1>1. f \in Pointing(h) /\ f \notin Taken(h)
  BY DEF Pointing, Taken, KeptInv, AgedOnly
<1>2. h \in Rows
  <2>1. IsFiniteSet(Pointing(h)) /\ Cardinality(Pointing(h)) \in Nat
    BY <1>0, Counted
  <2>2. Cardinality(Pointing(h)) # 0
    BY <1>1, <2>1, FS_EmptySet
  <2>3. QED
    BY <1>0, <2>1, <2>2 DEF SerialInv, RefcountExact, Rows
<1>3. ASSUME h \notin objects PROVE FALSE
  <2>1. mem[Janitor][h] = 0
    BY <1>2, <1>3 DEF KeptInv, Backed
  <2>2. QED
    BY <1>0, <1>1, <2>1, ZeroMeansAll
<1>4. QED
  BY <1>2, <1>3

LEMMA WriteKept ==
  ASSUME KeptInv, NEW r \in Runs, NEW f \in Refs, Write(r, f) PROVE KeptInv'
<1> DEFINE h == content[f]
<1>0. /\ SerialInv /\ SerialInv' /\ Shape /\ r \in Sessions /\ r # Janitor /\ r \in Open
      /\ Janitor \in Sessions /\ h \in Hashes /\ h' = h
      /\ UNCHANGED <<content, refcount, hashOf, pc, due>>
      /\ Remember(r, h, Bump(Get(r, h)))
      /\ todo'[Janitor] = todo[Janitor] /\ handled'[Janitor] = handled[Janitor]
      /\ objects' = IF Get(r, h) = 0 THEN objects \cup {h} ELSE objects
  BY WriteSerial, MarkersAssumption DEF KeptInv, SerialInv, Write, Handle, Shape, TypeOK, Open, Sessions
<1>1. Get(r, h) \in Nat /\ Bump(Get(r, h)) \in Nat
  BY <1>0, GetType DEF Shape, Bump
<1> HIDE DEF h
<1>2. \A q \in Sessions, g \in Hashes :
        <<q, g>> # <<r, h>> => got'[q][g] = got[q][g] /\ mem'[q][g] = mem[q][g]
  BY <1>0, <1>1, RememberEffect DEF Shape
<1>3. Janitor \notin Open
  BY <1>0 DEF SerialInv, Alone
<1>4. Rows \subseteq objects /\ Rows' = Rows
  BY <1>0, <1>3 DEF KeptInv, Backed, Rows
<1>5. objects \subseteq objects' /\ h \in objects'
  <2>1. CASE Get(r, h) = 0
    BY <1>0, <2>1
  <2>2. CASE Get(r, h) > 0 /\ got[r][h] = Unread
    BY <1>0, <1>4, <2>2 DEF Get, Rows
  <2>3. CASE got[r][h] # Unread
    BY <1>0, <2>3 DEF KeptInv, BackedInHand
  <2>4. QED
    BY <1>1, <2>1, <2>2, <2>3
<1>6. Backed'
  BY <1>4, <1>5 DEF Backed
<1>7. BackedInHand'
  <2> SUFFICES ASSUME NEW q \in Runs, NEW g \in Hashes, got'[q][g] # Unread PROVE g \in objects'
    BY DEF BackedInHand
  <2>1. CASE <<q, g>> # <<r, h>>
    BY <1>2, <1>5, <2>1 DEF KeptInv, BackedInHand, Sessions
  <2>2. QED
    BY <1>5, <2>1
<1>8. AgedOnly'
  BY <1>0 DEF KeptInv, AgedOnly
<1>9. QED
  BY <1>0, <1>6, <1>7, <1>8 DEF KeptInv

LEMMA UnreferenceKept ==
  ASSUME KeptInv, NEW f \in Refs, Unreference(f) PROVE KeptInv'
<1> DEFINE h == hashOf[f]
           n == Get(Janitor, h)
<1>0. /\ SerialInv /\ SerialInv' /\ n > 0 /\ mem'[Janitor][h] = n - 1
      /\ Shape /\ Janitor \in Sessions /\ Janitor \notin Runs
      /\ f \in todo[Janitor] /\ Janitor \in Open
      /\ UNCHANGED <<content, refcount, hashOf, pc, due>> /\ h' = h
      /\ todo' = [todo EXCEPT ![Janitor] = @ \ {f}]
      /\ handled' = [handled EXCEPT ![Janitor] = @ \cup {f}]
  BY UnreferenceSerial, MarkersAssumption
     DEF KeptInv, SerialInv, Shape, Clean, Unreference, Handle, Sessions
<1>1. h \in Hashes /\ n \in Nat
  BY <1>0, ReleaseCounts, GetType DEF Shape
<1>2. /\ Remember(Janitor, h, n - 1) /\ n - 1 \in Nat
      /\ objects' = IF n = 1 THEN objects \ {h} ELSE objects
  <2>1. /\ Remember(Janitor, h, IF Spent(n - 1) THEN 0 ELSE n - 1)
        /\ objects' = IF Spent(n - 1) THEN objects \ {h} ELSE objects
    BY <1>0, <1>1 DEF Unreference
  <2>2. Spent(n - 1) <=> n = 1
    BY <1>0, <1>1 DEF Spent
  <2>3. QED
    BY <1>0, <1>1, <2>1, <2>2
<1> HIDE DEF h, n
<1>3. \A q \in Sessions, g \in Hashes :
        <<q, g>> # <<Janitor, h>> => got'[q][g] = got[q][g] /\ mem'[q][g] = mem[q][g]
  BY <1>0, <1>1, <1>2, RememberEffect DEF Shape
<1>4. Rows' = Rows /\ Open' = Open
  BY <1>0 DEF Rows, Open
<1>5. Backed'
  <2> SUFFICES ASSUME NEW g \in Rows \ objects' PROVE Janitor \in Open /\ mem'[Janitor][g] = 0
    BY <1>4 DEF Backed
  <2>0. g \in Hashes
    BY DEF Rows
  <2>1. CASE g # h
    <3>1. g \notin objects
      BY <1>2, <2>1
    <3>2. mem[Janitor][g] = 0
      BY <3>1 DEF KeptInv, Backed
    <3>3. QED
      BY <1>0, <1>3, <2>0, <2>1, <3>2
  <2>2. CASE g = h /\ n = 1
    BY <1>0, <2>2
  <2>3. CASE g = h /\ n # 1
    <3>1. mem[Janitor][h] = 0 /\ mem[Janitor][h] # Unread
      BY <1>2, <2>3, MarkersAssumption DEF KeptInv, Backed
    <3>2. got[Janitor][h] # Unread
      BY <1>0, <1>1, <3>1 DEF Shape, Paired
    <3>3. n = 0
      BY <3>1, <3>2 DEF Get, n
    <3>4. QED
      BY <1>0, <3>3
  <2>4. QED
    BY <2>1, <2>2, <2>3
<1>6. BackedInHand'
  <2> SUFFICES ASSUME NEW q \in Runs, NEW g \in Hashes, got'[q][g] # Unread PROVE FALSE
    BY DEF BackedInHand
  <2>1. q \in Sessions /\ q \notin Open
    BY <1>0 DEF SerialInv, Alone, Sessions
  <2>2. got[q][g] = Unread
    BY <1>0, <2>1 DEF Shape, Clean, Nothing
  <2>3. QED
    BY <1>0, <1>3, <2>1, <2>2
<1>7. AgedOnly'
  BY <1>0 DEF KeptInv, AgedOnly, Shape, TypeOK
<1>8. QED
  BY <1>0, <1>5, <1>6, <1>7 DEF KeptInv

LEMMA CommitKept ==
  ASSUME KeptInv, NEW s \in Sessions, Commit(s) PROVE KeptInv'
<1>0. /\ SerialInv /\ SerialInv' /\ Shape /\ s \in Open /\ Close(s)
      /\ Janitor \in Sessions /\ Janitor \notin Runs
      /\ UNCHANGED <<content, objects, due>>
      /\ refcount' = [h \in Hashes |-> IF Changed(s, h) THEN mem[s][h] ELSE refcount[h]]
  BY CommitSerial, MarkersAssumption DEF Commit, KeptInv, SerialInv, Sessions
<1>1. \A q \in Sessions : q # s => q \notin Open
  BY <1>0 DEF SerialInv, Alone
<1>2. \A q \in Sessions : got'[q] = Nothing /\ todo'[q] = {} /\ handled'[q] = {}
  BY <1>0, <1>1, CloseEffect DEF Shape, Clean
<1>3. BackedInHand'
  BY <1>2 DEF BackedInHand, Nothing, Sessions
<1>4. AgedOnly'
  BY <1>0, <1>2 DEF KeptInv, AgedOnly
<1>5. Rows' \subseteq objects'
  <2> SUFFICES ASSUME NEW h \in Hashes, refcount'[h] > 0 PROVE h \in objects
    BY <1>0 DEF Rows
  <2>1. /\ refcount'[h] = IF Changed(s, h) THEN mem[s][h] ELSE refcount[h]
        /\ got[s][h] # Unread => got[s][h] = refcount[h]
        /\ refcount[h] \in Nat
    BY <1>0 DEF SerialInv, InStep, Shape, TypeOK
  <2>2. CASE s = Janitor
    <3>1. mem[s][h] # 0
      <4> SUFFICES ASSUME mem[s][h] = 0 PROVE FALSE
        OBVIOUS
      <4>1. got[s][h] # Unread
        BY <1>0, MarkersAssumption DEF Shape, Paired
      <4>2. QED
        BY <2>1, <4>1 DEF Changed
    <3>2. refcount[h] > 0
      <4>1. CASE Changed(s, h)
        <5>1. got[s][h] = refcount[h] /\ mem[s][h] \in Nat
          BY <1>0, <2>1, <4>1 DEF Changed, Shape, TypeOK, Paired
        <5>2. mem[s][h] = got[s][h] - Cardinality(Taken(h)) /\ Cardinality(Taken(h)) \in Nat
          BY <1>0, <2>2, <4>1, Counted DEF SerialInv, InStep, Changed
        <5>3. QED
          BY <2>1, <3>1, <5>1, <5>2
      <4>2. QED
        BY <2>1, <4>1
    <3>3. QED
      BY <2>2, <3>1, <3>2 DEF KeptInv, Backed, Rows
  <2>3. CASE s \in Runs
    <3>1. CASE got[s][h] # Unread
      BY <2>3, <3>1 DEF KeptInv, BackedInHand
    <3>2. CASE got[s][h] = Unread
      <4>1. refcount[h] > 0 /\ Janitor \notin Open
        BY <1>0, <1>1, <2>1, <2>3, <3>2 DEF Changed
      <4>2. QED
        BY <4>1 DEF KeptInv, Backed, Rows
    <3>3. QED
      BY <3>1, <3>2
  <2>4. QED
    BY <2>2, <2>3 DEF Sessions
<1>6. Backed'
  BY <1>5 DEF Backed
<1>7. QED
  BY <1>0, <1>3, <1>4, <1>6 DEF KeptInv

\* Serial sessions never clash, so the retention job rolls back only when it
\* fails.
LEMMA RollBackKept ==
  ASSUME KeptInv, Janitor \notin MayAbort, NEW s \in Sessions, CommitFails(s) \/ Abort(s)
  PROVE  KeptInv'
<1>0. SerialInv /\ Shape
  BY DEF KeptInv, SerialInv
<1>1. ~Clash(s)
  BY <1>0 DEF Clash, Changed, SerialInv, InStep
<1>2. s \in Open /\ s # Janitor /\ s \in Runs /\ RollBack(s)
  BY <1>1 DEF CommitFails, Abort, Sessions
<1>3. /\ SerialInv' /\ Open' = {} /\ Janitor \in Sessions /\ Janitor \notin Open
      /\ Close(s) /\ UNCHANGED <<content, refcount, hashOf, objects, due>>
  BY <1>0, <1>2, RollBackSerial DEF RollBack, LeftBehind, SerialInv, Alone, Sessions
<1>4. \A q \in Sessions : got'[q] = Nothing /\ todo'[q] = {} /\ handled'[q] = {}
  BY <1>0, <1>2, <1>3, CloseEffect DEF Shape, Clean, SerialInv, Alone
<1>5. Backed' /\ BackedInHand' /\ AgedOnly'
  BY <1>3, <1>4 DEF KeptInv, Backed, BackedInHand, AgedOnly, Rows, Nothing, Sessions
<1>6. QED
  BY <1>3, <1>5 DEF KeptInv

\* Starts and selects.
LEMMA StartKept ==
  ASSUME KeptInv, MaxOpen <= 1,
         \/ BeginPrune
         \/ \E r \in Runs : Begin(r)
         \/ \E b \in Batches : Select(b)
  PROVE  KeptInv'
<1>0. /\ SerialInv /\ SerialInv' /\ Shape /\ Janitor \in Sessions /\ Janitor \notin Runs
      /\ UNCHANGED <<content, refcount, hashOf, objects, handled, got, mem>>
  BY StartSerial, SelectSerial, MarkersAssumption
     DEF KeptInv, SerialInv, Begin, BeginPrune, Select, Sessions
<1>1. BackedInHand' /\ Rows' = Rows
  BY <1>0 DEF KeptInv, BackedInHand, Rows
<1>2. Backed'
  <2>1. CASE BeginPrune \/ \E r \in Runs : Begin(r)
    <3>1. Open = {}
      BY <1>0, <2>1, StartSerial
    <3>2. Rows \subseteq objects
      BY <3>1 DEF KeptInv, Backed
    <3>3. QED
      BY <1>0, <1>1, <3>2 DEF Backed
  <2>2. CASE \E b \in Batches : Select(b)
    <3>1. Open' = Open
      BY <2>2 DEF Select, Open
    <3>2. QED
      BY <1>0, <1>1, <3>1 DEF KeptInv, Backed
  <2>3. QED
    BY <2>1, <2>2
<1>3. AgedOnly'
  <2>1. CASE BeginPrune
    BY <1>0, <2>1 DEF BeginPrune, KeptInv, AgedOnly
  <2>2. ASSUME NEW r \in Runs, Begin(r) PROVE AgedOnly'
    BY <1>0, <2>2 DEF Begin, KeptInv, AgedOnly, Shape, TypeOK
  <2>3. ASSUME NEW b \in Batches, Select(b) PROVE AgedOnly'
    <3>1. b[1] \in Prunable /\ due' \subseteq due
      BY <2>3 DEF Select, KeptInv, AgedOnly
    <3>2. \A f \in todo'[Janitor] : RunOf[f] = b[1]
      BY <1>0, <2>3 DEF Select, RefsOf, BatchOf, Shape, TypeOK
    <3>3. QED
      BY <1>0, <3>1, <3>2 DEF KeptInv, AgedOnly
  <2>4. QED
    BY <2>1, <2>2, <2>3
<1>4. QED
  BY <1>0, <1>1, <1>2, <1>3 DEF KeptInv

LEMMA NextKept == MaxOpen <= 1 /\ Janitor \notin MayAbort /\ KeptInv /\ [Next]_vars => KeptInv'
<1> SUFFICES ASSUME MaxOpen <= 1, Janitor \notin MayAbort, KeptInv, [Next]_vars PROVE KeptInv'
  OBVIOUS
<1>1. CASE UNCHANGED vars
  <2>1. SerialInv' /\ Open' = Open /\ Rows' = Rows
    BY <1>1, NextSerial DEF KeptInv, vars, Open, Rows
  <2>2. QED
    BY <1>1, <2>1 DEF vars, KeptInv, Backed, BackedInHand, AgedOnly
<1>2. QED
  BY <1>1, StartKept, WriteKept, UnreferenceKept, CommitKept, RollBackKept DEF Next

\* With one session at a time and no prune that fails midway, retention takes
\* evidence only from runs that aged out, whatever content runs share.
THEOREM KeptEvidenceHolds ==
  ASSUME MaxOpen <= 1, Janitor \notin MayAbort PROVE Spec => []KeptEvidence
<1>1. Init => KeptInv
  <2> SUFFICES ASSUME Init PROVE KeptInv
    OBVIOUS
  <2>1. Backed /\ BackedInHand /\ AgedOnly
    BY DEF Init, Backed, Rows, BackedInHand, AgedOnly, Nothing, Sessions
  <2>2. QED
    BY <2>1, InitSerial DEF KeptInv
<1>2. KeptInv /\ [Next]_vars => KeptInv'
  BY NextKept
<1>3. QED
  BY <1>1, <1>2, KeptInvKeeps, PTL DEF Spec
-----------------------------------------------------------------------------
(* While no audit has failed, every object is accounted for.               *)

\* Bytes without a row are those the open audit uploaded and still counts.
Accounted ==
  Unbroken => \A h \in objects \ Rows : \E r \in Runs : got[r][h] # Unread /\ mem[r][h] > 0

\* The bytes of a row the retention job released to zero are gone.
Released == \A h \in Hashes : mem[Janitor][h] = 0 => h \notin objects

OrphanInv == KeptInv /\ Accounted /\ Released

LEMMA OrphanInvCounts == OrphanInv => NoOrphans
<1> SUFFICES ASSUME OrphanInv, Unbroken, Open = {} PROVE objects = Rows
  BY DEF NoOrphans
<1>1. Rows \subseteq objects
  BY MarkersAssumption DEF OrphanInv, KeptInv, Backed, Sessions
<1>2. \A r \in Runs : got[r] = Nothing
  BY DEF OrphanInv, KeptInv, SerialInv, Shape, Clean, Sessions
<1>3. ASSUME NEW h \in objects, h \notin Rows PROVE FALSE
  <2>1. h \in Hashes
    BY DEF OrphanInv, KeptInv, SerialInv, Shape, TypeOK
  <2>2. QED
    BY <1>2, <1>3, <2>1 DEF OrphanInv, Accounted, Nothing
<1>4. QED
  BY <1>1, <1>3

LEMMA WriteOrphan ==
  ASSUME OrphanInv, NEW r \in Runs, NEW f \in Refs, Write(r, f) PROVE OrphanInv'
<1> DEFINE h == content[f]
<1>0. /\ KeptInv /\ KeptInv' /\ SerialInv /\ Shape /\ r \in Sessions /\ r # Janitor /\ r \in Open
      /\ Janitor \in Sessions /\ h \in Hashes /\ h' = h
      /\ UNCHANGED <<refcount, pc>>
      /\ Remember(r, h, Bump(Get(r, h)))
      /\ objects' = IF Get(r, h) = 0 THEN objects \cup {h} ELSE objects
  BY WriteKept, MarkersAssumption
     DEF OrphanInv, KeptInv, SerialInv, Write, Shape, TypeOK, Open, Sessions
<1>1. Bump(Get(r, h)) \in Nat /\ Bump(Get(r, h)) > 0
  BY <1>0, GetType DEF Shape, Bump
<1> HIDE DEF h
<1>2. /\ \A q \in Sessions, g \in Hashes :
           <<q, g>> # <<r, h>> => got'[q][g] = got[q][g] /\ mem'[q][g] = mem[q][g]
      /\ got'[r][h] # Unread /\ mem'[r][h] > 0
  BY <1>0, <1>1, RememberEffect DEF Shape
<1>3. Accounted'
  <2> SUFFICES ASSUME Unbroken, NEW g \in objects', g \notin Rows
               PROVE  \E q \in Runs : got'[q][g] # Unread /\ mem'[q][g] > 0
    BY <1>0 DEF Accounted, Unbroken, Rows
  <2>1. CASE g = h
    BY <1>2, <2>1
  <2>2. CASE g # h
    <3>1. g \in objects /\ g \in Hashes
      BY <1>0, <2>2 DEF Shape, TypeOK
    <3>2. PICK q \in Runs : got[q][g] # Unread /\ mem[q][g] > 0
      BY <3>1 DEF OrphanInv, Accounted
    <3>3. QED
      BY <1>2, <2>2, <3>1, <3>2 DEF Sessions
  <2>3. QED
    BY <2>1, <2>2
<1>4. Released'
  <2>1. \A g \in Hashes : mem'[Janitor][g] = Unread
    <3>1. Janitor \notin Open
      BY <1>0 DEF SerialInv, Alone
    <3>2. QED
      BY <1>0, <1>2, <3>1 DEF Shape, Clean, Paired, Nothing
  <2>2. QED
    BY <2>1, MarkersAssumption DEF Released
<1>5. QED
  BY <1>0, <1>3, <1>4 DEF OrphanInv

\* While the retention job is open, no bytes are without a row.
LEMMA PruneAccounted ==
  ASSUME SerialInv, Accounted, Janitor \in Open, Unbroken PROVE objects \subseteq Rows
<1>1. \A r \in Runs : r \in Sessions /\ r \notin Open
  BY MarkersAssumption DEF SerialInv, Alone, Sessions
<1>2. \A r \in Runs, h \in Hashes : got[r][h] = Unread
  BY <1>1 DEF SerialInv, Shape, Clean, Nothing
<1>3. objects \subseteq Hashes
  BY DEF SerialInv, Shape, TypeOK
<1>4. QED
  BY <1>2, <1>3 DEF Accounted

LEMMA UnreferenceOrphan ==
  ASSUME OrphanInv, NEW f \in Refs, Unreference(f) PROVE OrphanInv'
<1> DEFINE h == hashOf[f]
           n == Get(Janitor, h)
<1>0. /\ KeptInv /\ KeptInv' /\ SerialInv /\ n > 0 /\ mem'[Janitor][h] = n - 1
      /\ Shape /\ Janitor \in Sessions /\ Janitor \in Open
      /\ UNCHANGED <<refcount, pc>>
  BY UnreferenceKept, UnreferenceSerial, MarkersAssumption
     DEF OrphanInv, KeptInv, SerialInv, Shape, Clean, Unreference, Handle, Sessions
<1>1. h \in Hashes /\ n \in Nat
  BY <1>0, ReleaseCounts, GetType DEF Shape
<1>2. /\ Remember(Janitor, h, n - 1) /\ n - 1 \in Nat
      /\ objects' = IF n = 1 THEN objects \ {h} ELSE objects
  <2>1. /\ Remember(Janitor, h, IF Spent(n - 1) THEN 0 ELSE n - 1)
        /\ objects' = IF Spent(n - 1) THEN objects \ {h} ELSE objects
    BY <1>0, <1>1 DEF Unreference
  <2>2. Spent(n - 1) <=> n = 1
    BY <1>0, <1>1 DEF Spent
  <2>3. QED
    BY <1>0, <1>1, <2>1, <2>2
<1> HIDE DEF h, n
<1>3. \A g \in Hashes : g # h => mem'[Janitor][g] = mem[Janitor][g]
  BY <1>0, <1>1, <1>2, RememberEffect DEF Shape
<1>4. Accounted'
  <2> SUFFICES ASSUME Unbroken PROVE objects' \subseteq Rows'
    BY <1>0 DEF Accounted, Unbroken
  <2>1. objects \subseteq Rows
    BY <1>0, PruneAccounted DEF OrphanInv
  <2>2. QED
    BY <1>0, <1>2, <2>1 DEF Rows
<1>5. Released'
  <2> SUFFICES ASSUME NEW g \in Hashes, mem'[Janitor][g] = 0 PROVE g \notin objects'
    BY DEF Released
  <2>1. CASE g = h
    BY <1>0, <1>1, <1>2, <2>1
  <2>2. CASE g # h
    BY <1>2, <1>3, <2>2 DEF OrphanInv, Released
  <2>3. QED
    BY <2>1, <2>2
<1>6. QED
  BY <1>0, <1>4, <1>5 DEF OrphanInv

LEMMA CommitOrphan ==
  ASSUME OrphanInv, NEW s \in Sessions, Commit(s) PROVE OrphanInv'
<1>0. /\ KeptInv /\ KeptInv' /\ SerialInv /\ Shape /\ s \in Open /\ Close(s)
      /\ Janitor \in Sessions /\ objects' = objects
      /\ refcount' = [h \in Hashes |-> IF Changed(s, h) THEN mem[s][h] ELSE refcount[h]]
      /\ pc' = [pc EXCEPT ![s] = Finished(s)]
  BY CommitKept, MarkersAssumption DEF Commit, OrphanInv, KeptInv, SerialInv, Sessions
<1>1. \A q \in Sessions : q # s => q \notin Open
  BY <1>0 DEF SerialInv, Alone
<1>2. \A q \in Sessions, h \in Hashes : got'[q][h] = Unread /\ mem'[q][h] = Unread
  <2>1. \A q \in Sessions : got'[q] = Nothing /\ Paired'
    BY <1>0, <1>1, CloseEffect DEF Shape, Clean
  <2>2. QED
    BY <2>1 DEF Nothing, Paired
<1>3. Unbroken' => Unbroken
  <2>1. \A r \in Runs : r # s => pc'[r] = pc[r]
    BY <1>0 DEF Shape, TypeOK, Sessions
  <2>2. s \in Runs => pc[s] # "failed"
    BY <1>0 DEF Open
  <2>3. QED
    BY <2>1, <2>2 DEF Unbroken
<1>4. ASSUME Unbroken, NEW h \in objects PROVE h \in Rows'
  <2>0. /\ h \in Hashes /\ refcount[h] \in Nat
        /\ refcount'[h] = IF Changed(s, h) THEN mem[s][h] ELSE refcount[h]
    BY <1>0 DEF Shape, TypeOK
  <2>1. CASE Changed(s, h) /\ s = Janitor
    <3>1. mem[s][h] \in Nat
      BY <1>0, <2>0, <2>1 DEF Changed, Shape, TypeOK, Paired
    <3>2. mem[s][h] # 0
      BY <1>4, <2>0, <2>1 DEF OrphanInv, Released
    <3>3. QED
      BY <2>0, <2>1, <3>1, <3>2 DEF Rows
  <2>2. CASE Changed(s, h) /\ s \in Runs
    <3>1. /\ mem[s][h] = refcount[h] + Cardinality(Own(s, h)) /\ got[s][h] = refcount[h]
          /\ Cardinality(Own(s, h)) \in Nat
      BY <1>0, <2>0, <2>2, Counted DEF SerialInv, InStep, Changed
    <3>2. mem[s][h] > 0
      BY <2>0, <2>2, <3>1 DEF Changed
    <3>3. QED
      BY <2>0, <2>2, <3>2 DEF Rows
  <2>3. CASE ~Changed(s, h)
    <3>1. ASSUME h \notin Rows PROVE FALSE
      <4>1. PICK r \in Runs : got[r][h] # Unread /\ mem[r][h] > 0
        BY <1>4, <3>1 DEF OrphanInv, Accounted
      <4>2. r = s
        BY <1>0, <1>1, <2>0, <4>1 DEF Sessions, Shape, Clean, Nothing
      <4>3. got[s][h] = 0
        BY <1>0, <2>0, <3>1, <4>1, <4>2 DEF SerialInv, InStep, Rows
      <4>4. QED
        BY <2>3, <4>1, <4>2, <4>3 DEF Changed
    <3>2. QED
      BY <2>0, <2>3, <3>1 DEF Rows
  <2>4. QED
    BY <2>1, <2>2, <2>3 DEF Sessions
<1>5. Accounted'
  BY <1>0, <1>3, <1>4 DEF Accounted
<1>6. Released'
  BY <1>0, <1>2, MarkersAssumption DEF Released
<1>7. QED
  BY <1>0, <1>5, <1>6 DEF OrphanInv

\* After a failure nothing is claimed; the retention job does not roll back.
LEMMA RollBackOrphan ==
  ASSUME OrphanInv, Janitor \notin MayAbort, NEW s \in Sessions, CommitFails(s) \/ Abort(s)
  PROVE  OrphanInv'
<1>0. KeptInv /\ KeptInv' /\ SerialInv /\ Shape
  BY RollBackKept DEF OrphanInv, KeptInv, SerialInv
<1>1. ~Clash(s)
  BY <1>0 DEF Clash, Changed, SerialInv, InStep
<1>2. s \in Open /\ s # Janitor /\ s \in Runs /\ RollBack(s)
  BY <1>1 DEF CommitFails, Abort, Sessions
<1>3. ~Unbroken'
  <2>1. pc'[s] = "failed"
    BY <1>0, <1>2 DEF RollBack, Shape, TypeOK
  <2>2. QED
    BY <1>2, <2>1 DEF Unbroken
<1>4. mem'[Janitor] = mem[Janitor] /\ objects' = objects
  BY <1>0, <1>2, CloseEffect DEF RollBack, LeftBehind, Shape, Sessions
<1>5. Accounted' /\ Released'
  BY <1>3, <1>4 DEF OrphanInv, Accounted, Released
<1>6. QED
  BY <1>0, <1>5 DEF OrphanInv

LEMMA StartOrphan ==
  ASSUME OrphanInv, MaxOpen <= 1,
         \/ BeginPrune
         \/ \E r \in Runs : Begin(r)
         \/ \E b \in Batches : Select(b)
  PROVE  OrphanInv'
<1>1. /\ KeptInv /\ KeptInv' /\ Shape
      /\ UNCHANGED <<refcount, objects, got, mem>>
  BY StartKept DEF OrphanInv, KeptInv, SerialInv, Begin, BeginPrune, Select
<1>2. Unbroken' => Unbroken
  <2>1. CASE BeginPrune
    BY <1>1, <2>1, MarkersAssumption DEF BeginPrune, Unbroken, Shape, TypeOK
  <2>2. ASSUME NEW r \in Runs, Begin(r) PROVE Unbroken' => Unbroken
    BY <1>1, <2>2 DEF Begin, Unbroken, Shape, TypeOK
  <2>3. CASE \E b \in Batches : Select(b)
    BY <2>3 DEF Select, Unbroken
  <2>4. QED
    BY <2>1, <2>2, <2>3
<1>3. Rows' = Rows
  BY <1>1 DEF Rows
<1>4. Accounted' /\ Released'
  BY <1>1, <1>2, <1>3 DEF OrphanInv, Accounted, Released
<1>5. QED
  BY <1>1, <1>4 DEF OrphanInv

LEMMA InitOrphan == Init => OrphanInv
<1> SUFFICES ASSUME Init PROVE OrphanInv
  OBVIOUS
<1>1. Backed /\ BackedInHand /\ AgedOnly
  BY DEF Init, Backed, Rows, BackedInHand, AgedOnly, Nothing, Sessions
<1>2. Accounted /\ Released
  BY DEF Init, Accounted, Released
<1>3. QED
  BY <1>1, <1>2, InitSerial DEF OrphanInv, KeptInv

LEMMA NextOrphan ==
  MaxOpen <= 1 /\ Janitor \notin MayAbort /\ OrphanInv /\ [Next]_vars => OrphanInv'
<1> SUFFICES ASSUME MaxOpen <= 1, Janitor \notin MayAbort, OrphanInv, [Next]_vars
             PROVE  OrphanInv'
  OBVIOUS
<1>1. CASE UNCHANGED vars
  <2>1. KeptInv' /\ Rows' = Rows /\ (Unbroken' <=> Unbroken)
    BY <1>1, NextKept DEF OrphanInv, vars, Rows, Unbroken
  <2>2. QED
    BY <1>1, <2>1 DEF vars, OrphanInv, Accounted, Released
<1>2. QED
  BY <1>1, StartOrphan, WriteOrphan, UnreferenceOrphan, CommitOrphan, RollBackOrphan DEF Next

\* With one session at a time and no prune that fails midway: as long as no
\* audit has failed, object storage holds the bytes of the Blob rows and no
\* others whenever no session is open.
THEOREM NoOrphansHolds ==
  ASSUME MaxOpen <= 1, Janitor \notin MayAbort PROVE Spec => []NoOrphans
<1>1. Init => OrphanInv
  BY InitOrphan
<1>2. OrphanInv /\ [Next]_vars => OrphanInv'
  BY NextOrphan
<1>3. QED
  BY <1>1, <1>2, OrphanInvCounts, PTL DEF Spec

\* An audit asks for a row only when it writes, and reads the committed count.
LEMMA FirstRead ==
  ASSUME Shape, Next, NEW r \in Runs, NEW h \in Hashes,
         got[r][h] = Unread, got'[r][h] # Unread
  PROVE  r \in Open /\ got'[r][h] = refcount[h]
<1>0. r \in Sessions /\ r # Janitor /\ Janitor \in Sessions
  BY MarkersAssumption DEF Sessions
<1>1. ASSUME NEW q \in Runs, Begin(q) \/ BeginPrune \/ (\E b \in Batches : Select(b)) PROVE FALSE
  BY <1>1 DEF Begin, BeginPrune, Select
<1>2. ASSUME NEW s \in Sessions, Close(s) PROVE FALSE
  <2>1. got'[s] = Nothing /\ (r # s => got'[r] = got[r])
    BY <1>0, <1>2, CloseEffect DEF Shape
  <2>2. QED
    BY <2>1 DEF Nothing
<1>3. ASSUME NEW f \in Refs, Unreference(f) PROVE FALSE
  <2>1. got'[r] = got[r]
    BY <1>0, <1>3 DEF Unreference, Remember, Shape, TypeOK
  <2>2. QED
    BY <2>1
<1>4. ASSUME NEW q \in Runs, NEW f \in Refs, Write(q, f)
      PROVE  r \in Open /\ got'[r][h] = refcount[h]
  <2> DEFINE g == content[f]
  <2>0. /\ q \in Sessions /\ q \in Open /\ g \in Hashes
        /\ Remember(q, g, Bump(Get(q, g))) /\ Bump(Get(q, g)) \in Nat
    BY <1>4, GetType DEF Write, Shape, TypeOK, Sessions, Open, Bump
  <2> HIDE DEF g
  <2>1. /\ <<r, h>> # <<q, g>> => got'[r][h] = got[r][h]
        /\ got'[q][g] = IF got[q][g] = Unread THEN refcount[g] ELSE got[q][g]
    BY <1>0, <2>0, RememberEffect DEF Shape
  <2>2. QED
    BY <2>0, <2>1
<1>5. QED
  BY <1>0, <1>1, <1>2, <1>3, <1>4 DEF Next, Commit, CommitFails, Abort, RollBack, Sessions

\* With one session at a time and no prune that fails midway: as long as no
\* audit has failed, only the first to store some content uploads it.
THEOREM UploadedOnceHolds ==
  ASSUME MaxOpen <= 1, Janitor \notin MayAbort PROVE Spec => UploadedOnce
<1>1. Init => OrphanInv
  BY InitOrphan
<1>2. OrphanInv /\ [Next]_vars => OrphanInv'
  BY NextOrphan
<1>3. OrphanInv /\ [Next]_vars =>
        [\A r \in Runs, h \in Hashes :
           Unbroken /\ got[r][h] = Unread /\ got'[r][h] = 0 => h \notin objects]_vars
  <2> SUFFICES ASSUME OrphanInv, Next, NEW r \in Runs, NEW h \in Hashes,
                      Unbroken, got[r][h] = Unread, got'[r][h] = 0, h \in objects
               PROVE  FALSE
    OBVIOUS
  <2>1. SerialInv /\ Shape /\ 0 # Unread
    BY MarkersAssumption DEF OrphanInv, KeptInv, SerialInv
  <2>2. r \in Open /\ h \notin Rows
    BY <2>1, FirstRead DEF Rows
  <2>3. PICK q \in Runs : got[q][h] # Unread
    BY <2>2 DEF OrphanInv, Accounted
  <2>4. q \in Open
    BY <2>1, <2>3 DEF Shape, Clean, Nothing, Sessions
  <2>5. QED
    BY <2>1, <2>2, <2>3, <2>4 DEF SerialInv, Alone
<1>4. QED
  BY <1>1, <1>2, <1>3, PTL DEF Spec, UploadedOnce
=============================================================================
