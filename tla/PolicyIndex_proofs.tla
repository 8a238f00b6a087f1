-------------------------- MODULE PolicyIndex_proofs --------------------------
(***************************************************************************)
(* What holds of PolicyIndex for any policies, sources, edits, faults and  *)
(* checks: the types; that a finding cites the text it was graded on; that *)
(* an index, once there, stays; and, where one process watches, that the   *)
(* index is as new as the hashes, or known not to be.                      *)
(***************************************************************************)
EXTENDS PolicyIndex, TLAPS

\* No answer in the cache was graded on another text than its key says.
CacheHonest == \A r \in cache : r.key.tool = "policy" => r.basis = r.key.told

GradedInv == CacheHonest /\ GradedOnCited

\* Where a watch stands.  What it staged is no newer than the sources are now and
\* will be pending; what it scraped is no older than what is hashed.
Watched ==
  /\ \A p \in Policies : Covers(live, snapshot[p]) /\ DOMAIN snapshot[p] \subseteq SourcesOf[p]
  /\ \A w \in Watchers, p \in Policies : staged[w][p] # None =>
       /\ wpc[w] = "hash" /\ p \in todo[w]
       /\ Covers(live, staged[w][p]) /\ DOMAIN staged[w][p] \subseteq SourcesOf[p]
  /\ \A w \in Watchers : wpc[w] = "store" =>
       /\ scraped[w].policy \in todo[w]
       /\ \A s \in DOMAIN scraped[w].text \cap DOMAIN snapshot[scraped[w].policy] :
            scraped[w].text[s] >= snapshot[scraped[w].policy][s]

IndexInv == Watched /\ IndexFollowsHash

OneWatcher == \A v, w \in Watchers : v = w

-----------------------------------------------------------------------------
\* What is read from sources is a content.
LEMMA ReadType ==
  ASSUME live \in [Sources -> 0..MaxVersion], NEW S \in SUBSET Sources
  PROVE  Read(S) \in Contents /\ DOMAIN Read(S) = S
  <1>1. Read(S) \in [S -> 0..MaxVersion]
    BY DEF Read
  <1> QED
    BY <1>1 DEF Contents, Read

LEMMA ExceptType ==
  ASSUME NEW A, NEW B, NEW f \in [A -> B], NEW a, NEW b \in B
  PROVE  [f EXCEPT ![a] = b] \in [A -> B]
  OBVIOUS

LEMMA NoneType == None \in Contents
  <1>1. None \in [{} -> 0..MaxVersion]
    BY DEF None
  <1> QED
    BY <1>1 DEF Contents

\* A content gives a number to every source it knows.
LEMMA ContentType ==
  ASSUME NEW t \in Contents
  PROVE  DOMAIN t \subseteq Sources /\ \A s \in DOMAIN t : t[s] \in Nat
  <1>1. PICK S \in SUBSET Sources : t \in [S -> 0..MaxVersion]
    BY DEF Contents
  <1> QED
    BY <1>1, PolicyAssumption

LEMMA KeyTypes ==
  ASSUME TypeOK, NEW c \in Checks
  PROVE  EmbedKey(c) \in Keys /\ GradeKey(c) \in Keys /\ Told(c) \in Contents
  <1>1. Told(c) \in Contents
    BY NoneType DEF TypeOK, Told
  <1>2. KindOf[c] \in Tools
    BY PolicyAssumption DEF Tools
  <1> QED
    BY <1>1, <1>2, NoneType DEF EmbedKey, GradeKey, Keys, Tools

LEMMA FaultType ==
  ASSUME TypeOK, Fault
  PROVE  faults' \in 0..MaxFaults
  BY PolicyAssumption DEF TypeOK, Fault

LEMMA InitType == Init => TypeOK
  <1> SUFFICES ASSUME Init PROVE TypeOK
    OBVIOUS
  <1> USE NoneType, PolicyAssumption DEF Init
  <1>1. live \in [Sources -> 0..MaxVersion] /\ faults \in 0..MaxFaults
    OBVIOUS
  <1>2. snapshot \in [Policies -> Contents] /\ index \in [Policies -> Contents]
    OBVIOUS
  <1>3. scraped \in [Watchers -> [policy : Policies \cup {"none"}, text : Contents]]
    BY DEF NoScrape
  <1>4. found \in [Checks -> [how : {"none", "graded", "unevaluated", "dropped"}, basis : Contents]]
    BY DEF Unfound
  <1> QED
    BY <1>1, <1>2, <1>3, <1>4 DEF TypeOK

LEMMA WatchType == TypeOK /\ (\E w \in Watchers : WatchStep(w) \/ Break(w)) => TypeOK'
  <1> SUFFICES ASSUME TypeOK, NEW w \in Watchers, WatchStep(w) \/ Break(w) PROVE TypeOK'
    OBVIOUS
  <1>1. Quit(w) => /\ wpc' \in [Watchers -> {"idle", "hash", "reindex", "store"}]
                   /\ left' \in [Watchers -> SUBSET Policies]
                   /\ staged' \in [Watchers -> [Policies -> Contents]]
                   /\ fresh' \in [Watchers -> SUBSET Policies]
                   /\ todo' \in [Watchers -> SUBSET Policies]
                   /\ scraped' \in [Watchers -> [policy : Policies \cup {"none"}, text : Contents]]
                   /\ rebuilt' \in [Watchers -> BOOLEAN]
    BY NoneType DEF TypeOK, Quit, NoScrape
  <1>2. CASE Begin(w)
    BY <1>2 DEF TypeOK, Begin, check
  <1>3. CASE Commit(w)
    <2>1. CASE (\E p \in fresh[w] : snapshot[p] # None) /\ Quit(w) /\ UNCHANGED snapshot
      BY <1>1, <1>3, <2>1 DEF TypeOK, Commit, check
    <2>2. CASE ~(\E p \in fresh[w] : snapshot[p] # None)
      <3>1. staged[w] \in [Policies -> Contents]
        BY DEF TypeOK
      <3>2. snapshot' = [p \in Policies |-> IF staged[w][p] # None THEN staged[w][p] ELSE snapshot[p]]
        BY <1>3, <2>2 DEF Commit
      <3>3. snapshot' \in [Policies -> Contents]
        BY <3>1, <3>2 DEF TypeOK
      <3>4. [p \in Policies |-> None] \in [Policies -> Contents]
        BY NoneType
      <3>5. staged' = [staged EXCEPT ![w] = [p \in Policies |-> None]]
        BY <1>3, <2>2 DEF Commit
      <3>6. staged' \in [Watchers -> [Policies -> Contents]]
        BY <3>4, <3>5 DEF TypeOK
      <3>7. wpc' \in [Watchers -> {"idle", "hash", "reindex", "store"}]
        <4>1. wpc' = [wpc EXCEPT ![w] = "reindex"]
          BY <1>3, <2>2 DEF Commit
        <4> QED
          BY <4>1 DEF TypeOK
      <3>8. fresh' \in [Watchers -> SUBSET Policies]
        <4>1. fresh' = [fresh EXCEPT ![w] = {}]
          BY <1>3, <2>2 DEF Commit
        <4> QED
          BY <4>1 DEF TypeOK
      <3>9. UNCHANGED <<left, todo, scraped, rebuilt, live, index, cache, check, owed, faults>>
        BY <1>3, <2>2 DEF Commit
      <3> QED
        BY <3>3, <3>6, <3>7, <3>8, <3>9 DEF TypeOK, check
    <2> QED
      BY <1>3, <2>1, <2>2 DEF Commit
  <1>4. CASE Store(w)
    <2>1. index' \in [Policies -> Contents] /\ owed' \in [Policies -> BOOLEAN]
      BY <1>4 DEF TypeOK, Store
    <2>2. scraped' \in [Watchers -> [policy : Policies \cup {"none"}, text : Contents]]
      BY <1>4, NoneType DEF TypeOK, Store, NoScrape
    <2> QED
      BY <1>4, <2>1, <2>2 DEF TypeOK, Store, check
  <1>5. CASE Finish(w)
    <2>1. cache' \subseteq Rows /\ \A r, q \in cache' : r.key = q.key => r = q
      BY <1>5 DEF TypeOK, Finish
    <2> QED
      BY <1>1, <1>5, <2>1 DEF TypeOK, Finish, check
  <1>6. CASE Break(w)
    <2>1. owed' \in [Policies -> BOOLEAN]
      BY <1>6 DEF TypeOK, Break
    <2> QED
      BY <1>1, <1>6, <2>1, FaultType DEF TypeOK, Break, check
  <1>7. ASSUME NEW p \in Policies, NEW S \in SUBSET Sources, Hash(w, p, S)
        PROVE  TypeOK'
    <2>1. Read(S) \in Contents
      BY ReadType DEF TypeOK
    <2>2. faults' \in 0..MaxFaults
      BY <1>7, FaultType DEF Hash, Reached, TypeOK
    <2>3. staged' = staged \/ staged' = [staged EXCEPT ![w][p] = Read(S)]
      BY <1>7 DEF Hash
    <2>4. [staged[w] EXCEPT ![p] = Read(S)] \in [Policies -> Contents]
      BY <2>1 DEF TypeOK
    <2>5. staged' \in [Watchers -> [Policies -> Contents]]
      BY <2>3, <2>4 DEF TypeOK
    <2>7. fresh' \in [Watchers -> SUBSET Policies]
      <3> DEFINE new == IF snapshot[p] = None THEN fresh[w] \cup {p} ELSE fresh[w]
      <3>1. fresh' = fresh \/ fresh' = [fresh EXCEPT ![w] = new]
        BY <1>7 DEF Hash
      <3>2. new \in SUBSET Policies
        BY DEF TypeOK
      <3>3. [fresh EXCEPT ![w] = new] \in [Watchers -> SUBSET Policies]
        BY <3>2, ExceptType DEF TypeOK
      <3> QED
        BY <3>1, <3>3 DEF TypeOK
    <2>8. todo' \in [Watchers -> SUBSET Policies]
      <3> DEFINE new == IF Needs(p, Read(S)) THEN todo[w] \cup {p} ELSE todo[w]
      <3>1. todo' = todo \/ todo' = [todo EXCEPT ![w] = new]
        BY <1>7 DEF Hash
      <3>2. new \in SUBSET Policies
        BY DEF TypeOK
      <3>3. [todo EXCEPT ![w] = new] \in [Watchers -> SUBSET Policies]
        BY <3>2, ExceptType DEF TypeOK
      <3> QED
        BY <3>1, <3>3 DEF TypeOK
    <2>9. left' \in [Watchers -> SUBSET Policies]
      BY <1>7 DEF TypeOK, Hash
    <2>10. UNCHANGED <<live, snapshot, index, cache, wpc, scraped, rebuilt, check, owed>>
      BY <1>7 DEF Hash
    <2> QED
      BY <2>2, <2>5, <2>7, <2>8, <2>9, <2>10 DEF TypeOK, check
  <1>8. ASSUME NEW p \in Policies, NEW S \in SUBSET Sources, Scrape(w, p, S)
        PROVE  TypeOK'
    <2>1. Read(S) \in Contents
      BY ReadType DEF TypeOK
    <2>2. faults' \in 0..MaxFaults
      BY <1>8, FaultType DEF Scrape, Reached, TypeOK
    <2>3. scraped' = scraped \/ scraped' = [scraped EXCEPT ![w] = [policy |-> p, text |-> Read(S)]]
      BY <1>8 DEF Scrape
    <2>4. scraped' \in [Watchers -> [policy : Policies \cup {"none"}, text : Contents]]
      <3> DEFINE new == [policy |-> p, text |-> Read(S)]
      <3>1. new \in [policy : Policies \cup {"none"}, text : Contents]
        BY <2>1
      <3>2. [scraped EXCEPT ![w] = new] \in [Watchers -> [policy : Policies \cup {"none"}, text : Contents]]
        BY <3>1, ExceptType DEF TypeOK
      <3> QED
        BY <2>3, <3>2 DEF TypeOK
    <2>5. owed' = owed \/ owed' = [owed EXCEPT ![p] = TRUE]
      BY <1>8 DEF Scrape
    <2>6. owed' \in [Policies -> BOOLEAN]
      BY <2>5 DEF TypeOK
    <2>7. todo' = todo \/ todo' = [todo EXCEPT ![w] = @ \ {p}]
      BY <1>8 DEF Scrape
    <2>8. todo' \in [Watchers -> SUBSET Policies]
      <3>1. todo[w] \ {p} \in SUBSET Policies
        BY DEF TypeOK
      <3>2. [todo EXCEPT ![w] = @ \ {p}] \in [Watchers -> SUBSET Policies]
        BY <3>1, ExceptType DEF TypeOK
      <3> QED
        BY <2>7, <3>2 DEF TypeOK
    <2>9. wpc' = wpc \/ wpc' = [wpc EXCEPT ![w] = "store"]
      BY <1>8 DEF Scrape
    <2>10. wpc' \in [Watchers -> {"idle", "hash", "reindex", "store"}]
      BY <2>9 DEF TypeOK
    <2>11. UNCHANGED <<live, snapshot, index, cache, left, staged, fresh, rebuilt, check>>
      BY <1>8 DEF Scrape
    <2> QED
      BY <2>2, <2>4, <2>6, <2>8, <2>10, <2>11 DEF TypeOK, check
  <1> QED
    BY <1>2, <1>3, <1>4, <1>5, <1>6, <1>7, <1>8 DEF WatchStep

LEMMA PutType ==
  ASSUME TypeOK, NEW key \in Keys, NEW basis \in Contents, Put(key, basis)
  PROVE  cache' \subseteq Rows /\ \A r, q \in cache' : r.key = q.key => r = q
  <1> DEFINE row == [key |-> key, basis |-> basis, old |-> FALSE]
  <1>1. row \in Rows
    BY DEF Rows
  <1>2. cache' = {r \in cache : r.key # key} \cup {row} /\ row.key = key
    BY DEF Put
  <1> HIDE DEF row
  <1> QED
    BY <1>1, <1>2 DEF TypeOK

CheckStep(c) == Retrieve(c) \/ Query(c) \/ Keep(c) \/ Lookup(c) \/ Save(c)

LEMMA CheckType == TypeOK /\ (\E c \in Checks : CheckStep(c)) => TypeOK'
  <1> SUFFICES ASSUME TypeOK, NEW c \in Checks, CheckStep(c) PROVE TypeOK'
    OBVIOUS
  <1>1. \A how \in {"graded", "unevaluated", "dropped"}, basis \in Contents : End(c, how, basis) =>
          /\ cpc' \in [Checks -> {"start", "query", "keep", "lookup", "save", "done"}]
          /\ found' \in [Checks -> [how : {"none", "graded", "unevaluated", "dropped"}, basis : Contents]]
    BY DEF TypeOK, End
  <1>2. CASE Retrieve(c)
    <2>1. index[PolicyOf[c]] \in Contents
      BY PolicyAssumption DEF TypeOK
    <2>2. cited' \in [Checks -> Contents]
      BY <1>2, <2>1, NoneType DEF TypeOK, Retrieve
    <2>3. found' \in [Checks -> [how : {"none", "graded", "unevaluated", "dropped"}, basis : Contents]]
      BY <1>2, NoneType DEF TypeOK, Retrieve, Unfound
    <2>4. cpc' \in [Checks -> {"start", "query", "keep", "lookup", "save", "done"}]
      BY <1>2 DEF TypeOK, Retrieve
    <2> QED
      BY <1>2, <2>2, <2>3, <2>4 DEF TypeOK, Retrieve, watch
  <1>3. CASE Query(c)
    <2>1. faults' \in 0..MaxFaults
      BY <1>3, FaultType DEF Query, TypeOK
    <2>2. cited' = cited \/ cited' = [cited EXCEPT ![c] = None]
      BY <1>3 DEF Query
    <2>3. cited' \in [Checks -> Contents]
      BY <2>2, NoneType DEF TypeOK
    <2>4. saw' = saw \/ saw' = [saw EXCEPT ![c] = Held(EmbedKey(c))]
      BY <1>3 DEF Query
    <2>5. Held(EmbedKey(c)) \in BOOLEAN
      BY DEF Held
    <2>6. saw' \in [Checks -> BOOLEAN]
      BY <2>4, <2>5 DEF TypeOK
    <2>7. cpc' = [cpc EXCEPT ![c] = "lookup"] \/ cpc' = [cpc EXCEPT ![c] = "keep"]
      BY <1>3 DEF Query
    <2>8. cpc' \in [Checks -> {"start", "query", "keep", "lookup", "save", "done"}]
      BY <2>7 DEF TypeOK
    <2>9. UNCHANGED <<live, snapshot, index, cache, watch, found, owed>>
      BY <1>3 DEF Query
    <2> QED
      BY <2>1, <2>3, <2>6, <2>8, <2>9 DEF TypeOK, watch
  <1>4. CASE Keep(c)
    <2>1. cache' \subseteq Rows /\ \A r, q \in cache' : r.key = q.key => r = q
      BY <1>4, KeyTypes, NoneType, PutType DEF Keep, TypeOK
    <2>2. cited' \in [Checks -> Contents]
      BY <1>4, NoneType DEF TypeOK, Keep
    <2>3. cpc' \in [Checks -> {"start", "query", "keep", "lookup", "save", "done"}]
      BY <1>4 DEF TypeOK, Keep
    <2>4. saw' \in [Checks -> BOOLEAN]
      BY <1>4 DEF TypeOK, Keep
    <2> QED
      BY <1>4, <2>1, <2>2, <2>3, <2>4 DEF TypeOK, Keep, watch
  <1>5. CASE Lookup(c)
    <2>1. faults' \in 0..MaxFaults
      BY <1>5, FaultType DEF Lookup, TypeOK
    <2>2. \A r \in cache : r.basis \in Contents
      BY DEF TypeOK, Rows
    <2>3. saw' \in [Checks -> BOOLEAN]
      BY <1>5 DEF TypeOK, Lookup, Held
    <2>4. /\ cpc' \in [Checks -> {"start", "query", "keep", "lookup", "save", "done"}]
          /\ found' \in [Checks -> [how : {"none", "graded", "unevaluated", "dropped"}, basis : Contents]]
      BY <1>1, <1>5, <2>2, NoneType DEF TypeOK, Lookup, Usable
    <2> QED
      BY <1>5, <2>1, <2>3, <2>4 DEF TypeOK, Lookup, watch
  <1>6. CASE Save(c)
    <2>1. cache' \subseteq Rows /\ \A r, q \in cache' : r.key = q.key => r = q
      BY <1>6, KeyTypes, PutType DEF Save, TypeOK
    <2>2. /\ cpc' \in [Checks -> {"start", "query", "keep", "lookup", "save", "done"}]
          /\ found' \in [Checks -> [how : {"none", "graded", "unevaluated", "dropped"}, basis : Contents]]
      BY <1>1, <1>6, KeyTypes, NoneType DEF Save
    <2>3. saw' \in [Checks -> BOOLEAN]
      BY <1>6 DEF TypeOK, Save
    <2> QED
      BY <1>6, <2>1, <2>2, <2>3 DEF TypeOK, Save, watch
  <1> QED
    BY <1>2, <1>3, <1>4, <1>5, <1>6 DEF CheckStep

LEMMA StepType == TypeOK /\ [Next]_vars => TypeOK'
  <1> SUFFICES ASSUME TypeOK, [Next]_vars PROVE TypeOK'
    OBVIOUS
  <1>1. ASSUME NEW s \in Sources, Edit(s) PROVE TypeOK'
    <2>1. live' \in [Sources -> 0..MaxVersion]
      BY <1>1, PolicyAssumption DEF TypeOK, Edit
    <2> QED
      BY <1>1, <2>1 DEF TypeOK, Edit, watch, check
  <1>2. ASSUME NEW r \in cache, Age(r) PROVE TypeOK'
    <2>1. cache' \subseteq Rows /\ \A p, q \in cache' : p.key = q.key => p = q
      <3> DEFINE row == [r EXCEPT !.old = TRUE]
      <3>1. row \in Rows /\ row.key = r.key
        BY DEF TypeOK, Rows
      <3>2. cache' = (cache \ {r}) \cup {row}
        BY <1>2 DEF Age
      <3> HIDE DEF row
      <3> QED
        BY <3>1, <3>2 DEF TypeOK
    <2> QED
      BY <1>2, <2>1 DEF TypeOK, Age, watch, check
  <1>3. ASSUME NEW keep \in SUBSET cache, Prune(keep) PROVE TypeOK'
    BY <1>3 DEF TypeOK, Prune, watch, check
  <1>4. CASE UNCHANGED vars
    BY <1>4 DEF TypeOK, vars, watch, check
  <1> QED
    BY <1>1, <1>2, <1>3, <1>4, WatchType, CheckType DEF Next, CheckStep

\* All variables keep their types.
THEOREM TypeOKHolds == SafeSpec => []TypeOK
  BY InitType, StepType, PTL DEF SafeSpec

-----------------------------------------------------------------------------
(* A finding cites the text that it was graded on.                         *)

LEMMA GradedInit == Init => GradedInv
  BY DEF Init, GradedInv, CacheHonest, GradedOnCited

\* What a check is told is what the key of its answer says.
LEMMA KeyTells ==
  ASSUME NEW c \in Checks, GradeKey(c).tool = "policy"
  PROVE  KindOf[c] = "policy" /\ Told(c) = cited[c] /\ GradeKey(c).told = cited[c]
  BY DEF GradeKey, Told

LEMMA GradedStep == TypeOK /\ GradedInv /\ [Next]_vars => GradedInv'
  <1> SUFFICES ASSUME TypeOK, GradedInv, [Next]_vars PROVE GradedInv'
    OBVIOUS
  <1>1. \A c \in Checks : GradeKey(c).tool = KindOf[c] /\ GradeKey(c).told = Told(c)
    BY DEF GradeKey
  <1>2. ASSUME cache' \subseteq cache, UNCHANGED check PROVE GradedInv'
    BY <1>2 DEF GradedInv, CacheHonest, GradedOnCited, check
  <1>3. ASSUME NEW w \in Watchers, WatchStep(w) \/ Break(w) PROVE GradedInv'
    <2>1. cache' \subseteq cache /\ UNCHANGED check
      BY <1>3 DEF WatchStep, Begin, Commit, Store, Finish, Hash, Scrape, Break
    <2> QED
      BY <2>1, <1>2
  <1>4. ASSUME NEW c \in Checks, Retrieve(c) PROVE GradedInv'
    <2>1. cpc'[c] # "done" /\ UNCHANGED cache
      BY <1>4 DEF TypeOK, Retrieve
    <2>2. \A d \in Checks \ {c} : cpc'[d] = cpc[d] /\ cited'[d] = cited[d] /\ found'[d] = found[d]
      BY <1>4 DEF TypeOK, Retrieve
    <2> QED
      BY <2>1, <2>2 DEF GradedInv, CacheHonest, GradedOnCited
  <1>5. ASSUME NEW c \in Checks, Query(c) PROVE GradedInv'
    <2>1. cpc'[c] # "done" /\ UNCHANGED cache
      BY <1>5 DEF TypeOK, Query
    <2>2. \A d \in Checks \ {c} : cpc'[d] = cpc[d] /\ cited'[d] = cited[d] /\ found'[d] = found[d]
      BY <1>5 DEF TypeOK, Query
    <2> QED
      BY <2>1, <2>2 DEF GradedInv, CacheHonest, GradedOnCited
  <1>6. ASSUME NEW c \in Checks, Keep(c) PROVE GradedInv'
    <2>1. cpc'[c] # "done"
      BY <1>6 DEF TypeOK, Keep
    <2>2. \A d \in Checks \ {c} : cpc'[d] = cpc[d] /\ cited'[d] = cited[d] /\ found'[d] = found[d]
      BY <1>6 DEF TypeOK, Keep
    <2>3. \A r \in cache' : r \in cache \/ r.key = EmbedKey(c)
      BY <1>6 DEF Keep, Put
    <2>4. EmbedKey(c).tool # "policy"
      BY DEF EmbedKey
    <2> QED
      BY <2>1, <2>2, <2>3, <2>4 DEF GradedInv, CacheHonest, GradedOnCited
  <1>7. ASSUME NEW c \in Checks, Lookup(c) PROVE GradedInv'
    <2>1. \A d \in Checks \ {c} : cpc'[d] = cpc[d] /\ found'[d] = found[d]
      BY <1>7 DEF TypeOK, Lookup, End
    <2>2. UNCHANGED <<cache, cited>>
      BY <1>7 DEF Lookup
    <2>3. ASSUME KindOf[c] = "policy", cpc'[c] = "done", found'[c].how = "graded"
          PROVE  found'[c].basis = cited[c]
      <3>1. PICK r \in Usable(GradeKey(c)) : End(c, "graded", r.basis)
        BY <1>7, <2>3 DEF TypeOK, Lookup, End
      <3>2. r \in cache /\ r.key = GradeKey(c)
        BY DEF Usable
      <3>3. r.basis = cited[c]
        BY <1>1, <2>3, <3>2 DEF GradedInv, CacheHonest, Told
      <3> QED
        BY <3>1, <3>3 DEF TypeOK, End
    <2> QED
      BY <2>1, <2>2, <2>3 DEF GradedInv, CacheHonest, GradedOnCited
  <1>8. ASSUME NEW c \in Checks, Save(c) PROVE GradedInv'
    <2>1. \A d \in Checks \ {c} : cpc'[d] = cpc[d] /\ found'[d] = found[d]
      BY <1>8 DEF TypeOK, Save, End
    <2>2. UNCHANGED cited
      BY <1>8 DEF Save
    <2>3. \A r \in cache' : r \in cache \/ (r.key = GradeKey(c) /\ r.basis = Told(c))
      BY <1>8 DEF Save, Put
    <2>4. found'[c].how = "graded" => found'[c].basis = Told(c)
      BY <1>8 DEF TypeOK, Save, End
    <2>5. CacheHonest'
      BY <1>1, <2>3 DEF GradedInv, CacheHonest
    <2> QED
      BY <2>1, <2>2, <2>4, <2>5 DEF GradedInv, GradedOnCited, Told
  <1>9. ASSUME NEW r \in cache, Age(r) PROVE GradedInv'
    <2>1. UNCHANGED check
      BY <1>9 DEF Age
    <2>2. \A q \in cache' : \E p \in cache : q.key = p.key /\ q.basis = p.basis
      BY <1>9 DEF Age, TypeOK, Rows
    <2> QED
      BY <2>1, <2>2 DEF GradedInv, CacheHonest, GradedOnCited, check
  <1>10. CASE UNCHANGED vars \/ (\E s \in Sources : Edit(s)) \/ (\E keep \in SUBSET cache : Prune(keep))
    BY <1>2, <1>10 DEF vars, Edit, Prune
  <1> QED
    BY <1>3, <1>4, <1>5, <1>6, <1>7, <1>8, <1>9, <1>10 DEF Next

\* A finding of a policy check cites the text it was graded on, with any number
\* of watches, checks and policies.
THEOREM GradedOnCitedHolds == SafeSpec => []GradedOnCited
  <1>1. GradedInv => GradedOnCited
    BY DEF GradedInv
  <1> QED
    BY <1>1, InitType, StepType, GradedInit, GradedStep, PTL DEF SafeSpec

-----------------------------------------------------------------------------
(* An index stays, and follows the hashes.                                 *)

\* What is scraped to be stored is not empty.
ScrapedText == \A w \in Watchers : wpc[w] = "store" => scraped[w].text # None

LEMMA ScrapedInit == Init => ScrapedText
  BY DEF Init, ScrapedText

LEMMA ScrapedStep == TypeOK /\ ScrapedText /\ [Next]_vars => ScrapedText'
  <1> SUFFICES ASSUME TypeOK, ScrapedText, [Next]_vars PROVE ScrapedText'
    OBVIOUS
  <1>1. ASSUME NEW w \in Watchers, NEW p \in Policies, NEW S \in SUBSET Sources, Scrape(w, p, S)
        PROVE  ScrapedText'
    <2>1. CASE Stores(S)
      <3>1. DOMAIN Read(S) # DOMAIN None
        BY <2>1 DEF Stores, Read, None
      <3>2. \A v \in Watchers \ {w} : wpc'[v] = wpc[v] /\ scraped'[v] = scraped[v]
        BY <1>1 DEF TypeOK, Scrape
      <3>3. wpc'[w] # "store" \/ scraped'[w].text = Read(S)
        BY <1>1 DEF TypeOK, Scrape
      <3> QED
        BY <3>1, <3>2, <3>3 DEF ScrapedText
    <2>2. CASE ~Stores(S)
      BY <1>1, <2>2 DEF ScrapedText, Scrape
    <2> QED
      BY <2>1, <2>2
  <1>2. ASSUME NEW w \in Watchers,
               \/ Begin(w) \/ Commit(w) \/ Store(w) \/ Finish(w) \/ Break(w)
               \/ \E p \in Policies, S \in SUBSET Sources : Hash(w, p, S)
        PROVE  ScrapedText'
    <2>1. wpc'[w] # "store"
      BY <1>2 DEF TypeOK, Begin, Commit, Store, Finish, Break, Hash, Quit
    <2>2. \A v \in Watchers \ {w} : wpc'[v] = wpc[v] /\ scraped'[v] = scraped[v]
      BY <1>2 DEF TypeOK, Begin, Commit, Store, Finish, Break, Hash, Quit
    <2> QED
      BY <2>1, <2>2 DEF ScrapedText
  <1>3. CASE UNCHANGED watch
    BY <1>3 DEF ScrapedText, watch
  <1> QED
    BY <1>1, <1>2, <1>3
    DEF Next, WatchStep, vars, Edit, Retrieve, Query, Keep, Lookup, Save, Age, Prune

\* Once a policy has an index it always has one.
THEOREM IndexKeptHolds == SafeSpec => IndexKept
  <1>1. TypeOK /\ ScrapedText /\ [Next]_vars
          => [\A p \in Policies : index[p] # None => index'[p] # None]_index
    <2> SUFFICES ASSUME TypeOK, ScrapedText, [Next]_vars, index' # index, NEW p \in Policies,
                        index[p] # None
                 PROVE  index'[p] # None
      OBVIOUS
    <2>1. PICK w \in Watchers : Store(w)
      BY DEF Next, WatchStep, vars, Edit, Begin, Commit, Hash, Scrape, Finish, Break,
             Retrieve, Query, Keep, Lookup, Save, Age, Prune
    <2>2. scraped[w].text # None
      BY <2>1 DEF ScrapedText, Store
    <2> QED
      BY <2>1, <2>2 DEF Store, TypeOK
  <1> QED
    BY <1>1, InitType, StepType, ScrapedInit, ScrapedStep, PTL DEF SafeSpec, IndexKept

\* With one watcher, the hashes and the indexes move only by its steps.
LEMMA IndexInit == Init => IndexInv
  <1> SUFFICES ASSUME Init PROVE IndexInv
    OBVIOUS
  <1>1. DOMAIN None = {}
    BY DEF None
  <1> QED
    BY <1>1 DEF Init, IndexInv, Watched, IndexFollowsHash, Covers

\* What was covered stays covered when the sources only get newer.
LEMMA CoversNewer ==
  ASSUME TypeOK, NEW t \in Contents, Covers(live, t), NEW s \in Sources, Edit(s)
  PROVE  Covers(live', t)
  <1>1. \A q \in Sources : live[q] \in Nat /\ live'[q] \in Nat /\ live'[q] >= live[q]
    BY PolicyAssumption DEF TypeOK, Edit
  <1>2. DOMAIN live = Sources /\ DOMAIN live' = Sources
    BY DEF TypeOK, Edit
  <1>3. \A q \in DOMAIN t : t[q] \in Nat /\ q \in Sources /\ live[q] >= t[q]
    BY ContentType DEF Covers
  <1> QED
    BY <1>1, <1>2, <1>3 DEF Covers

\* What is read now is no newer than what is served now.
LEMMA CoversRead ==
  ASSUME TypeOK, NEW S \in SUBSET Sources
  PROVE  Covers(live, Read(S))
  <1>1. \A q \in Sources : live[q] \in Nat
    BY PolicyAssumption DEF TypeOK
  <1> QED
    BY <1>1 DEF Covers, Read, TypeOK

LEMMA EditKeeps == TypeOK /\ IndexInv /\ (\E s \in Sources : Edit(s)) => IndexInv'
  <1> SUFFICES ASSUME TypeOK, IndexInv, NEW s \in Sources, Edit(s) PROVE IndexInv'
    OBVIOUS
  <1>1. UNCHANGED <<snapshot, index, watch, owed>>
    BY DEF Edit
  <1>2. \A p \in Policies : snapshot[p] \in Contents /\ (Covers(live, snapshot[p]) => Covers(live', snapshot[p]))
    BY CoversNewer DEF TypeOK
  <1>3. \A w \in Watchers, p \in Policies :
          staged[w][p] \in Contents /\ (Covers(live, staged[w][p]) => Covers(live', staged[w][p]))
    BY CoversNewer DEF TypeOK
  <1>4. Watched'
    BY <1>1, <1>2, <1>3 DEF IndexInv, Watched, watch
  <1>5. IndexFollowsHash'
    BY <1>1 DEF IndexInv, IndexFollowsHash, Pending, watch
  <1> QED
    BY <1>4, <1>5 DEF IndexInv

LEMMA HashKeeps ==
  ASSUME OneWatcher, TypeOK, IndexInv, NEW w \in Watchers, NEW p \in Policies, NEW S \in SUBSET Sources,
         Hash(w, p, S)
  PROVE  IndexInv'
  <1>1. UNCHANGED <<live, snapshot, index, wpc, scraped, owed>> /\ wpc[w] = "hash"
    BY DEF Hash
  <1>2. S \subseteq SourcesOf[p] /\ DOMAIN Read(S) = S
    BY ReadType DEF Hash, Reached, TypeOK
  <1>3. Covers(live, Read(S))
    BY CoversRead
  <1>4. \A v \in Watchers : v = w
    BY DEF OneWatcher
  <1>5. \A q \in Policies : staged'[w][q] = staged[w][q] \/ (q = p /\ staged'[w][q] = Read(S) /\ p \in todo'[w])
    BY DEF Hash, Needs, TypeOK
  <1>6. \A q \in Policies : q \in todo[w] => q \in todo'[w]
    BY DEF Hash, TypeOK
  <1>7. Watched'
    BY <1>1, <1>2, <1>3, <1>4, <1>5, <1>6 DEF IndexInv, Watched
  <1>8. IndexFollowsHash'
    BY <1>1, <1>4 DEF IndexInv, IndexFollowsHash, Pending
  <1> QED
    BY <1>7, <1>8 DEF IndexInv

LEMMA CommitKeeps ==
  ASSUME OneWatcher, TypeOK, IndexInv, NEW w \in Watchers, Commit(w)
  PROVE  IndexInv'
  <1>1. UNCHANGED <<live, index, owed>> /\ wpc[w] = "hash"
    BY DEF Commit
  <1>2. \A v \in Watchers : v = w
    BY DEF OneWatcher
  <1>3. \A q \in Policies : staged'[w][q] = None
    BY DEF Commit, Quit, TypeOK
  <1>4. wpc'[w] \in {"idle", "reindex"}
    BY DEF Commit, Quit, TypeOK
  <1>5. CASE UNCHANGED snapshot
    BY <1>1, <1>2, <1>3, <1>4, <1>5 DEF IndexInv, Watched, IndexFollowsHash, Pending
  <1>6. CASE \A p \in fresh[w] : snapshot[p] = None
    <2>1. CASE UNCHANGED snapshot
      BY <2>1, <1>5
    <2>2. CASE ~UNCHANGED snapshot
      <3>1. /\ snapshot' = [p \in Policies |-> IF staged[w][p] # None THEN staged[w][p] ELSE snapshot[p]]
            /\ wpc'[w] = "reindex" /\ UNCHANGED todo
        BY <2>2 DEF Commit, TypeOK
      <3>2. Watched'
        BY <1>1, <1>2, <1>3, <1>4, <3>1 DEF IndexInv, Watched
      <3>3. \A p \in Policies : snapshot'[p] = snapshot[p] \/ Pending(w, p)'
        BY <3>1 DEF IndexInv, Watched, Pending
      <3>4. \A p \in Policies : ~Pending(w, p)
        BY <1>1 DEF Pending
      <3>5. IndexFollowsHash'
        BY <1>1, <1>2, <3>3, <3>4 DEF IndexInv, IndexFollowsHash
      <3> QED
        BY <3>2, <3>5 DEF IndexInv
    <2> QED
      BY <2>1, <2>2
  <1> QED
    BY <1>5, <1>6 DEF Commit

LEMMA ScrapeKeeps ==
  ASSUME OneWatcher, TypeOK, IndexInv, NEW w \in Watchers, NEW p \in Policies, NEW S \in SUBSET Sources,
         Scrape(w, p, S)
  PROVE  IndexInv'
  <1>1. UNCHANGED <<live, snapshot, index, staged>> /\ wpc[w] = "reindex" /\ p \in todo[w]
    BY DEF Scrape
  <1>2. \A v \in Watchers : v = w
    BY DEF OneWatcher
  <1>3. \A q \in Policies : staged[w][q] = None
    BY <1>1 DEF IndexInv, Watched
  <1>4. CASE Stores(S)
    <2>1. /\ wpc'[w] = "store" /\ UNCHANGED <<todo, owed>>
          /\ scraped'[w].policy = p /\ scraped'[w].text = Read(S)
      BY <1>4 DEF Scrape, TypeOK, Stores
    <2>2. \A s \in S \cap DOMAIN snapshot[p] : Read(S)[s] >= snapshot[p][s]
      BY DEF IndexInv, Watched, Covers, Read
    <2>3. DOMAIN Read(S) = S
      BY ReadType DEF TypeOK
    <2>4. Watched'
      BY <1>1, <1>2, <1>3, <2>1, <2>2, <2>3 DEF IndexInv, Watched
    <2>5. \A q \in Policies : Pending(w, q) => Pending(w, q)'
      BY <2>1 DEF Pending
    <2>6. IndexFollowsHash'
      BY <1>1, <1>2, <2>1, <2>5 DEF IndexInv, IndexFollowsHash
    <2> QED
      BY <2>4, <2>6 DEF IndexInv
  <1>5. CASE ~Stores(S)
    <2>1. /\ UNCHANGED <<wpc, scraped>> /\ owed' = [owed EXCEPT ![p] = TRUE]
          /\ todo'[w] = todo[w] \ {p}
      BY <1>5 DEF Scrape, TypeOK
    <2>2. Watched'
      BY <1>1, <1>2, <1>3, <2>1 DEF IndexInv, Watched
    <2>3. \A q \in Policies : q # p => (Pending(w, q) => Pending(w, q)') /\ owed'[q] = owed[q]
      BY <2>1 DEF Pending, TypeOK
    <2>4. owed'[p] = TRUE
      BY <2>1 DEF TypeOK
    <2>5. IndexFollowsHash'
      BY <1>1, <1>2, <2>3, <2>4 DEF IndexInv, IndexFollowsHash
    <2> QED
      BY <2>2, <2>5 DEF IndexInv
  <1> QED
    BY <1>4, <1>5

LEMMA StoreKeeps ==
  ASSUME OneWatcher, TypeOK, IndexInv, NEW w \in Watchers, Store(w)
  PROVE  IndexInv'
  <1> DEFINE p == scraped[w].policy
             text == scraped[w].text
  <1>1. UNCHANGED <<live, snapshot, staged>> /\ wpc[w] = "store" /\ wpc'[w] = "reindex"
    BY DEF Store, TypeOK
  <1>2. \A v \in Watchers : v = w
    BY DEF OneWatcher
  <1>3. p \in todo[w] /\ todo[w] \subseteq Policies
    BY <1>1 DEF IndexInv, Watched, TypeOK
  <1>4. /\ index'[p] = text /\ owed'[p] = (DOMAIN text # SourcesOf[p])
        /\ todo'[w] = todo[w] \ {p}
        /\ \A q \in Policies : q # p => index'[q] = index[q] /\ owed'[q] = owed[q]
    BY <1>3 DEF Store, TypeOK
  <1>5. \A q \in Policies : staged[w][q] = None
    BY <1>1 DEF IndexInv, Watched
  <1>6. Watched'
    BY <1>1, <1>2, <1>5 DEF IndexInv, Watched
  <1>7. Covers(text, snapshot[p]) \/ owed'[p]
    <2>1. ASSUME DOMAIN text = SourcesOf[p] PROVE Covers(text, snapshot[p])
      BY <1>1, <1>3, <2>1 DEF IndexInv, Watched, Covers
    <2> QED
      BY <1>4, <2>1
  <1>8. \A q \in Policies : q # p => (Pending(w, q) => Pending(w, q)')
    BY <1>1, <1>4 DEF Pending
  <1>9. IndexFollowsHash'
    BY <1>1, <1>2, <1>4, <1>7, <1>8 DEF IndexInv, IndexFollowsHash
  <1> QED
    BY <1>6, <1>9 DEF IndexInv

LEMMA EndKeeps ==
  ASSUME OneWatcher, TypeOK, IndexInv, NEW w \in Watchers, Begin(w) \/ Finish(w) \/ Break(w)
  PROVE  IndexInv'
  <1>1. UNCHANGED <<live, snapshot, index>> /\ wpc'[w] \in {"idle", "hash"}
    BY DEF Begin, Finish, Break, Quit, TypeOK
  <1>2. \A v \in Watchers : v = w
    BY DEF OneWatcher
  <1>3. \A q \in Policies : staged'[w][q] = None
    BY DEF Begin, Finish, Break, Quit, TypeOK, IndexInv, Watched
  <1>4. Watched'
    BY <1>1, <1>2, <1>3 DEF IndexInv, Watched
  <1>5. \A q \in Policies : (owed[q] \/ Pending(w, q)) => owed'[q]
    <2>1. CASE Begin(w)
      BY <2>1 DEF Begin, Pending
    <2>2. CASE Finish(w)
      BY <2>2 DEF Finish, Pending
    <2>3. CASE Break(w)
      BY <2>3 DEF Break, Pending
    <2> QED
      BY <2>1, <2>2, <2>3
  <1>6. IndexFollowsHash'
    BY <1>1, <1>2, <1>5 DEF IndexInv, IndexFollowsHash
  <1> QED
    BY <1>4, <1>6 DEF IndexInv

LEMMA IndexStep == OneWatcher /\ TypeOK /\ IndexInv /\ [Next]_vars => IndexInv'
  <1> SUFFICES ASSUME OneWatcher, TypeOK, IndexInv, [Next]_vars PROVE IndexInv'
    OBVIOUS
  <1>1. ASSUME UNCHANGED <<live, snapshot, index, watch, owed>> PROVE IndexInv'
    BY <1>1 DEF IndexInv, Watched, IndexFollowsHash, Pending, Covers, watch
  <1>2. CASE \E s \in Sources : Edit(s)
    BY <1>2, EditKeeps
  <1>3. CASE \E w \in Watchers : WatchStep(w) \/ Break(w)
    BY <1>3, HashKeeps, CommitKeeps, ScrapeKeeps, StoreKeeps, EndKeeps DEF WatchStep
  <1>4. CASE \/ \E c \in Checks : Retrieve(c) \/ Query(c) \/ Keep(c) \/ Lookup(c) \/ Save(c)
             \/ \E r \in cache : Age(r)
             \/ \E keep \in SUBSET cache : Prune(keep)
             \/ UNCHANGED vars
    BY <1>1, <1>4 DEF Retrieve, Query, Keep, Lookup, Save, Age, Prune, vars
  <1> QED
    BY <1>2, <1>3, <1>4 DEF Next

\* Where one process watches, the index of every policy is as new as its hash, or
\* is about to be, or a rebuild failed.  With two it need not be: the one that
\* scraped first may store last.
THEOREM IndexFollowsHashHolds == OneWatcher /\ SafeSpec => []IndexFollowsHash
  <1>1. IndexInv => IndexFollowsHash
    BY DEF IndexInv
  <1>2. OneWatcher /\ TypeOK /\ IndexInv /\ [Next]_vars => IndexInv'
    BY IndexStep
  <1>3. SUFFICES ASSUME OneWatcher PROVE SafeSpec => []IndexFollowsHash
    OBVIOUS
  <1>4. TypeOK /\ IndexInv /\ [Next]_vars => IndexInv'
    BY <1>2, <1>3
  <1> QED
    BY <1>1, <1>4, InitType, StepType, IndexInit, PTL DEF SafeSpec
=============================================================================
