----------------------------- MODULE PolicyIndex -----------------------------
(***************************************************************************)
(* The policy watch, the index of policy texts, and the answers of the     *)
(* language model that are cached (app/policy_watcher.py, app/llm/         *)
(* policy_rag.py, app/llm/embeddings.py, app/llm/cache.py, app/llm/        *)
(* checks.py).  A watcher hashes the sources of every policy, commits the  *)
(* hashes, rebuilds the index of the policies that changed, and drops the  *)
(* cache.  Meanwhile the checks of audits read the index, embed the page   *)
(* they check, and grade it, and every answer goes through the cache.      *)
(*                                                                         *)
(* The text of a source is a version number, a hash is the versions it was *)
(* computed from, and the empty function is "none".                        *)
(***************************************************************************)
EXTENDS Integers, FiniteSets

CONSTANTS
  Policies,   \* policy_ids
  Sources,    \* URLs of policy pages
  SourcesOf,  \* POLICY_SOURCE_URLS
  MaxVersion, \* a source is edited at most so often
  Watchers,   \* the processes that run run_policy_watch
  Checks,     \* the checks of the audits
  KindOf,     \* "policy": the prompt holds the policy, "claim": it does not
  PolicyOf,   \* the policy that a check cites
  PageOf,     \* the page text that it sends
  HasKey,     \* an OpenAI key is configured
  MaxItems,   \* llm_cache_max_items
  MaxFaults   \* bound on failed requests and killed watchers

ASSUME PolicyAssumption ==
  /\ SourcesOf \in [Policies -> SUBSET Sources]
  /\ MaxVersion \in Nat
  /\ KindOf \in [Checks -> {"policy", "claim"}]
  /\ PolicyOf \in [Checks -> Policies]
  /\ HasKey \in BOOLEAN
  /\ MaxItems \in Nat
  /\ MaxFaults \in Nat

VARIABLES
  live,     \* the version of each source that Google serves
  snapshot, \* policy_source_snapshots
  index,    \* policy_chunks: per policy, the version of each source in it
  cache,    \* llm_cache_entries
  wpc,      \* per watcher "idle", "hash", "reindex" or "store"
  left,     \* the policies that are still to be hashed
  staged,   \* the hashes that the open session will commit
  fresh,    \* the policies for which it will insert a row
  todo,     \* needs_reindex, without those done
  scraped,  \* the policy being rebuilt and its new chunks
  rebuilt,  \* some count of reindexed_counts is not 0
  cpc,      \* per check "start", "query", "keep", "lookup", "save" or "done"
  cited,    \* the policy text of its context; empty for the stub
  saw,      \* it saw a row for its key when it was about to write
  found,    \* the finding: how it ended, and the policy text it was graded on
  owed,     \* history: a rebuild of the policy was not made, or not whole
  faults    \* how many faults there were

watch == <<wpc, left, staged, fresh, todo, scraped, rebuilt>>
check == <<cpc, cited, saw, found>>
vars == <<live, snapshot, index, cache, watch, check, owed, faults>>

None == [s \in {} |-> 0]
Contents == UNION {[S -> 0..MaxVersion] : S \in SUBSET Sources}
Tools == {"embed", "policy", "claim"}
Keys == [tool : Tools, page : {PageOf[c] : c \in Checks}, told : Contents]
Rows == [key : Keys, basis : Contents, old : BOOLEAN]
NoScrape == [policy |-> "none", text |-> None]
Unfound == [how |-> "none", basis |-> None]

TypeOK ==
  /\ live \in [Sources -> 0..MaxVersion]
  /\ snapshot \in [Policies -> Contents]
  /\ index \in [Policies -> Contents]
  /\ cache \subseteq Rows
  /\ \A r, q \in cache : r.key = q.key => r = q
  /\ wpc \in [Watchers -> {"idle", "hash", "reindex", "store"}]
  /\ left \in [Watchers -> SUBSET Policies]
  /\ staged \in [Watchers -> [Policies -> Contents]]
  /\ fresh \in [Watchers -> SUBSET Policies]
  /\ todo \in [Watchers -> SUBSET Policies]
  /\ scraped \in [Watchers -> [policy : Policies \cup {"none"}, text : Contents]]
  /\ rebuilt \in [Watchers -> BOOLEAN]
  /\ cpc \in [Checks -> {"start", "query", "keep", "lookup", "save", "done"}]
  /\ cited \in [Checks -> Contents]
  /\ saw \in [Checks -> BOOLEAN]
  /\ found \in [Checks -> [how : {"none", "graded", "unevaluated", "dropped"}, basis : Contents]]
  /\ owed \in [Policies -> BOOLEAN]
  /\ faults \in 0..MaxFaults

Init ==
  /\ live = [s \in Sources |-> 0]
  /\ snapshot = [p \in Policies |-> None]
  /\ index = [p \in Policies |-> None]
  /\ cache = {}
  /\ wpc = [w \in Watchers |-> "idle"]
  /\ left = [w \in Watchers |-> {}]
  /\ staged = [w \in Watchers |-> [p \in Policies |-> None]]
  /\ fresh = [w \in Watchers |-> {}]
  /\ todo = [w \in Watchers |-> {}]
  /\ scraped = [w \in Watchers |-> NoScrape]
  /\ rebuilt = [w \in Watchers |-> FALSE]
  /\ cpc = [c \in Checks |-> "start"]
  /\ cited = [c \in Checks |-> None]
  /\ saw = [c \in Checks |-> FALSE]
  /\ found = [c \in Checks |-> Unfound]
  /\ owed = [p \in Policies |-> FALSE]
  /\ faults = 0

Fault == faults < MaxFaults /\ faults' = faults + 1

\* The text of a policy as read now from the sources S.
Read(S) == [s \in S |-> live[s]]

\* Google edits a page.
Edit(s) ==
  /\ live[s] < MaxVersion
  /\ live' = [live EXCEPT ![s] = @ + 1]
  /\ UNCHANGED <<snapshot, index, cache, watch, check, owed, faults>>

-----------------------------------------------------------------------------
(* check_policy_sources.                                                   *)

Begin(w) ==
  /\ wpc[w] = "idle"
  /\ wpc' = [wpc EXCEPT ![w] = "hash"]
  /\ left' = [left EXCEPT ![w] = Policies]
  /\ UNCHANGED <<live, snapshot, index, cache, staged, fresh, todo, scraped, rebuilt, check, owed, faults>>

\* Fetching the sources of a policy for a hash or for its chunks: all of them
\* answer, or a fault leaves only some, or none.
Reached(p, S) ==
  \/ S = SourcesOf[p] /\ UNCHANGED faults
  \/ S \in SUBSET SourcesOf[p] \ {SourcesOf[p]} /\ Fault

\* Mutant: a first check records the baseline only.
NeedsOnChange(p, hash) == snapshot[p] # None /\ snapshot[p] # hash

\* Mutant: only the first check rebuilds.
NeedsOnFirst(p, hash) == snapshot[p] = None

\* A first check, or a change.
Needs(p, hash) == snapshot[p] # hash

\* Phase 1, for one policy: _fetch_and_hash_combined, and the comparison with
\* the stored hash.  Nothing is seen of it before the commit.
Hash(w, p, S) ==
  /\ wpc[w] = "hash"
  /\ p \in left[w]
  /\ Reached(p, S)
  /\ left' = [left EXCEPT ![w] = @ \ {p}]
  /\ \/ /\ S = {} \/ snapshot[p] = Read(S)
        /\ UNCHANGED <<staged, fresh, todo>>
     \/ /\ S # {} /\ snapshot[p] # Read(S)
        /\ staged' = [staged EXCEPT ![w][p] = Read(S)]
        /\ fresh' = [fresh EXCEPT ![w] = IF snapshot[p] = None THEN @ \cup {p} ELSE @]
        /\ todo' = [todo EXCEPT ![w] = IF Needs(p, Read(S)) THEN @ \cup {p} ELSE @]
  /\ UNCHANGED <<live, snapshot, index, cache, wpc, scraped, rebuilt, check, owed>>

\* The watch ends, by itself, by an exception or because its process is killed.
Quit(w) ==
  /\ wpc' = [wpc EXCEPT ![w] = "idle"]
  /\ left' = [left EXCEPT ![w] = {}]
  /\ staged' = [staged EXCEPT ![w] = [p \in Policies |-> None]]
  /\ fresh' = [fresh EXCEPT ![w] = {}]
  /\ todo' = [todo EXCEPT ![w] = {}]
  /\ scraped' = [scraped EXCEPT ![w] = NoScrape]
  /\ rebuilt' = [rebuilt EXCEPT ![w] = FALSE]

\* The commit of phase 1; another watcher may have inserted one of its rows.
Commit(w) ==
  /\ wpc[w] = "hash"
  /\ left[w] = {}
  /\ \/ /\ \E p \in fresh[w] : snapshot[p] # None
        /\ Quit(w)
        /\ UNCHANGED snapshot
     \/ /\ \A p \in fresh[w] : snapshot[p] = None
        /\ snapshot' = [p \in Policies |-> IF staged[w][p] # None THEN staged[w][p] ELSE snapshot[p]]
        /\ wpc' = [wpc EXCEPT ![w] = "reindex"]
        /\ staged' = [staged EXCEPT ![w] = [p \in Policies |-> None]]
        /\ fresh' = [fresh EXCEPT ![w] = {}]
        /\ UNCHANGED <<left, todo, scraped, rebuilt>>
  /\ UNCHANGED <<live, index, cache, check, owed, faults>>

\* rebuild_policy_index stores something only if something was scraped.
Stores(S) == S # {}

\* Phase 2: scrape the sources of one policy anew.  Without a key, or when no
\* source answers, nothing is rebuilt and the old index stays.
Scrape(w, p, S) ==
  /\ wpc[w] = "reindex"
  /\ p \in todo[w]
  /\ \/ /\ HasKey
        /\ Reached(p, S)
        /\ Stores(S)
        /\ wpc' = [wpc EXCEPT ![w] = "store"]
        /\ scraped' = [scraped EXCEPT ![w] = [policy |-> p, text |-> Read(S)]]
        /\ UNCHANGED <<todo, owed>>
     \/ /\ \/ ~HasKey /\ S = {} /\ UNCHANGED faults
           \/ HasKey /\ Reached(p, S) /\ ~Stores(S)
        /\ todo' = [todo EXCEPT ![w] = @ \ {p}]
        /\ owed' = [owed EXCEPT ![p] = TRUE]
        /\ UNCHANGED <<wpc, scraped>>
  /\ UNCHANGED <<live, snapshot, index, cache, left, staged, fresh, rebuilt, check>>

\* All chunks are embedded: the old ones of the policy go and the new ones
\* come in one transaction.  The rebuild is owed if a source was missing.
Store(w) ==
  /\ wpc[w] = "store"
  /\ index' = [index EXCEPT ![scraped[w].policy] = scraped[w].text]
  /\ owed' = [owed EXCEPT ![scraped[w].policy] = DOMAIN scraped[w].text # SourcesOf[scraped[w].policy]]
  /\ todo' = [todo EXCEPT ![w] = @ \ {scraped[w].policy}]
  /\ rebuilt' = [rebuilt EXCEPT ![w] = TRUE]
  /\ wpc' = [wpc EXCEPT ![w] = "reindex"]
  /\ scraped' = [scraped EXCEPT ![w] = NoScrape]
  /\ UNCHANGED <<live, snapshot, cache, left, staged, fresh, check, faults>>

\* The embedding of a chunk fails and ends the watch, or the process is killed.
\* The policies that were to be rebuilt are forgotten with the list.
Break(w) ==
  /\ wpc[w] # "idle"
  /\ Fault
  /\ Quit(w)
  /\ owed' = [p \in Policies |-> owed[p] \/ (wpc[w] # "hash" /\ p \in todo[w])]
  /\ UNCHANGED <<live, snapshot, index, cache, check>>

\* The end of check_policy_sources: invalidate_all, if any index changed.
Finish(w) ==
  /\ wpc[w] = "reindex"
  /\ todo[w] = {}
  /\ cache' = IF rebuilt[w] THEN {} ELSE cache
  /\ Quit(w)
  /\ UNCHANGED <<live, snapshot, index, check, owed, faults>>

-----------------------------------------------------------------------------
(* LLMCache, and the checks that go through it.                            *)

EmbedKey(c) == [tool |-> "embed", page |-> PageOf[c], told |-> None]

\* The policy text in a grading prompt.  The prompt of a claim check holds only
\* the texts of two pages of the store.
Told(c) == IF KindOf[c] = "policy" THEN cited[c] ELSE None

\* Mutant: the key is made of the page alone.
PageKey(c) == [tool |-> KindOf[c], page |-> PageOf[c], told |-> None]

\* The key of an answer is made of the whole prompt.
GradeKey(c) == [tool |-> KindOf[c], page |-> PageOf[c], told |-> Told(c)]

Held(key) == \E r \in cache : r.key = key
Usable(key) == {r \in cache : r.key = key /\ ~r.old}

\* The write of LLMCache.set: it raises when the row it means to insert is
\* there by now, or the one it means to update is gone.
Clash(c, key) == saw[c] # Held(key)

Put(key, basis) ==
  cache' = {r \in cache : r.key # key} \cup {[key |-> key, basis |-> basis, old |-> FALSE]}

\* get_policy_context reads the chunks; without a key or chunks it returns the
\* stub at once.  A check runs again in a later audit.
Retrieve(c) ==
  /\ cpc[c] \in {"start", "done"}
  /\ LET text == IF HasKey THEN index[PolicyOf[c]] ELSE None IN
       /\ cited' = [cited EXCEPT ![c] = text]
       /\ cpc' = [cpc EXCEPT ![c] = IF text = None THEN "lookup" ELSE "query"]
  /\ found' = [found EXCEPT ![c] = Unfound]
  /\ UNCHANGED <<live, snapshot, index, cache, watch, saw, owed, faults>>

\* embed_text: an embedding in the cache will do.  Otherwise the model is
\* asked; its failure means the stub.
Query(c) ==
  /\ cpc[c] = "query"
  /\ \/ /\ Usable(EmbedKey(c)) # {}
        /\ cpc' = [cpc EXCEPT ![c] = "lookup"]
        /\ UNCHANGED <<cited, saw, faults>>
     \/ /\ Usable(EmbedKey(c)) = {}
        /\ \/ /\ cpc' = [cpc EXCEPT ![c] = "keep"]
              /\ saw' = [saw EXCEPT ![c] = Held(EmbedKey(c))]
              /\ UNCHANGED <<cited, faults>>
           \/ /\ Fault
              /\ cited' = [cited EXCEPT ![c] = None]
              /\ cpc' = [cpc EXCEPT ![c] = "lookup"]
              /\ UNCHANGED saw
  /\ UNCHANGED <<live, snapshot, index, cache, watch, found, owed>>

\* Storing the embedding: a clash counts as a failed embedding.
Keep(c) ==
  /\ cpc[c] = "keep"
  /\ cpc' = [cpc EXCEPT ![c] = "lookup"]
  /\ saw' = [saw EXCEPT ![c] = FALSE]
  /\ \/ /\ ~Clash(c, EmbedKey(c))
        /\ Put(EmbedKey(c), None)
        /\ UNCHANGED cited
     \/ /\ Clash(c, EmbedKey(c))
        /\ cited' = [cited EXCEPT ![c] = None]
        /\ UNCHANGED cache
  /\ UNCHANGED <<live, snapshot, index, watch, found, owed, faults>>

End(c, how, basis) ==
  /\ cpc' = [cpc EXCEPT ![c] = "done"]
  /\ found' = [found EXCEPT ![c] = [how |-> how, basis |-> basis]]

\* CachedLLMClient.call_tool: an answer in the cache will do.  Otherwise the
\* model is asked; without an answer nothing is stored.
Lookup(c) ==
  /\ cpc[c] = "lookup"
  /\ \/ /\ \E r \in Usable(GradeKey(c)) : End(c, "graded", r.basis)
        /\ UNCHANGED <<saw, faults>>
     \/ /\ Usable(GradeKey(c)) = {}
        /\ \/ /\ cpc' = [cpc EXCEPT ![c] = "save"]
              /\ saw' = [saw EXCEPT ![c] = Held(GradeKey(c))]
              /\ UNCHANGED <<found, faults>>
           \/ /\ Fault
              /\ End(c, "unevaluated", None)
              /\ UNCHANGED saw
  /\ UNCHANGED <<live, snapshot, index, cache, watch, cited, owed>>

\* Storing the answer: a clash raises out of the check, and run_llm_checks
\* drops a check that raised.
Save(c) ==
  /\ cpc[c] = "save"
  /\ saw' = [saw EXCEPT ![c] = FALSE]
  /\ \/ /\ ~Clash(c, GradeKey(c))
        /\ Put(GradeKey(c), Told(c))
        /\ End(c, "graded", Told(c))
     \/ /\ Clash(c, GradeKey(c))
        /\ End(c, "dropped", None)
        /\ UNCHANGED cache
  /\ UNCHANGED <<live, snapshot, index, watch, cited, owed, faults>>

\* A row passes max_age_days.
Age(r) ==
  /\ ~r.old
  /\ cache' = (cache \ {r}) \cup {[r EXCEPT !.old = TRUE]}
  /\ UNCHANGED <<live, snapshot, index, watch, check, owed, faults>>

\* prune_llm_cache keeps the newest rows.
Prune(keep) ==
  /\ Cardinality(cache) > MaxItems
  /\ Cardinality(keep) = MaxItems
  /\ \A r \in keep, q \in cache \ keep : r.old => q.old
  /\ cache' = keep
  /\ UNCHANGED <<live, snapshot, index, watch, check, owed, faults>>

-----------------------------------------------------------------------------
WatchStep(w) ==
  \/ Begin(w) \/ Commit(w) \/ Store(w) \/ Finish(w)
  \/ \E p \in Policies, S \in SUBSET Sources : Hash(w, p, S) \/ Scrape(w, p, S)

Next ==
  \/ \E s \in Sources : Edit(s)
  \/ \E w \in Watchers : WatchStep(w) \/ Break(w)
  \/ \E c \in Checks : Retrieve(c) \/ Query(c) \/ Keep(c) \/ Lookup(c) \/ Save(c)
  \/ \E r \in cache : Age(r)
  \/ \E keep \in SUBSET cache : Prune(keep)

SafeSpec == Init /\ [][Next]_vars
\* The watch is an interval job, and each of its awaits has a time limit.
Spec == SafeSpec /\ \A w \in Watchers : WF_vars(WatchStep(w))

-----------------------------------------------------------------------------
Pending(w, p) == wpc[w] \in {"reindex", "store"} /\ p \in todo[w]
Covers(text, hash) == \A s \in DOMAIN hash : s \in DOMAIN text /\ text[s] >= hash[s]

\* A hash that was committed is the promise of an index at least as new.  The
\* promise is kept, or a watch is about to keep it, or a rebuild of the policy
\* was not made or not whole (policy_watcher.py:164-172).
IndexFollowsHash ==
  \A p \in Policies :
    \/ Covers(index[p], snapshot[p])
    \/ \E w \in Watchers : Pending(w, p)
    \/ owed[p]

\* A finding of a policy check cites the text that it was graded on, whatever
\* was indexed, invalidated, pruned, expired or stored late in between
\* (llm/cache.py:112-119).
GradedOnCited ==
  \A c \in Checks :
    KindOf[c] = "policy" /\ cpc[c] = "done" /\ found[c].how = "graded" => found[c].basis = cited[c]

\* Once a policy has an index it always has one: what fails during a rebuild
\* leaves the old chunks, and checks never fall back for want of an index
\* (llm/policy_rag.py:178-192).
IndexKept == [][\A p \in Policies : index[p] # None => index'[p] # None]_index

\* When the edits are over, the index of a policy becomes equal to what Google
\* serves and stays so, unless a rebuild of it was not made or not whole: that
\* one is not made up for.
CatchesUpOrOwed ==
  HasKey => \A p \in Policies :
              <>[](owed[p] \/ (SourcesOf[p] # {} => index[p] = Read(SourcesOf[p])))

\* What the head of policy_watcher.py says of a watch: on the first check, or
\* whenever the hash changes, the chunks are scraped, chunked and embedded again.
ChangedIsReindexed ==
  \A p \in Policies : (\A w \in Watchers : ~Pending(w, p)) => Covers(index[p], snapshot[p])
=============================================================================
