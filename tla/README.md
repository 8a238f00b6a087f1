# GMC Compliance Checker: verification project

The repository audits online stores against Google Merchant Center policy. A
FastAPI process runs ad-hoc audits, First Audits and scheduled monitoring of
registered stores on one asyncio loop, over one database (SQLite by default,
Postgres in production) and an object store for evidence. This project models
the parts of it that keep state across an `await`, and the decisions (rules,
findings, reports) built on what they store, checks them with TLC on small
instances and proves the results that matter most with TLAPS for every value of
the constants.

Contents: 1 inventory, 2 plan, 3 modules and the code they model, 4 runs and
their bounds, 5 proofs, 6 what the checks found, 7 what is not modelled.

## 1. Inventory

The process has no threads of its own: handlers, background tasks and scheduler
jobs interleave at awaits, so a *step* of a model is what runs between two
awaits that really suspend (a database call, a fetch). Components talk through
direct calls and, above all, through rows of the database that several of them
read, modify and write in sessions that overlap. Nothing takes a row lock.

| Component | Code | State it keeps | Operations | Talks to |
|---|---|---|---|---|
| First Audit API and run registry | `app/api/first_audit.py`, `app/first_audit.py` | registry of in-flight runs (memory), `FirstAuditRun` rows, background tasks | POST (vet, reserve, insert, launch), run under a timeout, mark error, release | outbound URL check, site mapper, facts, rules, findings, evidence store |
| Evidence blobs, storage, retention | `app/evidence_blob_store.py`, `app/evidence_store.py`, `app/evidence_retention.py`, `app/evidence_storage/` | `Blob` rows with a refcount, `*_blob_hash` columns, objects in the adapter | write if needed, release, prune aged-out runs | First Audit pipeline, scheduler |
| Ad-hoc audit jobs | `app/api/jobs.py`, `app/api/main.py` | `AuditJobRecord` rows, background tasks | create (and prune old rows), run, report phases, mark interrupted at startup, poll | audit graph, store monitor, rate limiter |
| Store monitor and scheduling | `app/monitor_service.py`, `app/scheduling.py`, `app/change_detection.py` | `MonitoredStore`, `PageSnapshot`, `AuditRun` rows, scheduler jobs (memory) | register, remove, cheap check, full audit, finalize and retain, policy-change re-audit | audit graph, policy watcher, fetcher |
| Policy watcher and LLM cache | `app/policy_watcher.py`, `app/llm/cache.py` | `PolicySourceSnapshot`, `LLMCacheEntry` rows | detect changes, reindex, invalidate; get, set, expire | policy index, every LLM check |
| Policy RAG index | `app/llm/policy_rag.py`, `policy_chunker.py`, `embeddings.py` | `PolicyChunk` rows | rebuild, retrieve | policy watcher, LLM checks |
| Page fetcher and domain throttle | `app/fetch.py` | per-domain failure streak and delay, browser contexts | fetch with retries, escalate to a browser, back off | site mapper, cheap check |
| Site mapper | `app/site_mapper.py`, `app/url_canonicalize.py`, `app/soft_404_detection.py` | frontier, seen set, budgets per category | seed, crawl batch, enqueue, truncate | fetcher, classifier |
| Rate limiter | `app/security/rate_limiter.py` | deque of hits per key (memory) | allow, remaining, reset | API handlers |
| Outbound URL check, robots, sanitising, proxies | `app/security/`, `app/proxy_config.py` | a context variable | vet a URL, pick a proxy | everything that fetches |
| Rule engine and rule store | `app/rules/` | `Rule` rows, versions | load, synchronise, evaluate | facts, findings |
| Contradictions | `app/contradiction_engine.py`, `app/off_domain_credit.py` | none (pure) | group asserted values, credit off-domain evidence | rule engine |
| Findings, aggregation, impact tiers | `app/findings_builder.py`, `app/finding_aggregation.py`, `app/impact_tier.py` | none (pure) | build, merge, tier | reports |
| Fact extraction | `app/facts/` | none (pure) | extract and normalise facts | evidence store, rule engine |
| Audit graph | `app/graph.py` | the state passed along five nodes | run, run with phase callbacks | jobs, monitor |
| Accounts, sessions, codes | `app/auth/`, `app/api/auth.py` | users, sessions, one-time codes, login limiters | sign in, verify, sign out, reset | every admin route |
| Store page checks | `app/checks/`, `app/page_classifier.py`, `app/platform_detector.py`, `app/ads_eligibility.py` | none (pure) | examine fetched pages | audit graph |
| LLM checks and clients | `app/llm/checks.py`, `image_checks.py`, clients | none | prompt, parse | LLM cache |
| Reports | `app/report*.py`, `app/first_audit_report.py` | none | render | API |
| Database schema, configuration | `app/db.py`, `app/config.py`, `app/models.py` | tables, settings | create tables, add columns, clamp settings | all |
| CLIs, frontend, previous iteration | `audit.py`, `monitor.py`, `frontend/`, `legacy/` | none of their own | drive or poll the above | API |

What is hard in it, and what makes each part correct:

- **First Audit registry.** Two POSTs for one store race between the look at the
  registry and the insert of the row; a failure, a cancellation, a timeout or a
  restart may strike at any await. Correct when at most one audit per store and
  at most `first_audit_max_concurrent` in all are *running* (not merely
  registered), no path leaks a slot or frees another run's, every refusal has a
  cause, `done` is only ever seen with everything committed, and every accepted
  run gets a final status.
- **Evidence blobs.** The refcount is read, changed in Python and written at
  commit; the adapter's effects are immediate and survive a rollback. Correct
  when a refcount is the number of columns that point at the hash, evidence
  within retention has its row and bytes whatever it shares with pruned runs,
  and content is stored once.
- **Audit jobs.** A row must not claim progress when no task is working on it:
  failures outside the `try`, an update that finds its row pruned, a process
  that dies. Correct when every row settles, final statuses stand, and pruning
  and restarts take only what they may.
- **Store monitor.** Scheduler, API and policy watcher start audits of one store
  independently; a store may be removed while one runs. Correct when a run is
  compared with its predecessor, history belongs to the store it was made for,
  a detected change is audited, and retention keeps the newest runs.
- **Policy watcher and cache.** The new hash is committed before the reindex it
  calls for; readers fill the cache while it is invalidated. Correct when
  a change is eventually reindexed and no result graded on old policy text
  survives as current.
- **Fetcher and site mapper.** Pace, retries, budgets and caps must hold for every
  interleaving of concurrent fetches and crawls; a result claims no more than was
  met, and every page known is crawled or accounted for.
- **Rules, contradictions, findings.** A page that was blocked, moved or only
  looks like another one must not become a confirmed absence; two audits that
  look for the same thing must agree; a status must not be better than what was
  evaluated; evidence a finding rests on must survive retention.
- **Aggregation and reports.** Merging loses nothing, a merged finding keeps its
  identity between audits, and the sections of a report, each computed on its
  own, agree with each other.
- **Accounts.** A code or session is honoured only within its lifetime and its
  number of attempts, and sign-out is final.

## 2. Plan

The order follows what the program can least afford to get wrong. Modules 1 to 9
exist.

| # | Modules | Models | Composes with | Abstract specification | Theorems |
|---|---|---|---|---|---|
| 1 | `FirstAuditGate`, `FirstAudits` | admission, registry, task, row status | refines the gate; its pipeline is 2 and 9 | `FirstAuditGate` | types, cap, one run per store, registry, settled rows, refinement |
| 2 | `EvidenceBlobs` | refcounts, column, objects, retention | its sessions are stages of `FirstAudits` | none: the refcount has a closed form | exactness in series, no dangling under overlap, kept evidence, no orphans, one upload |
| 3 | `StoreMonitor` | schedules, cheap checks, audits, history | its audits are what a re-run of `AuditJobs` starts | none | retention, deltas, schedule, own history, changes audited |
| 4 | `AuditJobs` | job rows, tasks, pruning, startup, polling | runs `AuditReport`, files with `StoreMonitor` | none | row and task agree, retention is exact |
| 5 | `SiteCrawl` | waves, seen set, category caps, budget kept in shared settings | its fetches are `PageFetch` | none | types, page caps, fetched once, nothing forgotten |
| 6 | `PageFetch` | attempts, throttle, verdicts, guard's count | called by `SiteCrawl` | none | spacing, honest results, bounded blocks, counts |
| 7 | `PolicyIndex` | watch, index, cache and the checks that read them | its checks are a node of `AuditReport` | none | honest citations, index and hashes |
| 8 | `AuditReport` | audit graph, aggregation, tiers, report, delta | run by 3 and 4 | none | all its properties (in `AuditJobs_proofs`) |
| 9 | `FirstAuditRules` | facts, rules, findings, status, retained evidence | the pipeline of `FirstAudits` | none | all its properties |
| next | `AuthSessions` | sessions, one-time codes, seeding of the admin | in front of 1 | none | lifetimes, attempts |

Modules meant for proofs use no recursive operator: `SiteCrawl` fills its queue by
recursive functions, and `AuditReport` selects entries of a list by the set of
their positions. Runs are few: one question each, with the instance as small
as the question allows. Where an invariant is proved for all constants and
follows from, or backs, a stronger one that is run, it is left to the proof.

## 3. Modules and the code they model

Common conventions. A step is what runs between two awaits that really suspend.
A session of the database is split where another session can come between: at a
read whose value is used later, at a flush that takes a lock, and at the commit.
Definitions marked *mutant* are plausible bugs the properties are tested
against; no specification uses them.

### FirstAuditGate and FirstAudits

`FirstAuditGate` is the promise: requests are admitted once each, one per store,
at most `MaxConcurrent` at a time, and leave again. `FirstAudits` is the code.

| Model | Code |
|---|---|
| `url`, `UrlKey` | the URL of the body; `_url_key` drops scheme, capitals of the host and trailing slashes. A URL is a record of those parts and a `site` that stands for the rest |
| `slot` | `_FirstAuditSlots._run_id_by_url_key`; `Reserved` is the entry with `None` |
| `handler` | where the POST handler is, or how it answered |
| `task` | where `_run_and_release` and `run_first_audit` are |
| `row`, `saved`, `snapshot` | `FirstAuditRun.status`, the sessions committed before `done`, `snapshot_status` |
| `Post`, `Refuse`, `Conflict`, `Full`, `Reserve` | vetting and `reserve` |
| `InsertRow`, `Launch`, `LaunchFails` | `create_first_audit_run`, `attach` with `create_task`, `except BaseException` |
| `Claim`, `Cleared`, `Stage`, `CommitDone`, `Reject`, `MarkRejected` | `run_first_audit` |
| `Timeout`, `MarkExpired`, `Finish`, `Break` | `wait_for`, its `TimeoutError` branch, the `finally`, an escaping exception |
| `Restart` | the process dies; rows stay, the rest is gone |

A request creates at most one row, so it stands for its `run_id`. The
`asyncio.Lock` of the registry is never held across a suspension, so reserve,
attach and release are atomic. The set that keeps strong references to tasks is
not modelled. The repository's README forbids a second worker process, and the
model has one.

### EvidenceBlobs

Rows of `Blob` (`refcount`, 0 for no row), the `*_blob_hash` columns (`hashOf`)
and the adapter's keys (`objects`). A session has an identity map: `got` is what
its `get` found and `mem` what its object says now; `Commit` writes the changed
values as they are, which is where an increment is lost. `Write` is
`write_blob_if_needed`, `Unreference` is `release_blob`, `BeginPrune`, `Select`
and `Commit` of the janitor are `prune_evidence_blobs`. `Clash` is the INSERT of
a hash that has a row by now or the UPDATE of a row that is gone; it is found at
commit, which for the outcome is the same as finding it at an earlier flush.
Effects on the adapter are immediate and outlive a rollback (`LeftBehind`).

Foreign keys add nothing on SQLite; on Postgres a violated one, or a deadlock,
is an `Abort`. `jsonld_raw` is never passed by a First Audit and the resources
of a run are fresh, so the branches for them are not reached. `prune_llm_cache`
belongs to the LLM cache.

### StoreMonitor

A *worker* is one coroutine of `MonitorService`. `StartAudit` stands for every
way a full audit starts: interval job, admin's re-run, policy change;
`StartCheck` and `Recheck` for the cheap check and the audit it triggers. The
scheduler runs one instance of a job at a time (APScheduler's default), which is
the guard of `StartCheck`. Loading the store and crawling it are one step, which
sees one version of the homepage. The homepage stands for all pages, as the first
page of every crawl.

The two databases differ where it matters. SQLite has one writer
(`Locked`) and reuses the largest id; Postgres locks the rows that were flushed
(`RowLocked`), enforces foreign keys (`Referred`) and takes ids from a sequence.
SQLAlchemy writes only attributes that changed (`Written`). A new `AuditRun` gets
its timestamp at the flush; the model numbers runs in the order of their commits.

`site` is the outside world, `audited`, `filed`, `stranded` and the `of` of a run
are history variables for the properties: no guard reads them. `register_store`
commits the row (`Register`), refreshes the object (`Refresh`) and schedules it
(`Schedule`); `remove_store` takes the jobs first (`BeginRemove`), then gets the
row, deletes it and commits (`EndRemove`). The refresh and the delete may raise
(`RefreshFails`, `RemoveFails`): with a row that is gone or a foreign key always,
with a locked database or a lost connection where `MayFail`. The store is then
registered, without jobs, and in `stranded` until it is scheduled again.

### AuditJobs

| Model | Code |
|---|---|
| `row`, `phase`, `born` | `AuditJobRecord.status`, `phase`, `created_at`; `gone` is a pruned row |
| `Post`, `Create`, `Launch`, `CreateFails` | `JobStore.create` (add, select what is too old, delete, commit), `create_task` |
| `Get`, `Disappeared`, `Save`, `UpdateRaises` | `JobStore._update`: get, row gone, commit, exception |
| `After`, `Raised` | where the task continues when `_update` returns or raises |
| `Vet`, `VetRaises`, `Node`, `File`, `Filed`, `Fail` | the rest of `run_audit_job` and `run_store_rerun_job` |
| `Die`, `Boot` | the process is killed; `lifespan` marks the rows it left |
| `seen`, `Poll` | what the report page of the frontend was told |

The request stands for its job id. Time is counted in days, because retention
is. Nodes of the audit graph run one after the other, and `on_phase` is awaited
before the next one starts.

### SiteCrawl

| Model | Code |
|---|---|
| `app`, `own`, `mode` | `crawl_max_pages` of the application's `Settings` and of a copy, and which of them a crawl was given (`map_site`, its callers) |
| `wave`, `seen`, `count`, `pages` | the batch being fetched, the seen set, products per category, the site map |
| `barred`, `listed`, `later` | what robots.txt disallows, the sitemap, its URLs held back until the homepage is read |
| `AdaptiveBudget`, `Clamp`, `Budget`, `Room` | the budget computed from sitemap or product count, its validator, where it is read |
| `Remember`, `Enqueue`, `EnqueueAll` | normalising, refusing and queueing of links |
| `Among`, `Round`, `Rounds`, `RoundRobin` | the queue by depth; the interleaving of the children of a wave |
| `cut` | history: what was dropped when a wave was cut to the budget |

A step is the end of one wave and the start of the next, because that is where a
crawl awaits. What pages link to, and which class a page has, are inputs.

### PageFetch

`Vet`, `Reserve`, `Open`, `Visit` and `Resume` are the awaits of an attempt: the
address check with its resolver retries, the slot of the domain, the browser
context, the visit and the pause. `VetAs`, `NextFree`, `Stop`, `NextAttempt`,
`CountAll` are the decisions between them. A visit is one record of an input set:
how the load ended, what the document looks like before and after an
interstitial, where the browser landed, Retry-After, and what the guard checked.
Time is relative: timers run down with `Tick`, so the state space is finite
without a bound on time. The back-off doubles; `FetchAssumption` says that the
powers of two it uses are numbers, which the prover does not know of itself.

### PolicyIndex

A watch (`Begin`, `Hash`, `Commit`, `Scrape`, `Store`, `Finish`) hashes every
policy, commits the hashes, rebuilds the index of the policies that changed and
drops the cache; `Break` is a process that is killed, and any subset of the sources
may fail to answer. A check (`Retrieve`, `Query`, `Keep`, `Lookup`, `Save`) reads
the index, embeds its page and grades it, each answer going through the cache;
`Age` and `Prune` are expiry and the size limit. The text of a source is a version
number and a hash is the versions it was computed from, so equal hashes mean equal
texts. `owed` is history: a rebuild of the policy was not made, or not whole.

### AuditReport

| Model | Code |
|---|---|
| `node`, `CrawlAndClassify` to `CompileReport`, `Raise` | the nodes of the graph in order, and `_finalize_full_audit`; an audit that raises stores nothing |
| `pages`, `CrawlFailed` | `SiteMap`: each page fine, gone or unverified; `crawl_totally_failed` |
| `MayReport`, `Incomplete`, `BrokenLinks` | what a check can report given how the pages came out; `ByAddress` are the checks that look only at an address (`check_https`) |
| `probing`, `ProbeImage`, `Loaded` | the image probes, which answer in any order; `Small` images are below the minimum resolution |
| `Group`, `Merged`, `Place`, `AggregateGroup`, `Alone`, `Firsts` | `finding_aggregation.py`: the groups, when they are merged, where the merged finding is, what stays as it is |
| `Due`, `OfTier`, `PageStatus`, `CatalogStatus`, `AreaStatus`, `RiskScore`, `RequiredFixes`, `Summary`, `Assessment` | the sections of `report.py`, each computed apart in the code and in the model |
| `Key`, `ByKey`, `DeltaReport` | `generate_delta_report`: the full delta, and the major one, which shows the suspension risks among what is new, resolved and changed |
| `Reports`, `Deltas` | both views of the report and of the delta, as `_finalize_full_audit` computes and stores them |

What the checks report is an input. Findings keep what the report tells apart:
check, page, location, severity, confidence, recommended fix and the counts a merged
finding carries. A merged finding has the fix of its first; the list of required
fixes names one per check and fix. A selection from a list is the set `K` of its positions, and `Picked(list,
K)` is what stands there, in order; two findings that are equal stay two. The
order of rows inside a section, the coverage note of the language model's sample
and the findings about images without alternative text are left out. A store
closed by its robots.txt is a crawl that loaded nothing, and the second caution
such a crawl gets (`business_identity_crawl_incomplete`) stands under
`crawl_incomplete`.

### FirstAuditRules

| Model | Code |
|---|---|
| `store`, `Read`, `Genuine`, `Lookalikes` | the crawled pages; which of a type are read, and which are soft 404s |
| `IdentityFacts`, `CommerceFacts`, `ProductFacts`, `WindowFacts` | the extractors whose facts a rule reads; `Reconciled` drops a return window the model does not confirm |
| `Rules` | the six rules of `starter_rules.yaml` |
| `Contradiction`, `MethodComparison`, `MissingResource`, `AllMissing`, `ExistingCheck` | the five condition types |
| `ReadTable`, `SyncRules`, `OtherSync`, `SyncClashes` | the mirror of the rules in the database, with another First Audit writing it |
| `EvaluateRule`, `RuleRaises`, `FlushFails` | the engine's loop: a rule that raises is passed over, a failed flush poisons the session |
| `FindingOf`, `SnapshotStatus`, `Retain`, `CaptureScreenshots`, `Report` | findings, status, bodies and screenshots kept, the report |
| `settings` | `keep_body_on_pass` (every body is kept) and `screenshots_only_critical` |
| `CitedIn`, `Scanned` | the pages an evaluation cites: observations name them; the text of a delegated finding is scanned for their addresses |
| `RequiredPage` | `check_required_pages` of the other audit, which the properties compare with |

A page's text decides what its patterns match (`Says`) and which links off the
domain it has (`Links`): text matching is an input, the decisions made of it are
the model. Values that compare equal are one value. Pages are read in the order
of the crawl, and "gone" stands for a 404 and for a page that was not discovered.
What a scan makes of the address of a page (`Scanned`) depends on the address
alone, as the texts end every address with a comma or a parenthesis: most pages
are found again, one with a comma, a semicolon or a parenthesis in its address, or
with a stop or a colon at its end, is lost or taken for another page.
Left out: the checks a rule file passes when it is loaded, facts no rule reads
(names, costs, times, payment, identifiers), product variants, wording.

## 4. Runs and their bounds

Each run lists its constants in its `.cfg`. All of them finish within minutes on
two workers, and each checks properties that a mutant in `PROJECT.json`, a
plausible bug in one definition, makes fail.

| Run | Question | Bounds and why they suffice |
|---|---|---|
| `first_audit_safety` | Do cap, one-per-store and registry hold under failures, timeouts and restarts? | Three requests: two that compete and a third that finds the cap reached or a slot just freed. Three stores, one in two spellings that differ in scheme, capitals and slash. `Stages = 2` tells "all sessions" from "all but one"; the code has six, which differ only in what they store. |
| `first_audit_progress` | Does every accepted run settle, and is the gate implemented, fairness included? | Two requests, one slot: contention for the slot is all that liveness depends on. |
| `blobs_serial` | Sessions one at a time: is every count exact, is kept evidence kept, is nothing orphaned? | Two runs that share contents, three bodies, two screenshots, two hashes: content shared within a run, across runs, across kinds. Audits may fail at any step. |
| `blobs_overlap` | Three overlapping audits that may fail: does a reference ever dangle? | Three sessions are one more than `first_audit_max_concurrent`. |
| `monitor_runs` | SQLite: are runs, retention, schedule and deltas right under failures and restarts, registrations and removals that raise midway included? | Three workers, so that two may prune while a third files; `Retain = 2` and up to three runs. |
| `monitor_changes` | Postgres: is every change audited, also in the end? | Two workers, three versions of the homepage, so that a change may come during a check and during the audit it caused. Nothing fails: section 6 says what a failure does. |
| `site_crawl` | Is a page fetched once, nothing known lost unaccounted, and no crawl beyond its limits, while another crawl changes the shared budget? | Two crawls, each on the application's settings, on a copy, or with a budget of its own; three products in a category of two, so that the category fills; a default of 4 and a maximum of 6 pages for a store of 8, so that waves are cut. Three sitemaps (none, mixed, products only) and three robots.txt, one of which closes the store. |
| `page_fetch` | Do slots stay apart, do results claim no more than was met, are blocks respected and the guard's counts kept, and does every fetch end? | Two fetches of one store share a throttle; three attempts leave room for two blocks with another failure between them. One visit per way a visit can turn out. |
| `policy_index` | Does the index follow the hashes, or is it known not to; do findings cite the text they were graded on? | One policy with two sources, so that one may fail while the other answers; one edit of each; one fault at any point; a cache of one row, so that pruning bites. A larger instance, two policies that share a source, has 1.2 million states and passes too. |
| `audit_report` | Does merging lose nothing, does the delta tell no false news, do the parts of a report agree? | Audits in a row, each compared with the one before. Three links to one share button around `Enough = 2` (3 in the code) and `MaxExamples = 2` (5 in the code), so that a pattern is merged, not merged, and cut; a critical finding seen in an address and one the model makes; two images, large enough, whose probes answer in any order; three crawls: all pages, some, none. |
| `audit_rules` | Do conclusions rest on pages that were read, do the two audits agree, is COMPLIANT deserved, is evidence kept, are the rules in force? | 124 stores, each under all four settings: every way in which the pages of a store of five come out of the crawl, with the texts that tell the rules apart; one page whose cited address is lost and one whose address is taken for that of another page. One rule that raises at any place, one other audit that synchronises. |
| `audit_jobs` | Do final statuses stand, is pruning exact, do jobs settle? | An ad-hoc audit and a re-run; one prunes the other's row under its task. Two nodes, two days, retention of one day. |

Bounds in guards: `StoreMonitor` stops handing out ids at `MaxId`, editing at
`MaxVersion`, starting re-runs at `MaxRuns`, and works on one registration and one
removal of an id at a time; `AuditJobs` stops at `MaxDay`, and no handler works
across midnight; `EvidenceBlobs` opens at most `MaxOpen` sessions and starts
each run once; `PolicyIndex` stops editing at `MaxVersion` and faults at
`MaxFaults`; `FirstAuditRules` lets `MaxRaises` rules raise. The deadlock check is
off in `monitor_changes`, where ids may run out, in `policy_index`, where edits and
faults do, and in `audit_rules`, which is one audit and ends. Symmetry is used for
requests, hashes and workers, never in a run with liveness.

`MayBlock = TRUE`, a homepage that a crawl cannot reach, is in no run:
`DeltaAgainstLast` fails there (section 6); `NewestKept` is proved for it.

Fairness, and why the code justifies it:

- *First Audits.* Handlers and database calls return or raise. A crawl may hang
  for ever, so its steps are not fair; only the timeout of `wait_for` is sure.
- *Monitor.* A scheduler job fires again and again while it is scheduled, so a
  check that stays possible starts; database calls return or raise. Nobody has to edit,
  register, remove or re-run. `ChangesGetAudited` speaks of stores whose cheap
  check is scheduled.
- *Fetches.* Every await of an attempt has a timeout and time passes. That a
  fetch ends is then a matter of counts, which is what `EveryFetchEnds` is about.
- *Policy watch.* It is an interval job and its requests have timeouts.
  Nothing is assumed of the checks, the cache or the edits.
- *Jobs.* Database calls return, and an audit ends. There is no timeout around an
  ad-hoc audit, so this rests on its parts: each navigation, fetch and model call
  has a timeout, and pages and attempts are bounded. Somebody restarts a server
  that died.

## 5. Proofs

Each `*_proofs` module proves its component's theorems for all values of the
constants that meet the named assumptions.

| Module | Theorems | Argument |
|---|---|---|
| `FirstAudits_proofs` | `TypeCorrect`, `CapHolds`, `OneRunPerStoreHolds`, `RegistryIsExact`, `DoneIsCompleteHolds`, `EndedIsSettledHolds`, `StatusMonotoneHolds`, `SafeImplementsGate` | `RegistryExact` is inductive with types and with the facts that an audit in flight is named by the slot of its key. The cap follows because the held slots are as many as the audits in flight: an injection from audits to keys, and a cardinality that grows by one only below the cap. Refinement is a case split on the actions. |
| `EvidenceBlobs_proofs` | `TypeCorrect`, `RefcountExactHolds`, `KeptEvidenceHolds`, `NoDanglingHolds`, `NeverOvercountedHolds`, `NoOrphansHolds`, `UploadedOnceHolds` | With `MaxOpen = 1` the open session's map agrees with the rows it read, and `mem` is the number of committed references plus or minus those it handled; at commit this becomes `RefcountExact`. Without pruning, rows and objects only grow, so a reference that was committed with its row cannot dangle, however counts are lost. For orphans, `Accounted` says that bytes without a row are those an open audit is about to commit, and `Released` that a row counted down to zero has lost its bytes; without rows there is then nothing to upload again. Both theorems, and `KeptEvidenceHolds`, need `MaxOpen <= 1` and a retention job that does not fail midway. |
| `StoreMonitor_proofs` | `TypeCorrect`, `NewestKeptHolds`, `DeltaAgainstLastHolds`, `MonitoredIsScheduledHolds`, `HistoryIsOwnHolds`, `ChangeAuditedHolds` | Runs are numbered without gaps below `filed`, and what a worker marked to drop was already too old and stays so. A worker that flushed the homepage holds the lock until it files, so no run comes in between (needs `MayBlock = FALSE`). Ids handed out only grow on Postgres, so a task and a history keep their store (needs `ForeignKeys = TRUE`). A restart rebuilds the schedule from the rows; the mode a registration will schedule is the mode in the row, and a removal in progress still has its row. That changes are audited rests on `Owed`: the snapshot a check reads is no newer than the audits of the store, or a cheap check is on its way to audit it; `Sound` says that what a worker carries is no newer than the site and that a check found a snapshot (needs `ForeignKeys = TRUE`, `HomeRow = "registered"`, `MayBlock = FALSE` and `MayFail = FALSE`: section 6 shows what each of them keeps out). |
| `AuditJobs_proofs`, first part | `JobInvariant`, `TypeCorrect`, `ActiveIsWorkedOnHolds`, `SeenStandsHolds`, `DoneIsCompleteHolds`, `RetentionExactHolds` | `JobInv` says where a task may be for each state of its row and how far its graph is; a final row has no task, so nobody writes it again, and a pruned row is never created again. For retention, a session that creates a row knows exactly which rows are too old on its day; rows that appear meanwhile are as young as its own. |
| `AuditJobs_proofs`, second part, about `AuditReport` | `AuditTypeCorrect`, `NothingDroppedHolds`, `NoFalseNewsHolds`, `FixesAreIssuesHolds`, `PassMeansCheckedHolds`, `NoVerdictWithoutCrawlHolds` | `AuditInv`, checked by TLC first, is inductive: a published report and its delta are those of the findings, in both views (`Compiled`), and every view has its type (`ViewTyped`); the findings are grounded (`Grounded`: every page that did not load is reported, and if none loaded no suspension risk is but a `ByAddress` one); only images of loaded pages are probed, so a probe cannot break that. The rest is about operators. `NthIs` and `PickedIs` say that `Picked(list, K)` has exactly the entries at `K`, each once; `AggregateIs` that the merged list has what stays alone and one finding per first of a group; `Sections` that suspension risks and the three tiers share the list out. For the delta, findings in another order give every set as many entries (`SameNumber`: the bijections between equal findings are glued to one), so they merge alike (`MergedAlike`) and have the same keys (`SameKeys`); a pattern has one key wherever it is merged (`PatternKey`). |
| `SiteCrawl_proofs` | `Invariance`, `TypeOKHolds`, `PageCapHolds`, `CutWhenFullHolds`, `FetchedOnceHolds`, `NothingForgottenHolds` | `Waiting` says that what is queued was seen, is queued once and was not fetched; `Excused`, that what was seen is fetched, queued, barred, cut, or a product of a full category; `Known(c) \subseteq seen \cup later` is the step to `NothingForgotten`. `Within` bounds pages and wave together, `Stages` says what each stage has left to do. What the recursive functions compute (`EnqueueAllKeeps`, `AmongIs`, `RoundsAre`) goes by `UpTo`, an induction over natural numbers that is itself proved from the well-founded order of finite sets. No hypotheses beyond the assumptions. |
| `PageFetch_proofs` | `Invariance`, `TypeOKHolds`, `SlotsSpacedHolds`, `HonestResultHolds`, `BlocksRespectedHolds`, `GuardWorkKeptHolds` | `SlotsSpaced` alone is not inductive: `Throttled` adds that the next free slot of a domain lies a delay behind every slot handed out and behind the one that began last. `Counted` ties the code's counters to the history and says what they leave room for: no pause after the last attempt, no further attempt after the last block allowed. |
| `PolicyIndex_proofs` | `TypeOKHolds`, `GradedOnCitedHolds`, `IndexKeptHolds`, `IndexFollowsHashHolds` | Honest citations rest on `CacheHonest`: no row was graded on another text than its key says. For the index, `Watched` says that what a watch staged is no newer than the sources and what it scraped is no older than what it hashed. The last theorem needs `OneWatcher`: two watches may store their chunks in the other order. |
| `FirstAuditRules_proofs` | `Invariance`, `TypeOKHolds`, `FailIsObservedHolds`, `AuditsAgreeHolds`, `RulesInForceHolds`, `EvidenceKeptHolds`, `CompliantMeansCleanHolds` | Every fact is supported by a page that was read and says so (`FactsInv`). Every evaluation is typed, traced to pages of the run, honest about what it failed on, and agreed with the other audit (`RightInv`), which is where the five condition types are taken apart. `Mirror` says what a synchronisation may leave of another's rows, `Built` what the later stages made of the evaluations. For the status, `Covered` adds that every rule was evaluated or is known to have been passed over; with finitely many facts the lowest confidence exists (`LeastNatural`). |

The flags in parentheses are hypotheses of the theorems (`ASSUME MayBlock =
FALSE` and so on), not of the modules: without them the property is false, and
section 6 says how. The assumptions of the modules are on constants: finite
sets, positive bounds, values in range. `RulesAssumption` wants the texts to state
finitely many facts and the model to give a confidence between 0 and 100, as its
schema does.

Only model-checked: liveness (`AcceptedRunsSettle`, `ChangesGetAudited`,
`CatchesUpOrOwed`, `EveryFetchEnds`, `JobsSettle`) and the fair half of
`ImplementsGate`, which need fairness and ENABLED that the prover does not handle.
Every safety invariant and every action property of the runs is also proved, for
`AuditReport` from `ReportAssumption` (finitely many pages, findings and tables of
the declared kinds) and `TierAssumption` (a broken link is of the tier `listing`,
as `_TIER_BY_CHECK_ID` has it). What a score comes to is not the subject of a
theorem, except that a list without findings scores 100; that is all
`NoVerdictWithoutCrawl` says of it.

Only proved, and left out of the runs: the types of all proved modules,
`DoneIsComplete`, `EndedIsSettled`, `StatusMonotone`, `NeverOvercounted`,
`UploadedOnce`, `HistoryIsOwn`, `IndexKept`, `ActiveIsWorkedOn`.

## 6. What the code does otherwise than it says

Each of these was seen in the model; where a definition is named, TLC finds it
violated under the constants given.

First Audits and evidence:

- *Overlapping audits lose an increment.* The refcount is read, incremented in
  Python and written back without a lock (`evidence_blob_store.py:50`), where
  `db.py:253-255` says it is "the number of Resource/FindingRecord rows currently
  pointing at this hash". `RefcountExact` under `EvidenceBlobsSerial` with `MaxOpen
  = 2`, `Prunable = {}`, `MayAbort = {}`. `NoDangling` still holds without pruning;
  with pruning the lost increment becomes a lost object.
- *Failed prune.* `EvidenceBlobsSerial` with `MayAbort = {Janitor}` violates
  `KeptEvidence`: `release_blob` deletes the object before the prune commits.
- *Double upload.* `UploadedOnce` under the first constants: two audits that store
  the same new content both upload it, and the second INSERT fails its audit.
- *A verdict overwritten.* `DoneStands` with the constants of `FirstAuditsSafety`:
  the timeout may strike while the session that committed `done` is closing; the
  `TimeoutError` branch writes `error` over it.
- *Confirmed absence of what was not read.* `all_missing` and
  `business_identity_present` report missing contact details as confirmed although
  the contact page was blocked; `engine.py` says of the same case that "couldn't
  read it" must not be scored as absent. `missing_contact_info` gives credit for a
  contact link off the domain, `business_identity_present` does not: one report
  may hold both. The rule engine has no guard for a language it does not know,
  though `engine.py:12-15` claims the protections of `check_required_pages`.
- *Facts of lookalike pages.* Facts are extracted from pages that soft-404
  detection flags, which its docstring (18-28) excludes; the body of a lookalike
  page that a `needs_review` rests on is not kept.
- *A cited page loses its body.* Several emails or phones are reported without a
  page, and the pages are scanned out of the text of the finding by a pattern that
  stops at `,` `;` `(` `)`, with a last `.` or `:` stripped
  (`first_audit.py:45`, 95-101). A page with one of these in its address is not
  found, or another page has its body kept instead, where the docstring (75-86)
  calls a cited page "exactly as defensible to keep". `EvidenceKept` asks for the
  pages `p` with `p \in Scanned[p]`; without that condition TLC finds a store
  whose contact page is dropped.
- *COMPLIANT after a rule that raised.* A rule that raises leaves no trace, so the
  status may be undeserved; `CompliantMeansClean` speaks of runs in which none did.
  A failed flush poisons the session, so the other rules are not "unaffected":
  the audit ends in `error`.
- *A dead rule.* No extractor yields `platform_api` prices, and the rule asks for
  confidence 1.0: `price_mismatch_jsonld_vs_platform` never fires.

Monitor and jobs:

- *A change whose audit fails is forgotten.* The new hash is committed before the
  audit it triggers (`monitor_service.py:217`; `README.md:167` promises the audit).
  `ChangeAudited` under `StoreMonitorChanges` with `SafeSpec`, `Workers = {w1}`,
  `MaxVersion = 2`, `MaxRuns = 2`, `MayFail = TRUE`, `ForeignKeys = FALSE`.
- *SQLite gives a new store the history of a removed one.* It enforces no foreign
  keys, hands the largest id out again, and `remove_store` deletes only the
  store's row. `HistoryIsOwn` under `StoreMonitorRuns` with `Urls = {u1, u2}`. It
  inherits the snapshots as well: `ChangeAudited` under `StoreMonitorChanges` with
  `SafeSpec` and `ForeignKeys = FALSE`, where a check of the removed store recorded
  a change that no audit covers.
- *A blocked homepage.* `StoreMonitorRuns` with `MayBlock = TRUE` violates
  `DeltaAgainstLast`: an audit that wrote no snapshot takes no lock, and another
  one files between its read of the previous run and its own commit. Under
  `StoreMonitorChanges` with `SafeSpec` it violates `ChangeAudited`: the check read
  the homepage, the audit it triggered did not and files all the same.
- *Two rows for one homepage.* `StoreMonitorChanges` with `HomeRow = "mapped"`
  violates `ChangeAudited` with no failure at all: a store registered without a
  trailing slash has one snapshot for cheap checks and another for crawls.
- *Half a removal, half a registration.* `remove_store` takes the jobs first
  (`monitor_service.py:133`); when the get, the delete or the commit after it raises
  (a foreign key on Postgres, a locked database on SQLite, a lost connection), the
  store stays registered and is not scheduled. So does a new store when the refresh
  after its commit raises (`monitor_service.py:91`). Only a restart schedules it
  again: registering it once more is refused as a duplicate. These are the ids in
  `stranded`, the exception of `MonitoredIsScheduled`.
- *An orphan job.* `Register`, `Refresh`, `BeginRemove`, `EndRemove`, `Schedule`:
  `register_store` schedules from the object it refreshed, and the jobs of a store
  that was removed meanwhile stay. Each fires and finds no store.
- *A malformed address leaves a job at `running`.* The `try` around
  `assert_public_url` catches `SSRFBlockedError` only (`jobs.py:134`); `urlparse` and
  `getaddrinfo` raise `ValueError` and `UnicodeError` for some spellings. The task
  ends, and the page polls until a restart. `RunningIsWorkedOn` under `AuditJobs`.

Crawls and fetches:

- *The default budget is not left alone.* A crawl stores its adaptive budget in
  the settings it is given (`site_mapper.py:440`), and First Audits pass the
  application's own: later crawls without a sitemap run on the budget of another
  store, where `site_mapper.py:98-99` says "left at the configured default".
  `DefaultKept` under `SiteCrawl`.
- *A block page as content.* A hard block met after a challenge (`fetch.py:633`) is
  returned as a page, where 626-632 says it is "never handed downstream as if its
  block-page body were real content". `BlockPageNotContent` under `PageFetch` with
  `Visits <- MCBlockVisits`.
- *Smaller ones in `fetch.py`.* A refusal before a visit (568-570) returns 0 checked
  requests whatever earlier attempts made; the pace of the actual visits may fall
  below the delay, since only slots are spaced; the status of a result may stem
  from an earlier attempt; an error while a context is opened (574-592) escapes
  and ends the crawl; Retry-After is capped, the resolver's pauses are not.

Policies and reports:

- *A changed policy is not always reindexed.* A source that fails, or a watch that
  is killed between the hash and the rebuild, leaves the old chunks, and the next
  watch sees no change; `policy_watcher.py:8-10` says otherwise.
  `ChangedIsReindexed` under `PolicyIndex`. An aborted watch also skips the
  invalidation, and a check in flight may store its answer after one.
- *Keys of the cache.* A row that another audit inserted first makes the write
  raise (`cache.py:79`): the check is dropped or falls back to the stub. The
  citations of claim findings name policy text that was not in the prompt. The
  key of a vision check is the address of the image only (`db.py:194-198`).
- *Merged findings.* The first of a group gives a merged finding its severity and
  confidence though probes answer in any order, which `_aggregate_group` (117-120)
  denies; a pattern that grows to the threshold shows as resolved and new; the
  third instance of a pattern improves the score; the delta takes two findings of
  one check on one page for one.
- *Sections that differ.* A low suspension finding on an unreadable page reads
  CANNOT VERIFY in the full view and RISK in the major one; in the major view a page
  with a HIGH finding of another tier reads PASS; the status of a catalog section
  comes from its shortest address only; one quality finding scores 100.
- *A verdict after a crawl that loaded nothing.* `check_https` reports a critical
  finding about the address of the homepage whether it loaded or not
  (`deterministic.py:97-112`), so a report whose banner says that "no finding in
  this report reflects a real assessment" (`report.py:645`) may list a suspension
  risk and a required fix below it.
  `NoVerdictWithoutCrawl` therefore allows fixes of `ByAddress` checks.

Outside the models:

- `audit_run_retention_count` has no lower bound; at 0 the prune would delete the
  run just filed. The model assumes `Retain` of at least 1.
- The docstring of `AuditJobRecord` says "no automatic cleanup yet" (`db.py:137`);
  `JobStore.create` prunes.
- `graph.py` reports a phase when its node is complete; the page shows that phase
  as the one that is active.
- `monitor.py` run beside a server has a scheduler of its own: a store it
  registers is not on the server's schedule before a restart.

## 7. What is not modelled

- *Accounts, sessions, one-time codes.* The next component. Hard in it: the
  attempts of a code are read, incremented in Python and written at commit, as the
  refcounts are; and a start of the server looks for the admin of the environment
  by address, so that after a change of address it inserts a second one.
- *Rate limiter.* Every call is one step between two awaits, so its window is a
  property of one function and not of an interleaving.
- *Text and markup.* What a pattern matches in a page, what a page links to, which
  class it has, and what a model answers are inputs of the modules; the matching
  itself, prompts, embeddings and similarity are not modelled.
- *Page checks* other than required pages, lookalikes, the identity check, broken
  links and image probes; the purchase journey, which drives a browser.
- *Layout*: wording, order of rows, the DOCX, PDF and CSV renderings, the frontend
  apart from its polling.
- *Declarations and codecs*: table definitions, settings, compression.
- *Command line tools and `legacy/`*, which the application does not import.

Inside the models, the contents of evidence, logging, and the two processes of a
rolling deployment are left out. The repository's README forbids a second worker
process, and no module has one but `PolicyIndex`, whose watch also runs from the
command line.
