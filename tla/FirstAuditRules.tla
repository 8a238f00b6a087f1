--------------------------- MODULE FirstAuditRules ---------------------------
(***************************************************************************)
(* What a First Audit concludes about a store (app/first_audit.py): the    *)
(* facts taken from the pages that could be read (app/facts), the rules    *)
(* evaluated over them (app/rules/engine.py, app/contradiction_engine.py,  *)
(* app/off_domain_credit.py, app/checks/business_identity.py), the         *)
(* findings and the compliance status built from the evaluations           *)
(* (app/findings_builder.py), the evidence kept for them, and the report   *)
(* (app/first_audit_report.py).  The rules are mirrored into a table that  *)
(* other First Audits write too (app/rules/loader.py).                     *)
(*                                                                         *)
(* What a store states, and how much of it the crawl can read, is an       *)
(* input.  A page's text decides what is stated and linked on it.          *)
(***************************************************************************)
EXTENDS Integers, Sequences, FiniteSets, SequencesExt

CONSTANTS
  Order,      \* the pages of a store in the order of the crawl, home first
  PageType,   \* page -> page_type
  Texts,      \* what a page may read
  Says,       \* text -> what its patterns match: a set of [fact, value]
  Links,      \* text -> kinds of links off the store's domain
  Stores,     \* the site maps a crawl may end with
  Answers,    \* what the model may answer when asked for a page's return window
  Tables,     \* rules tables that earlier versions may have left: id -> active
  Calling,    \* phone -> countries of its calling code, {} if it has none known
  Scanned,    \* page -> pages found when its address is scanned out of a text
  Settings,   \* the settings an audit may run under
  MaxRaises,  \* bound: rules of one audit that raise
  NoPage, NoText, NoAnswer, NoVerdict

Pages == ToSet(Order)
Home == Order[1]
\* A page is gone when it was not found: neither reachable nor cannot_verify.
Conditions == {"read", "blocked", "gone"}
Severities == {"critical", "high", "medium", "low"}
Results == {"pass", "fail", "needs_review"}

WindowTypes == {"returns_policy", "faq", "product", "checkout"}
RegionTypes == {"homepage", "shipping_policy"}
IdentityTypes == {"homepage", "contact_about", "privacy_policy", "shipping_policy",
                  "returns_policy", "terms_of_service"}

\* starter_rules.yaml.
Rule(id, type, severity, impact, min, about) ==
  [id |-> id, type |-> type, severity |-> severity, impact |-> impact,
   min |-> min, about |-> about]
Rules ==
  <<Rule("price_mismatch_jsonld_vs_platform", "numeric_mismatch", "critical", "listing_disapproval", 100,
         [fact |-> "price", methods |-> <<"jsonld", "platform_api">>, tolerance |-> 1]),
    Rule("shipping_region_contradiction", "cross_page_contradiction", "low", "quality_improvement", 75,
         [fact |-> "region", sources |-> RegionTypes]),
    Rule("return_window_conflict", "cross_page_contradiction", "high", "listing_disapproval", 75,
         [fact |-> "window", sources |-> WindowTypes]),
    Rule("missing_contact_info", "all_missing", "critical", "suspension_risk", 100,
         [fields |-> {"email", "phone"}]),
    Rule("missing_returns_page", "missing_resource", "critical", "suspension_risk", 100,
         [kind |-> "returns_policy"]),
    Rule("business_identity_conflict", "existing_check", "critical", "suspension_risk", 75,
         [check |-> "check_business_identity_consistency"])>>
RuleIds == {Rules[n].id : n \in 1..Len(Rules)}
RuleOf(id) == Rules[CHOOSE n \in 1..Len(Rules) : Rules[n].id = id]

ASSUME RulesAssumption ==
  /\ Order \in Seq(Pages) \ {<<>>}
  /\ \A t \in Texts : IsFiniteSet(Says[t])
  /\ NoPage \notin Pages
  /\ NoText \notin Texts
  /\ Stores \subseteq [site : [Pages -> Conditions], text : [Pages -> Texts],
                       baseline : Texts \cup {NoText}, unsupported : BOOLEAN]
  /\ Scanned \in [Pages -> SUBSET Pages]
  /\ Settings \subseteq [keep_body_on_pass : BOOLEAN, screenshots_only_critical : BOOLEAN]
  /\ \A a \in Answers : a # NoAnswer => a.confidence \in 0..100
  /\ MaxRaises \in Nat

VARIABLES
  stage,       \* how far run_first_audit is
  settings,    \* the settings of the audit
  store,       \* the site map of the crawl
  facts,       \* the ResourceFact rows of the run
  table,       \* the rules table: id -> active
  known,       \* the rows of it that sync_rules_to_db has read
  turn,        \* the index of the next rule to evaluate
  skipped,     \* rules that raised
  broken,      \* a flush failed in the session of the evaluations
  evaluations, \* the Evaluation rows of the run
  findings,    \* its FindingRecord rows
  kept,        \* pages whose body is kept as evidence
  shots,       \* findings with a screenshot
  verdict      \* snapshot_status

shop == <<settings, store, facts>>
rules == <<table, known>>
engine == <<turn, skipped, broken>>
outcome == <<findings, kept, shots, verdict>>
vars == <<stage, shop, rules, engine, evaluations, outcome>>

----------------------------------------------------------------------------
(* What the crawl has *)

Read(s) == {p \in Pages : s.site[p] = "read"}
CrawlFailed(s) == Read(s) = {}
OfType(type) == {p \in Pages : PageType[p] = type}
\* Mutant: a page that could not be read is treated as not found.
BlockedOverlooked(s, type) == {}
Blocked(s, type) == {p \in OfType(type) : s.site[p] = "blocked"}
\* The first page of a set in the order of the crawl.
First(S) == Order[CHOOSE n \in 1..Len(Order) :
                    Order[n] \in S /\ \A m \in 1..(n - 1) : Order[m] \notin S]

\* is_strong_content_match: texts alike but for details are one text here.
StrongMatch(text, baseline) == baseline # NoText /\ text = baseline
\* soft_404_flagged_page_urls: pages like the answer to an address that does
\* not exist, or like the homepage.
Flagged(s) ==
  {p \in Read(s) :
     \/ StrongMatch(s.text[p], s.baseline)
     \/ p # Home /\ Home \in Read(s) /\ StrongMatch(s.text[p], s.text[Home])}
Genuine(s, type) == (OfType(type) \cap Read(s)) \ Flagged(s)
Lookalikes(s, type) == OfType(type) \cap Flagged(s)

\* A link off the domain that stands for a page of the store's own.
Credited(s, kinds) == \E p \in Read(s) : Links[s.text[p]] \cap kinds # {}
ReturnsCredit(s) == Credited(s, {"returns_portal", "returns_subdomain"})
ContactCredit(s) == Credited(s, {"contact_subdomain"})

\* What the pages of some types state of a fact.
Values(s, p, fact) == {g.value : g \in {h \in Says[s.text[p]] : h.fact = fact}}
Stating(s, types, fact) == {p \in Read(s) : PageType[p] \in types /\ Values(s, p, fact) # {}}
Stated(s, types, fact) == UNION {Values(s, p, fact) : p \in Stating(s, types, fact)}

\* What check_required_pages says of a type of page (the other audit's check).
RequiredPage(s, type) ==
  IF CrawlFailed(s) THEN "not_crawled"
  ELSE IF Genuine(s, type) # {} THEN "present"
  ELSE IF Lookalikes(s, type) # {} THEN "lookalike"
  ELSE IF Blocked(s, type) # {} THEN "unreadable"
  ELSE IF s.unsupported THEN "language" ELSE "missing"

----------------------------------------------------------------------------
(* Facts *)

Confidence(method) ==
  CASE method = "platform_api" -> 98 [] method \in {"jsonld", "regex_llm_agree"} -> 95
    [] method = "business_identity_regex" -> 90
    [] method \in {"return_window_regex", "shipping_region_regex"} -> 80
Row(p, fact, value, method, confidence) ==
  [page |-> p, fact |-> fact, value |-> value, method |-> method, confidence |-> confidence]
Rows(s, types, fact, method) ==
  UNION {{Row(p, fact, v, method, Confidence(method)) : v \in Values(s, p, fact)} :
           p \in Stating(s, types, fact)}

\* No rule reads the other facts: names, countries, costs, times, payment.
IdentityFacts(s) ==
  UNION {Rows(s, IdentityTypes, fact, "business_identity_regex") :
           fact \in {"email", "phone", "address"}}
CommerceFacts(s) == Rows(s, RegionTypes, "region", "shipping_region_regex")
ProductFacts(s) == Rows(s, {"product"}, "price", "jsonld")

WindowPages(s) == {p \in Read(s) : PageType[p] \in WindowTypes}
\* _return_window_fact: what the pattern finds on a page.
Window(s, p) == Values(s, p, "window")
\* _reconcile_one: a window the model does not find, or quotes from nowhere,
\* is dropped whatever the pattern found.
Reconciled(s, p, answer) ==
  IF answer = NoAnswer THEN {}
  ELSE IF ~answer.quoted THEN {}
  ELSE IF answer.days \in Window(s, p)
  THEN {Row(p, "window", answer.days, "regex_llm_agree", Confidence("regex_llm_agree"))}
  ELSE {Row(p, "window", answer.days, "llm", answer.confidence)}
\* extract_llm_assisted_commerce_facts, without a model and with one.
WindowFacts(s) ==
  {Rows(s, WindowTypes, "window", "return_window_regex")}
    \cup {UNION {Reconciled(s, p, answer[p]) : p \in WindowPages(s)} :
            answer \in [WindowPages(s) -> Answers]}
AllFacts(s, windows) == IdentityFacts(s) \cup CommerceFacts(s) \cup ProductFacts(s) \cup windows

----------------------------------------------------------------------------
(* Evaluations.  page is the resource the row is about, shown the page of    *)
(* its finding, cited the pages its evidence names, in a list or in a text.  *)

Evaluation(rule, check, severity, result, confidence, page, shown, cited) ==
  [rule |-> rule.id, check |-> check, severity |-> severity, result |-> result,
   confidence |-> confidence, page |-> page, shown |-> shown, cited |-> cited]
SiteWide(rule, result, confidence, shown, cited) ==
  Evaluation(rule, rule.id, rule.severity, result, confidence, NoPage, shown, cited)

Lowest(rows) == CHOOSE c \in {r.confidence : r \in rows} : \A r \in rows : c <= r.confidence
Judged(equal, confidence, rule) ==
  IF equal THEN "pass" ELSE IF confidence >= rule.min THEN "fail" ELSE "needs_review"

\* values_equal: values are the same text here when they compare equal.
Equal(rows) == \A a, b \in rows : a.value = b.value
\* evaluate_cross_page_contradiction; first is the row the query returns first.
\* The tolerances of the facts compared this way are zero.
Observed(rule) ==
  {r \in facts : r.fact = rule.about.fact /\ PageType[r.page] \in rule.about.sources}
Contradiction(rule, first) ==
  LET rows == Observed(rule)
  IN IF Cardinality(rows) < 2 THEN {}
     ELSE {SiteWide(rule, Judged(Equal(rows), Lowest(rows), rule), Lowest(rows), first,
                    {r.page : r \in rows})}

\* evaluate_per_resource_method_comparison: only what both methods saw.
MethodComparison(rule) ==
  LET pairs == {ab \in facts \X facts :
                  /\ ab[1].fact = rule.about.fact /\ ab[2].fact = rule.about.fact
                  /\ ab[1].page = ab[2].page
                  /\ ab[1].method = rule.about.methods[1]
                  /\ ab[2].method = rule.about.methods[2]}
  IN {LET lowest == Lowest({ab[1], ab[2]})
          apart == ab[1].value - ab[2].value
          equal == -rule.about.tolerance <= apart /\ apart <= rule.about.tolerance
      IN Evaluation(rule, rule.id, rule.severity, Judged(equal, lowest, rule), lowest,
                    ab[1].page, ab[1].page, {ab[1].page}) : ab \in pairs}

\* Mutant: any page that answers is the page looked for.
MissingResourceTrusting(rule) ==
  LET one(result) == {SiteWide(rule, result, 100, NoPage, {})}
  IN IF CrawlFailed(store) THEN one("needs_review")
     ELSE IF OfType(rule.about.kind) \cap Read(store) # {} THEN one("pass")
     ELSE IF Blocked(store, rule.about.kind) # {} THEN one("needs_review")
     ELSE IF ReturnsCredit(store) THEN one("pass") ELSE one("fail")
MissingResource(rule) ==
  LET type == rule.about.kind
      blocked == Blocked(store, type)
  IN {IF CrawlFailed(store) THEN SiteWide(rule, "needs_review", 0, NoPage, {})
      ELSE IF Genuine(store, type) # {} THEN SiteWide(rule, "pass", 100, NoPage, {})
      ELSE IF Lookalikes(store, type) # {} THEN SiteWide(rule, "needs_review", 50, NoPage, {})
      ELSE IF blocked # {} THEN SiteWide(rule, "needs_review", 30, First(blocked), {})
      ELSE IF type = "returns_policy" /\ ReturnsCredit(store)
      THEN SiteWide(rule, "pass", 80, NoPage, {})
      ELSE SiteWide(rule, "fail", 100, NoPage, {})}

AllMissing(rule) ==
  {IF CrawlFailed(store) THEN SiteWide(rule, "needs_review", 0, NoPage, {})
   ELSE IF \E r \in facts : r.fact \in rule.about.fields
   THEN SiteWide(rule, "pass", 100, NoPage, {})
   ELSE IF rule.about.fields = {"email", "phone"} /\ ContactCredit(store)
   THEN SiteWide(rule, "pass", 80, NoPage, {})
   ELSE SiteWide(rule, "fail", 100, NoPage, {})}

----------------------------------------------------------------------------
(* check_business_identity_consistency, and its delegation *)

Delegated(rule, check, severity, result, page, cited) ==
  Evaluation(rule, check, severity, result, IF result = "fail" THEN 85 ELSE 30, page, page, cited)
\* Countries named in the text of the identity pages; phones whose calling code
\* belongs to none of them.
Countries(s) == Stated(s, IdentityTypes, "country")
Foreign(s) ==
  {n \in Stated(s, IdentityTypes, "phone") :
     Calling[n] # {} /\ Countries(s) # {} /\ Calling[n] \cap Countries(s) = {}}
Several(s, fact) == Cardinality(Stated(s, IdentityTypes, fact)) > 1
ExistingCheck(rule) ==
  LET s == store
      inconsistent(fact, check) ==
        IF Several(s, fact)
        THEN {Delegated(rule, check, "medium", "fail", NoPage, Stating(s, IdentityTypes, fact))}
        ELSE {}
      from(phone) == First({p \in Stating(s, IdentityTypes, "phone") : phone \in Values(s, p, "phone")})
  IN IF CrawlFailed(s)
     THEN {Delegated(rule, "business_identity_crawl_incomplete", "high", "needs_review", Home, {Home})}
     ELSE IF \A fact \in {"email", "phone", "address"} : Stated(s, IdentityTypes, fact) = {}
     THEN {[Delegated(rule, "business_identity_present", "critical", "fail", NoPage, {})
              EXCEPT !.confidence = 100]}
     ELSE inconsistent("email", "business_identity_email_consistency")
            \cup inconsistent("phone", "business_identity_phone_consistency")
            \cup {Delegated(rule, "business_identity_phone_country_mismatch", "high", "fail",
                            from(n), {from(n)}) : n \in Foreign(s)}

\* The page of the row the database returns first to a rule that compares rows.
FirstSeen(rule) ==
  IF rule.type = "cross_page_contradiction" /\ Observed(rule) # {}
  THEN {r.page : r \in Observed(rule)} ELSE {NoPage}
Evaluated(rule, first) ==
  CASE rule.type = "cross_page_contradiction" -> Contradiction(rule, first)
    [] rule.type = "numeric_mismatch" -> MethodComparison(rule)
    [] rule.type = "missing_resource" -> MissingResource(rule)
    [] rule.type = "all_missing" -> AllMissing(rule)
    [] rule.type = "existing_check" -> ExistingCheck(rule)

----------------------------------------------------------------------------
(* Findings, status, evidence and report *)

Risk(e) ==
  IF e.check = e.rule /\ RuleOf(e.rule).impact = "quality_improvement" THEN "advisory"
  ELSE CASE e.severity = "critical" -> "suspension_risk" [] e.severity = "high" -> "serious_risk"
         [] e.severity = "medium" -> "listing_disapproval" [] e.severity = "low" -> "minor_issue"
FindingOf(e) ==
  [check |-> e.check, severity |-> e.severity, risk |-> Risk(e), page |-> e.shown, result |-> e.result]
\* Mutant: what is to be reviewed is no finding.
ActionableCertain(E) == {e \in E : e.result = "fail"}
Actionable(E) == {e \in E : e.result # "pass"}
FindingsOf(E) == {FindingOf(e) : e \in Actionable(E)}

SnapshotStatus(F) ==
  LET severities == {f.severity : f \in {g \in F : g.risk # "advisory"}}
  IN IF "critical" \in severities THEN "CRITICAL"
     ELSE IF "high" \in severities THEN "AT_RISK"
     ELSE IF severities # {} THEN "ACTION_REQUIRED" ELSE "COMPLIANT"

\* Mutant: only an evaluation of a single page keeps a body.
FailingResources(E) == {e.page : e \in {d \in Actionable(E) : d.page # NoPage}}
\* Observations name their page.  The text of a delegated finding is scanned for
\* addresses by a pattern that stops at , ; ( and ) and strips a last . or :, so
\* a page with one of these in its address is lost, or taken for another one.
CitedIn(e) ==
  IF RuleOf(e.rule).type = "existing_check" THEN UNION {Scanned[p] : p \in e.cited} ELSE e.cited
Failing(E) == UNION {IF e.page # NoPage THEN {e.page} ELSE CitedIn(e) : e \in Actionable(E)}
\* store_resource_body_evidence: a page that was not read has no body to keep.
Bodies(E) == (IF settings.keep_body_on_pass THEN Pages ELSE Failing(E)) \cap Read(store)
\* Findings _capture_finding_screenshots visits the page of.
ScreenshotWorthy ==
  {f \in findings :
     /\ f.page # NoPage /\ f.result = "fail"
     /\ settings.screenshots_only_critical => f.severity \in {"critical", "high"}}

\* render_first_audit_report_markdown
Report ==
  [status |-> verdict,
   risks |-> {f \in findings : f.risk # "advisory"},
   advisories |-> {f \in findings : f.risk = "advisory"},
   unread |-> Cardinality({p \in Pages : store.site[p] = "blocked"})]

----------------------------------------------------------------------------
(* run_first_audit *)

Init ==
  /\ stage = "crawl"
  /\ settings \in Settings /\ store \in Stores
  /\ facts = {} /\ evaluations = {} /\ findings = {} /\ kept = {} /\ shots = {}
  /\ table \in Tables
  /\ known = {} /\ turn = 1 /\ skipped = {} /\ broken = FALSE
  /\ verdict = NoVerdict

ExtractFacts ==
  /\ stage = "crawl"
  /\ \E windows \in WindowFacts(store) : facts' = AllFacts(store, windows)
  /\ stage' = "facts"
  /\ UNCHANGED <<settings, store, rules, engine, evaluations, outcome>>

\* Mutant: rules that left the file stay active.
SyncedUpsert(T, seen) == [id \in DOMAIN T \cup RuleIds |-> id \in RuleIds \/ T[id]]
\* sync_rules_to_db reads the table, and commits what it makes of what it read.
Synced(T, seen) ==
  [id \in DOMAIN T \cup RuleIds |-> id \in RuleIds \/ (T[id] /\ id \notin seen)]
ReadTable ==
  /\ stage = "facts"
  /\ known' = DOMAIN table
  /\ stage' = "syncing"
  /\ UNCHANGED <<shop, table, engine, evaluations, outcome>>
\* Another First Audit commits its rules in between.
OtherSync ==
  /\ stage \in {"facts", "syncing"}
  /\ table' = Synced(table, DOMAIN table)
  /\ UNCHANGED <<stage, shop, known, engine, evaluations, outcome>>
\* A rule inserted by the other one meanwhile violates the primary key.
Clash == \E id \in RuleIds : id \notin known /\ id \in DOMAIN table
SyncRules ==
  /\ stage = "syncing" /\ ~Clash
  /\ table' = Synced(table, known)
  /\ stage' = "rules"
  /\ UNCHANGED <<shop, known, engine, evaluations, outcome>>
SyncClashes ==
  /\ stage = "syncing" /\ Clash
  /\ stage' = "error"
  /\ UNCHANGED <<shop, rules, engine, evaluations, outcome>>

\* run_rule_engine: one rule after the other, then the commit.
EvaluateRule ==
  /\ stage = "rules" /\ turn <= Len(Rules) /\ ~broken
  /\ \E first \in FirstSeen(Rules[turn]) :
       evaluations' = evaluations \cup Evaluated(Rules[turn], first)
  /\ turn' = turn + 1
  /\ UNCHANGED <<stage, shop, rules, skipped, broken, outcome>>
\* A rule raises: it is logged and passed over.
RuleRaises ==
  /\ stage = "rules" /\ turn <= Len(Rules) /\ ~broken
  /\ Cardinality(skipped) < MaxRaises
  /\ skipped' = skipped \cup {Rules[turn].id}
  /\ turn' = turn + 1
  /\ UNCHANGED <<stage, shop, rules, broken, evaluations, outcome>>
\* A failed flush leaves a session in which every later statement raises.
FlushFails ==
  /\ stage = "rules" /\ turn <= Len(Rules) /\ ~broken
  /\ broken' = TRUE
  /\ skipped' = skipped \cup {Rules[n].id : n \in turn..Len(Rules)}
  /\ turn' = Len(Rules) + 1
  /\ UNCHANGED <<stage, shop, rules, evaluations, outcome>>
CommitRules ==
  /\ stage = "rules" /\ turn > Len(Rules)
  /\ stage' = IF broken THEN "error" ELSE "findings"
  /\ evaluations' = IF broken THEN {} ELSE evaluations
  /\ UNCHANGED <<shop, rules, engine, outcome>>

BuildFindings ==
  /\ stage = "findings"
  /\ findings' = FindingsOf(evaluations)
  /\ stage' = "retention"
  /\ UNCHANGED <<shop, rules, engine, evaluations, kept, shots, verdict>>
Retain ==
  /\ stage = "retention"
  /\ kept' = Bodies(evaluations)
  /\ stage' = "screenshots"
  /\ UNCHANGED <<shop, rules, engine, evaluations, findings, shots, verdict>>
\* A capture that fails or finds no quote leaves its finding without one.
CaptureScreenshots ==
  /\ stage = "screenshots"
  /\ shots' \in SUBSET ScreenshotWorthy
  /\ stage' = "closing"
  /\ UNCHANGED <<shop, rules, engine, evaluations, findings, kept, verdict>>
Finish ==
  /\ stage = "closing"
  /\ verdict' = SnapshotStatus(findings)
  /\ stage' = "done"
  /\ UNCHANGED <<shop, rules, engine, evaluations, findings, kept, shots>>
\* Anything else that raises: a full disk, a locked database.
Fail ==
  /\ stage \notin {"done", "error"}
  /\ stage' = "error"
  /\ evaluations' = IF stage = "rules" THEN {} ELSE evaluations
  /\ UNCHANGED <<shop, rules, engine, outcome>>

Next ==
  \/ ExtractFacts \/ ReadTable \/ OtherSync \/ SyncRules \/ SyncClashes
  \/ EvaluateRule \/ RuleRaises \/ FlushFails \/ CommitRules
  \/ BuildFindings \/ Retain \/ CaptureScreenshots \/ Finish \/ Fail

Spec == Init /\ [][Next]_vars

----------------------------------------------------------------------------
(* What is required of the conclusions *)

Stages == {"crawl", "facts", "syncing", "rules", "findings", "retention", "screenshots",
           "closing", "done", "error"}

\* The types of the variables.
TypeOK ==
  /\ stage \in Stages
  /\ settings \in Settings /\ store \in Stores
  /\ \A r \in facts : r.page \in Read(store)
  /\ DOMAIN table \subseteq RuleIds \cup UNION {DOMAIN T : T \in Tables}
  /\ known \subseteq DOMAIN table
  /\ turn \in 1..(Len(Rules) + 1)
  /\ skipped \subseteq RuleIds /\ broken \in BOOLEAN
  /\ \A e \in evaluations : e.severity \in Severities /\ e.result \in Results /\ e.confidence \in 0..100
  /\ kept \subseteq Pages /\ shots \subseteq findings
  /\ verdict \in {NoVerdict, "COMPLIANT", "ACTION_REQUIRED", "AT_RISK", "CRITICAL"}

\* A page that could not be read, or only looks like one, is no proof of
\* anything: nothing is a "fail" of a store of which nothing was read, a missing
\* page was neither blocked nor ambiguous nor linked elsewhere, and two pages
\* that contradict each other were both read, each with enough confidence
\* (engine.py "couldn't read it must never be scored as it isn't there",
\* contradiction_engine.py rules 2 and 3).
FailIsObserved ==
  \A e \in evaluations : e.result = "fail" =>
    /\ ~CrawlFailed(store)
    /\ RuleOf(e.rule).type = "missing_resource" =>
         /\ \A p \in OfType(RuleOf(e.rule).about.kind) : store.site[p] = "gone"
         /\ ~ReturnsCredit(store)
    /\ RuleOf(e.rule).type = "cross_page_contradiction" =>
         \E a, b \in Observed(RuleOf(e.rule)) :
           /\ a.value # b.value /\ {a.page, b.page} \subseteq Read(store)
           /\ a.confidence >= RuleOf(e.rule).min /\ b.confidence >= RuleOf(e.rule).min

\* The two audits do not contradict each other about one store: what the rule
\* engine says of the returns page is what check_required_pages says of it,
\* except for a link off the domain, which only the engine credits, and a
\* language the classifier does not know, which only the other one excuses; and
\* the identity check misses all contact details only where no email or phone
\* was extracted (engine.py "the exact same false-positive protections").
AuditsAgree ==
  \A e \in evaluations :
    /\ e.rule = "missing_returns_page" =>
         LET other == RequiredPage(store, "returns_policy") IN
         CASE e.result = "fail" -> other \in {"missing", "language"}
           [] e.result = "needs_review" -> other \in {"not_crawled", "lookalike", "unreadable"}
           [] e.result = "pass" -> \/ other = "present"
                                   \/ other \in {"missing", "language"} /\ ReturnsCredit(store)
    /\ e.check = "business_identity_present" => \A r \in facts : r.fact \notin {"email", "phone"}

\* COMPLIANT, when no rule was passed over, says what it seems to: the store was
\* read, its returns page is genuine or linked elsewhere, it states one way to
\* be contacted or links to one, and no two of its pages give different windows.
\* The report then has nothing but advisories, and no other status lacks a
\* finding of its rank (findings_builder.py compute_snapshot_status).
CompliantMeansClean ==
  stage = "done" =>
    /\ (verdict = "COMPLIANT" /\ skipped = {}) =>
         /\ Read(store) # {}
         /\ Genuine(store, "returns_policy") # {} \/ ReturnsCredit(store)
         /\ Stating(store, IdentityTypes, "email") # {}
              \/ Stating(store, IdentityTypes, "phone") # {} \/ ContactCredit(store)
         /\ \A fact \in {"email", "phone"} : ~Several(store, fact)
         /\ \A a, b \in facts : (a.fact = "window" /\ b.fact = "window") => a.value = b.value
    /\ Report.risks = {} <=> Report.status = "COMPLIANT"
    /\ Report.status = "CRITICAL" <=> \E f \in Report.risks : f.severity = "critical"

\* Evidence is kept for what was found, and only for that: once the bodies are
\* decided on, the page a finding shows and every page that takes part in a
\* contradiction have their body kept if they were read, a page that a finding
\* names in its text only has it kept if its address survives the scan, a
\* screenshot shows a page whose body is kept, and a store without findings keeps
\* nothing, unless the settings keep every body (first_audit.py "PASS-drops-body",
\* and "a page cited as evidence is exactly as defensible to keep").
EvidenceKept ==
  stage \in {"screenshots", "closing", "done"} =>
    /\ \A f \in findings : f.page \in Read(store) => f.page \in kept
    /\ \A e \in Actionable(evaluations) : RuleOf(e.rule).type = "cross_page_contradiction" =>
         {r.page : r \in Observed(RuleOf(e.rule))} \subseteq kept
    /\ \A e \in evaluations : e.check = "business_identity_email_consistency" =>
         {p \in Stating(store, IdentityTypes, "email") : p \in Scanned[p]} \subseteq kept
    /\ \A e \in evaluations : e.check = "business_identity_phone_consistency" =>
         {p \in Stating(store, IdentityTypes, "phone") : p \in Scanned[p]} \subseteq kept
    /\ \A f \in shots : f.page \in kept
    /\ IF settings.keep_body_on_pass THEN kept = Read(store) ELSE findings = {} => kept = {}

\* Once a run's rules are synchronised, the active rows are exactly those of the
\* YAML file, also when another run wrote the table meanwhile; and what was
\* concluded names an active rule (loader.py "makes the table match the YAML").
RulesInForce ==
  stage \in {"rules", "findings", "retention", "screenshots", "closing", "done"} =>
    /\ {id \in DOMAIN table : table[id]} = RuleIds
    /\ \A e \in evaluations : e.rule \in DOMAIN table /\ table[e.rule]
=============================================================================
