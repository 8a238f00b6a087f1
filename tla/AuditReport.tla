----------------------------- MODULE AuditReport -----------------------------
(***************************************************************************)
(* One monitored store's audits, from the crawled pages to the report and  *)
(* the delta against the audit before: the nodes of the audit graph        *)
(* (app/graph.py), the merging of repeated findings                        *)
(* (app/finding_aggregation.py), the tiers (app/impact_tier.py), and what  *)
(* the report says of them (app/report.py).                                *)
(*                                                                         *)
(* What a store has wrong is an input.  The image probes of an audit run   *)
(* at the same time and answer in any order.                               *)
(***************************************************************************)
EXTENDS Integers, Sequences, FiniteSets, SequencesExt

CONSTANTS
  Pages,       \* addresses of the store; the crawl visits them all
  Home,        \* the first page of every crawl
  Catalog,     \* the product and collection pages among them
  Section,     \* page -> the logical page it belongs to (canonical_page_key)
  Length,      \* page -> length of its address
  Crawls,      \* how the pages may come out of a crawl: Pages -> Conditions
  Issues,      \* what the checks of the pages may report, in their order
  ByAddress,   \* the checks among them that only look at an address
  Graded,      \* what the language model may report, in order
  Images,      \* the product images that are probed
  Small,       \* those below the minimum resolution
  Shown,       \* image -> the page it is reported on
  Value,       \* spot -> the link's domain or address, or NoValue
  Strategy,    \* check -> _AGGREGATION_STRATEGY, or "none"
  Tier,        \* check -> impact tier
  Area,        \* check -> policy area, or NoArea
  Fix,         \* check, page, spot, confidence -> the recommended fix, or NoFix
  Areas,       \* the policy areas of the review
  Enough,      \* _MIN_INSTANCES_TO_AGGREGATE
  MaxExamples, \* _MAX_EXAMPLES_IN_EVIDENCE
  NoPage, NoValue, NoArea, NoFix

Conditions == {"fine", "gone", "unverified"}
Severities == {"critical", "high", "medium", "low"}
Confidences == {"confirmed", "potential_risk", "cannot_verify"}
Checks == DOMAIN Strategy
\* Where a finding is: at an element, at whatever contains a value, anywhere.
At(spot) == [kind |-> "is", at |-> spot]
Containing(value) == [kind |-> "contains", at |-> value]
SiteWide == [kind |-> "site", at |-> NoValue]

----------------------------------------------------------------------------
(* Findings *)

Finding(check, page, location, severity, confidence, evidence, fix) ==
  [check |-> check, page |-> page, location |-> location, severity |-> severity,
   confidence |-> confidence, evidence |-> evidence, fix |-> fix]
Instance(check, page, spot, severity, confidence) ==
  Finding(check, page, At(spot), severity, confidence,
          [counts |-> <<1>>, examples |-> <<<<page, spot>>>>],
          Fix[<<check, page, spot, confidence>>])
\* What a check may report.
Instances ==
  {Instance(c, p, spot, s, k) : c \in Checks, p \in Pages \cup {NoPage}, spot \in DOMAIN Value,
                                s \in Severities, k \in Confidences}

ASSUME ReportAssumption ==
  /\ IsFiniteSet(Pages) /\ Home \in Pages /\ Catalog \subseteq Pages
  /\ Length \in [Pages -> Nat]
  /\ Crawls \subseteq [Pages -> Conditions]
  /\ Issues \in Seq(Instances) /\ Graded \in Seq(Instances)
  /\ Shown \in [Images -> Pages]
  /\ Images \cup {NoValue} \subseteq DOMAIN Value
  /\ Enough \in Nat \ {0} /\ MaxExamples \in Nat
  /\ {"broken_internal_link", "crawl_incomplete", "product_image_broken",
      "product_image_low_resolution"} \subseteq Checks
  /\ \A c \in Checks : Strategy[c] \in {"none", "domain", "href", "check"}
  /\ \A c \in Checks : Tier[c] \in {"suspension", "listing", "quality"}
  /\ \A c \in Checks : Area[c] \in Areas \cup {NoArea}
\* _TIER_BY_CHECK_ID: a link that is broken costs a listing.
ASSUME TierAssumption == Tier["broken_internal_link"] = "listing"

----------------------------------------------------------------------------
(* Entries of a list *)

CountBefore(K, i) == Cardinality({j \in K : j < i})
\* The n-th of the positions K, and the entries at these, in their order.
Nth(K, n) == CHOOSE i \in K : CountBefore(K, i) = n - 1
Picked(list, K) == [n \in 1..Cardinality(K) |-> list[Nth(K, n)]]

----------------------------------------------------------------------------
(* The checks *)

Fine(site) == {p \in Pages : site[p] = "fine"}
CrawlFailed(site) == Fine(site) = {}

\* check_required_pages when nothing could be loaded.
Incomplete(site) ==
  IF CrawlFailed(site)
  THEN <<Instance("crawl_incomplete", Home, NoValue, "high", "cannot_verify")>> ELSE <<>>
\* check_broken_internal_links: one finding per page that did not load; those
\* that could not be verified are left to Incomplete when none loaded.
Missed(site) ==
  {p \in Pages : site[p] = "gone" \/ (site[p] = "unverified" /\ ~CrawlFailed(site))}
BrokenLink(site, p) ==
  IF site[p] = "gone" THEN Instance("broken_internal_link", p, NoValue, "medium", "confirmed")
  ELSE Instance("broken_internal_link", p, NoValue, "low", "cannot_verify")
BrokenLinks(site) ==
  LET order == SetToSeq(Missed(site)) IN [n \in DOMAIN order |-> BrokenLink(site, order[n])]
\* The checks of content see the pages that loaded.  When some did, a page
\* may be missing from the store, or found and not readable.
MayReport(site, f) ==
  \/ f.check \in ByAddress
  \/ f.page \in Fine(site)
  \/ /\ ~CrawlFailed(site)
     /\ f.page = NoPage \/ (site[f.page] = "unverified" /\ f.confidence = "cannot_verify")
Seen(site, list, K) == Picked(list, {i \in K : MayReport(site, list[i])})

\* run_deterministic_image_checks, probe_one: what the probe of an image says.
Loaded(i) ==
  IF i \in Small
  THEN <<Instance("product_image_low_resolution", Shown[i], i, "medium", "confirmed")>> ELSE <<>>
ProbeResults(i) ==
  {Loaded(i), <<Instance("product_image_broken", Shown[i], i, "medium", "confirmed")>>,
              <<Instance("product_image_broken", Shown[i], i, "low", "cannot_verify")>>}

----------------------------------------------------------------------------
(* Merging of repeated findings *)

ValueOf(f) == Value[f.location.at]
OfCheck(list, c) == {i \in DOMAIN list : list[i].check = c}
\* Where the findings are that would be merged with the i-th.
Group(list, i) ==
  {j \in OfCheck(list, list[i].check) :
     Strategy[list[i].check] # "check" => ValueOf(list[j]) = ValueOf(list[i])}
Merged(list, i) ==
  LET c == list[i].check IN
  /\ Strategy[c] # "none"
  /\ Cardinality(OfCheck(list, c)) >= Enough
  /\ Strategy[c] # "check" => ValueOf(list[i]) # NoValue
  /\ Cardinality(Group(list, i)) >= Enough

Examples(list) ==
  LET distinct == Picked(list, {i \in DOMAIN list : \A j \in 1..(i - 1) : list[j] # list[i]})
  IN SubSeq(distinct, 1, IF Len(distinct) < MaxExamples THEN Len(distinct) ELSE MaxExamples)
\* Mutant: the place names how many pages the pattern was found on.
PlaceWithCount(list, i) ==
  IF Strategy[list[i].check] = "domain"
  THEN Containing(<<ValueOf(list[i]), Cardinality(Group(list, i))>>) ELSE SiteWide
\* The place of a merged finding: stable from audit to audit.
Place(list, i) ==
  CASE Strategy[list[i].check] = "domain" -> Containing(ValueOf(list[i]))
    [] Strategy[list[i].check] = "href" -> At(ValueOf(list[i]))
    [] OTHER -> SiteWide
\* _aggregate_group: one finding for a group, with the judgement of its first.
AggregateGroup(list, i) ==
  LET first == list[i]
      how == Strategy[first.check]
      group == Picked(list, Group(list, i))
      where == [n \in DOMAIN group |-> <<group[n].page, NoValue>>]
      pairs == [n \in DOMAIN group |-> <<group[n].page, group[n].location.at>>]
      spread == Cardinality(Range(where))
      counts == CASE how = "domain" -> <<spread>>
                  [] how = "href" -> <<Len(group)>>
                  [] OTHER -> <<Len(group), spread>>
  IN Finding(first.check, NoPage, Place(list, i), first.severity, first.confidence,
             [counts |-> counts, examples |-> Examples(IF how = "check" THEN pairs ELSE where)],
             first.fix)
Alone(list) == {i \in DOMAIN list : ~Merged(list, i)}
Firsts(list) == {i \in DOMAIN list : Merged(list, i) /\ \A j \in Group(list, i) : i <= j}
Patterns(list) ==
  LET firsts == Firsts(list)
  IN [n \in 1..Cardinality(firsts) |-> AggregateGroup(list, Nth(firsts, n))]
\* Mutant: of the merged findings only one is kept.
AggregateOne(list) ==
  Picked(list, Alone(list)) \o SubSeq(Patterns(list), 1, IF Firsts(list) = {} THEN 0 ELSE 1)
\* aggregate_repetitive_findings: what stays as it is, then the merged ones.
Aggregate(list) == Picked(list, Alone(list)) \o Patterns(list)

----------------------------------------------------------------------------
(* What the report says *)

Rank == [s \in Severities |->
  CASE s = "critical" -> 0 [] s = "high" -> 1 [] s = "medium" -> 2 [] s = "low" -> 3]
Worse(s, t) == Rank[s] < Rank[t]
\* is_suspension_risk_finding
Suspension(f) ==
  /\ f.confidence # "cannot_verify"
  /\ f.severity = "critical" \/ Tier[f.check] = "suspension"
Due(list) == {i \in DOMAIN list : Suspension(list[i])}
OfTier(list, t) == {i \in DOMAIN list \ Due(list) : Tier[list[i].check] = t}
\* What a view shows of some findings.
Itemized(found, majorOnly) == {f \in found : majorOnly => Suspension(f)}

\* Mutant: a page that is gone is judged by its findings.
PageStatusByFindings(condition, shown) ==
  IF condition = "unverified" THEN "CANNOT VERIFY" ELSE IF shown = {} THEN "PASS" ELSE "RISK"
\* _page_status
PageStatus(condition, shown) ==
  CASE condition = "unverified" -> "CANNOT VERIFY"
    [] condition = "gone" -> "UNREACHABLE"
    [] OTHER -> LET serious == \E f \in shown : f.severity \in {"critical", "high"}
                    unknown == \E f \in shown : f.confidence = "cannot_verify"
                IN CASE serious -> "RISK"
                     [] ~serious /\ unknown -> "CANNOT VERIFY"
                     [] shown = {} -> "PASS"
                     [] OTHER -> "RISK"
\* _page_by_page_block: every page that is not of the catalog.
OnPage(list, p) == {f \in Range(list) : f.page = p}
Overview(site, list, majorOnly) ==
  [p \in Pages \ Catalog |-> PageStatus(site[p], Itemized(OnPage(list, p), majorOnly))]
\* _catalog_section_lines: the logical pages with something to itemize, each
\* under the status of the variant with the shortest address.
OfSection(s) == {p \in Catalog : Section[p] = s}
Representative(s) == CHOOSE p \in OfSection(s) : \A q \in OfSection(s) : Length[p] <= Length[q]
InSection(list, s) == {f \in Range(list) : f.page \in Catalog /\ Section[f.page] = s}
Flagged(list, majorOnly) ==
  {s \in {Section[p] : p \in Catalog} : Itemized(InSection(list, s), majorOnly) # {}}
CatalogStatus(site, list, majorOnly) ==
  [s \in Flagged(list, majorOnly) |->
     PageStatus(site[Representative(s)], Itemized(InSection(list, s), majorOnly))]

\* Mutant: the review is filled in although nothing was crawled.
AreaStatusAlways(site, list, area) ==
  IF {f \in Range(list) : Area[f.check] = area} = {} THEN "Pass" ELSE "At Risk"
\* _build_policy_matrix
AreaStatus(site, list, area) ==
  LET known == {f.confidence : f \in {g \in Range(list) : Area[g.check] = area}}
  IN IF CrawlFailed(site) THEN "Cannot Verify"
     ELSE IF "confirmed" \in known THEN "Fail"
     ELSE IF "potential_risk" \in known THEN "At Risk"
     ELSE IF known # {} THEN "Cannot Verify" ELSE "Pass"

\* The points of compute_risk_score, in halves.
Points(f) ==
  CASE f.confidence = "cannot_verify" -> 0
    [] Suspension(f) ->
         2 * (CASE f.severity = "critical" -> 25 [] f.severity = "high" -> 15
                [] f.severity = "medium" -> 8 [] f.severity = "low" -> 4)
    [] f.confidence # "cannot_verify" /\ ~Suspension(f) /\ Tier[f.check] = "listing" ->
         2 * (CASE f.severity = "critical" -> 10 [] f.severity = "high" -> 5
                [] f.severity = "medium" -> 2 [] f.severity = "low" -> 1)
    [] OTHER -> 1
\* round() takes a half to the even neighbour; the result is kept in 0..100.
Rounded(halves) ==
  LET whole == halves \div 2
      up == halves % 2 = 1 /\ whole % 2 = 1
      n == IF up THEN whole + 1 ELSE whole
  IN IF n < 0 THEN 0 ELSE IF n > 100 THEN 100 ELSE n
Score(list) ==
  LET halves[n \in 0..Len(list)] == IF n = 0 THEN 200 ELSE halves[n - 1] - Points(list[n])
  IN Rounded(halves[Len(list)])
Critical(f) == Suspension(f) /\ f.severity = "critical"
Rating(list) ==
  IF (\E f \in Range(list) : Critical(f)) \/ Score(list) < 50 THEN "HIGH"
  ELSE IF Score(list) < 80 THEN "MEDIUM" ELSE "LOW"
\* compute_risk_score
RiskScore(site, list) ==
  IF CrawlFailed(site) THEN [score |-> -1, rating |-> "N/A"]
  ELSE [score |-> Score(list), rating |-> Rating(list)]

\* The required fixes: of the findings of a check with the same fix, the most
\* severe one.
Ahead(list, i, j) ==
  Worse(list[i].severity, list[j].severity) \/ (list[i].severity = list[j].severity /\ i < j)
\* Mutant: whatever is critical or high needs a fix.
FixesBySeverity(list) ==
  {f \in Range(list) : f.severity \in {"critical", "high"} /\ f.fix # NoFix}
RequiredFixes(list) ==
  LET fixable == {i \in Due(list) : list[i].fix # NoFix}
      same(i, j) == list[i].check = list[j].check /\ list[i].fix = list[j].fix
  IN {list[i] : i \in {j \in fixable : ~\E k \in fixable : same(k, j) /\ Ahead(list, k, j)}}

\* _prose_executive_summary: which of its statements it makes.
Summary(site, list) ==
  IF CrawlFailed(site) THEN "incomplete"
  ELSE IF Due(list) # {} THEN "suspension"
  ELSE IF list # <<>> THEN "lower" ELSE "clean"
\* _final_assessment: what to do next, and how many pages were not read.
Assessment(site, list) ==
  LET due == Due(list) IN
  [next |-> IF CrawlFailed(site) THEN {"crawl"}
            ELSE {list[i].severity : i \in {j \in due : \A k \in due : ~Ahead(list, k, j)}},
   unread |-> Cardinality({p \in Pages : site[p] = "unverified"})]

\* generate_markdown_report
MarkdownReport(site, findings, majorOnly) ==
  LET list == Aggregate(findings)
  IN [banner |-> CrawlFailed(site),
      suspension |-> Picked(list, Due(list)),
      other |-> IF majorOnly THEN <<>>
                ELSE Picked(list, OfTier(list, "suspension")) \o Picked(list, OfTier(list, "listing"))
                       \o Picked(list, OfTier(list, "quality")),
      hidden |-> IF majorOnly THEN Cardinality(DOMAIN list \ Due(list)) ELSE 0,
      overview |-> Overview(site, list, majorOnly),
      catalog |-> CatalogStatus(site, list, majorOnly),
      areas |-> [a \in Areas |-> AreaStatus(site, list, a)],
      risk |-> RiskScore(site, list),
      summary |-> Summary(site, list),
      assessment |-> Assessment(site, list),
      fixes |-> RequiredFixes(list)]

----------------------------------------------------------------------------
(* The delta report *)

\* _finding_key
Key(f) == <<f.check, f.page, IF Strategy[f.check] # "none" THEN f.location ELSE SiteWide>>
\* The findings by key; of several with one key the last is kept.
ByKey(list) ==
  [k \in {Key(f) : f \in Range(list)} |->
     LET same == {i \in DOMAIN list : Key(list[i]) = k} IN list[Nth(same, Cardinality(same))]]
\* generate_delta_report, of two lists of findings that are merged (it merges
\* them first, Deltas); what is unchanged is counted whatever it is.
DeltaReport(before, after, majorOnly) ==
  LET was == ByKey(before)
      is == ByKey(after)
      common == DOMAIN was \cap DOMAIN is
      changed == {k \in common : was[k].evidence # is[k].evidence \/ was[k].severity # is[k].severity}
  IN [new |-> Itemized({is[k] : k \in DOMAIN is \ DOMAIN was}, majorOnly),
      resolved |-> Itemized({was[k] : k \in DOMAIN was \ DOMAIN is}, majorOnly),
      changed |-> {<<was[k], is[k]>> : k \in {c \in changed : majorOnly => Suspension(is[c])}},
      unchanged |-> Cardinality(common \ changed)]

----------------------------------------------------------------------------
(* The audit graph *)

VARIABLES
  node,     \* the node of the graph that runs next, "idle", "done", "failed"
  pages,    \* the site map: how each page came out of the crawl
  probing,  \* product images whose probe has not answered
  raw,      \* the findings of the audit under way, in the order reported
  previous, \* the findings of the last stored audit: <<>> or <<findings>>
  base,     \* what the delta was taken against: <<>> or <<findings>>
  report,   \* both views of the report of this audit
  delta     \* both views of its delta report

auditVars == <<node, pages, probing, raw, previous, base, report, delta>>

NoReport == <<>>

AuditInit ==
  /\ node = "idle"
  /\ pages = [p \in Pages |-> "fine"]
  /\ probing = {}
  /\ raw = <<>>
  /\ previous = <<>>
  /\ base = <<>>
  /\ report = NoReport
  /\ delta = NoReport

\* detect_platform and crawl_and_classify.
CrawlAndClassify ==
  /\ node \in {"idle", "done", "failed"}
  /\ pages' \in Crawls
  /\ raw' = <<>>
  /\ base' = <<>>
  /\ report' = NoReport
  /\ delta' = NoReport
  /\ node' = "deterministic_checks"
  /\ UNCHANGED <<probing, previous>>

\* deterministic_checks, up to the probes of the product images.
DeterministicChecks ==
  /\ node = "deterministic_checks"
  /\ \E K \in SUBSET DOMAIN Issues :
       raw' = Seen(pages, Issues, K) \o Incomplete(pages) \o BrokenLinks(pages)
  /\ probing' = {i \in Images : pages[Shown[i]] = "fine"}
  /\ node' = "image_probes"
  /\ UNCHANGED <<pages, previous, base, report, delta>>

\* A probe answers; its finding is appended as it comes.
ProbeImage(i) ==
  /\ node = "image_probes"
  /\ i \in probing
  /\ probing' = probing \ {i}
  /\ \E found \in ProbeResults(i) : raw' = raw \o found
  /\ UNCHANGED <<node, pages, previous, base, report, delta>>

\* llm_grading: the model's findings; then tiers are given to all of them.
LlmGrading ==
  /\ node = "image_probes"
  /\ probing = {}
  /\ \E K \in SUBSET DOMAIN Graded : raw' = raw \o Seen(pages, Graded, K)
  /\ node' = "compile_report"
  /\ UNCHANGED <<pages, probing, previous, base, report, delta>>

Reports ==
  [full |-> MarkdownReport(pages, raw, FALSE), major |-> MarkdownReport(pages, raw, TRUE)]
Deltas(before) ==
  LET old == Aggregate(before)
      new == Aggregate(raw)
  IN [full |-> DeltaReport(old, new, FALSE), major |-> DeltaReport(old, new, TRUE)]

\* Mutant: the row stores the merged findings.
CompileStoringMerged ==
  /\ node = "compile_report"
  /\ report' = Reports
  /\ delta' = IF previous = <<>> THEN NoReport ELSE Deltas(previous[1])
  /\ base' = previous
  /\ previous' = <<Aggregate(raw)>>
  /\ node' = "done"
  /\ UNCHANGED <<pages, probing, raw>>
\* compile_report and _finalize_full_audit: the reports, the deltas against the
\* last stored findings, and the row that stores this audit's, not merged.
CompileReport ==
  /\ node = "compile_report"
  /\ report' = Reports
  /\ delta' = IF previous = <<>> THEN NoReport ELSE Deltas(previous[1])
  /\ base' = previous
  /\ previous' = <<raw>>
  /\ node' = "done"
  /\ UNCHANGED <<pages, probing, raw>>

\* A node raises: the audit ends without a row.
Raise ==
  /\ node \in {"deterministic_checks", "image_probes", "compile_report"}
  /\ node' = "failed"
  /\ probing' = {}
  /\ raw' = <<>>
  /\ UNCHANGED <<pages, previous, base, report, delta>>

AuditNext ==
  \/ CrawlAndClassify
  \/ DeterministicChecks
  \/ \E i \in Images : ProbeImage(i)
  \/ LlmGrading
  \/ CompileReport
  \/ Raise

AuditSpec == AuditInit /\ [][AuditNext]_auditVars
----------------------------------------------------------------------------
(* Properties *)

Published == report # NoReport
Views == {"full", "major"}

Statuses == {"PASS", "RISK", "CANNOT VERIFY", "UNREACHABLE"}
\* What every view of a report holds.
ViewTypeOK(view) ==
  /\ view.banner \in BOOLEAN /\ view.hidden \in Nat
  /\ view.overview \in [Pages \ Catalog -> Statuses]
  /\ DOMAIN view.catalog \subseteq {Section[p] : p \in Catalog}
  /\ \A s \in DOMAIN view.catalog : view.catalog[s] \in Statuses
  /\ view.areas \in [Areas -> {"Pass", "At Risk", "Fail", "Cannot Verify"}]
  /\ view.risk.rating \in {"N/A", "LOW", "MEDIUM", "HIGH"}
  /\ view.summary \in {"incomplete", "suspension", "lower", "clean"}
  /\ \A f \in view.fixes : f.check \in Checks /\ f.fix # NoFix

\* Every variable holds what its node leaves in it (graph.py,
\* _finalize_full_audit).  An audit has a report exactly when it is done: both
\* views, with the findings they rest on stored as they were reported, which is
\* what the next audit merges anew; and it has both deltas exactly when there
\* was an audit to compare with.
AuditTypeOK ==
  /\ node \in {"idle", "deterministic_checks", "image_probes", "compile_report", "done", "failed"}
  /\ pages \in [Pages -> Conditions]
  /\ probing \subseteq Images
  /\ raw \in Seq(Instances)
  /\ previous \in Seq(Seq(Instances)) /\ Len(previous) <= 1
  /\ base \in Seq(Seq(Instances)) /\ Len(base) <= 1
  /\ node = "done" <=> Published
  /\ Published => /\ previous = <<raw>>
                  /\ DOMAIN report = Views /\ \A v \in Views : ViewTypeOK(report[v])
  /\ delta # NoReport <=> base # <<>>
  /\ delta # NoReport => Published /\ DOMAIN delta = Views

\* Merging loses nothing (finding_aggregation.py): what a check reported is in
\* the full report, itself or in the merged finding of its pattern; every
\* finding of the merged list is itemized once, or counted as hidden.
Stands(m, i) ==
  \/ m = raw[i]
  \/ /\ m.check = raw[i].check /\ m.page = NoPage /\ m.location = Place(raw, i)
     /\ Merged(raw, i)
NothingDropped ==
  Published => LET total == Len(Aggregate(raw)) IN
    /\ \A i \in DOMAIN raw :
         \E m \in Range(report["full"].suspension \o report["full"].other) : Stands(m, i)
    /\ \A v \in Views :
         Len(report[v].suspension) + Len(report[v].other) + report[v].hidden = total

\* The delta tells no news that are none (finding_aggregation.py, _finding_key):
\* the same findings, reported in whatever order, are neither new nor resolved,
\* and a pattern merged in both audits stays one finding however its pages
\* changed, in the full delta and in the major one.
Times(list, f) == Cardinality({i \in DOMAIN list : list[i] = f})
Reordered(a, b) == \A f \in Range(a) \cup Range(b) : Times(a, f) = Times(b, f)
SamePattern(f, g) == f.check = g.check /\ (Strategy[f.check] # "check" => ValueOf(f) = ValueOf(g))
News(v) == delta[v].new \cup delta[v].resolved
NoFalseNews ==
  (Published /\ delta # NoReport) =>
    /\ Reordered(base[1], raw) => \A v \in Views : News(v) = {}
    /\ \A x \in {y \in News("full") \cup News("major") : y.page = NoPage} :
         ~\E i \in DOMAIN base[1], j \in DOMAIN raw :
            /\ base[1][i].check = x.check /\ SamePattern(base[1][i], raw[j])
            /\ Merged(base[1], i) /\ Merged(raw, j)
            /\ x.location \in {Place(base[1], i), Place(raw, j)}

\* What the report wants fixed it also shows as an issue (generate_markdown_report):
\* a required fix is one of the suspension findings, in both views, and the
\* page or section it is about is not passed.
FixesAreIssues ==
  Published =>
    \A v \in Views : \A f \in report[v].fixes :
      /\ f \in Range(report["full"].suspension) \cap Range(report["major"].suspension)
      /\ f.page \in Pages \ Catalog => report[v].overview[f.page] # "PASS"
      /\ f.page \in Catalog =>
           Section[f.page] \in DOMAIN report[v].catalog /\ report[v].catalog[Section[f.page]] # "PASS"

\* A page is passed only if it was loaded (_page_status): in neither view does
\* PASS stand for a page that could not be read, or for one with a finding of
\* the view.
PassMeansChecked ==
  Published =>
    \A v \in Views : \A p \in Pages \ Catalog :
      report[v].overview[p] = "PASS" =>
        /\ pages[p] = "fine"
        /\ \A f \in Range(report[v].suspension \o report[v].other) : f.page # p

\* An audit that could load nothing gives no verdict (compute_risk_score,
\* _build_policy_matrix): no score, no rating, no area passed, no page passed,
\* and nothing to fix but what an address alone shows.  Every other audit rates
\* a critical suspension risk HIGH, names it as the next thing to do, and is
\* called clean only with all pages passed.
NoVerdictWithoutCrawl ==
  Published =>
    \A v \in Views :
      /\ report[v].banner =>
           /\ report[v].risk.rating = "N/A"
           /\ \A a \in Areas : report[v].areas[a] = "Cannot Verify"
           /\ \A p \in DOMAIN report[v].overview : report[v].overview[p] # "PASS"
           /\ \A f \in report[v].fixes : f.check \in ByAddress
      /\ \A f \in Range(report[v].suspension) :
           f.severity = "critical" /\ ~report[v].banner =>
             report[v].risk.rating = "HIGH" /\ report[v].assessment.next = {"critical"}
      /\ report[v].summary = "clean" =>
           /\ ~report[v].banner /\ \A p \in DOMAIN report[v].overview : report[v].overview[p] = "PASS"
           /\ report[v].risk.score = 100 /\ report[v].assessment.unread = 0
=============================================================================
