----------------------- MODULE FirstAuditRules_proofs -----------------------
(***************************************************************************)
(* What holds of FirstAuditRules for any store, any texts and answers and  *)
(* any rules table that an earlier version left.                           *)
(***************************************************************************)
EXTENDS FirstAuditRules, FiniteSetTheorems, TLAPS

-----------------------------------------------------------------------------
(* Numbers and orders                                                      *)

\* A set of natural numbers that is not empty has a least element.  The
\* intervals 0..n of its elements are finite, and the least of them under
\* inclusion is that of the least element.
LEMMA LeastNatural ==
  ASSUME NEW T \in SUBSET Nat, T # {}
  PROVE  \E x \in T : \A y \in T : x <= y
  <1> DEFINE I == {0..n : n \in T}
  <1>1. \A n \in T : 0..n \in FiniteSubsetsOf(Nat)
    <2> TAKE n \in T
    <2>1. IsFiniteSet(0..n)
      BY FS_Interval
    <2> QED
      BY <2>1 DEF FiniteSubsetsOf
  <1>2. I \subseteq FiniteSubsetsOf(Nat) /\ I # {}
    BY <1>1
  <1>3. \E s \in I : \A t \in I : <<t, s>> \notin StrictSubsetOrdering(Nat)
    <2>1. IsWellFoundedOn(StrictSubsetOrdering(Nat), FiniteSubsetsOf(Nat))
      BY FS_StrictSubsetOrderingWellFounded
    <2> HIDE DEF I
    <2> QED
      BY <1>2, <2>1, WFMin
  <1>4. PICK x \in T : \A t \in I : <<t, 0..x>> \notin StrictSubsetOrdering(Nat)
    BY <1>3
  <1>5. ASSUME NEW y \in T, y < x
        PROVE  FALSE
    <2>1. 0..y \subseteq 0..x /\ 0..y # 0..x
      <3>1. x \in 0..x /\ x \notin 0..y
        BY <1>5
      <3> QED
        BY <1>5, <3>1
    <2>2. <<0..y, 0..x>> \in StrictSubsetOrdering(Nat)
      BY <2>1 DEF StrictSubsetOrdering
    <2> QED
      BY <1>4, <2>2
  <1> QED
    BY <1>5

\* The first page of a set is one of the set.
LEMMA FirstIn ==
  ASSUME NEW S \in SUBSET Pages, S # {}
  PROVE  First(S) \in S
  <1> DEFINE T == {n \in 1..Len(Order) : Order[n] \in S}
  <1>1. Order \in Seq(Pages)
    BY RulesAssumption
  <1>2. T \in SUBSET Nat /\ T # {}
    BY <1>1 DEF Pages, ToSet
  <1>3. PICK n \in T : \A m \in T : n <= m
    <2> HIDE DEF T
    <2> QED
      BY <1>2, LeastNatural
  <1>4. \E i \in 1..Len(Order) : Order[i] \in S /\ \A m \in 1..(i - 1) : Order[m] \notin S
    BY <1>1, <1>3
  <1> QED
    BY <1>4 DEF First

\* The lowest confidence of some rows is that of one of them.
LEMMA LowestIs ==
  ASSUME NEW rows, rows # {}, \A r \in rows : r.confidence \in 0..100
  PROVE  /\ Lowest(rows) \in 0..100
         /\ \A r \in rows : Lowest(rows) <= r.confidence
  <1> DEFINE C == {r.confidence : r \in rows}
  <1>1. C \in SUBSET Nat /\ C # {} /\ C \subseteq 0..100
    OBVIOUS
  <1>2. PICK c \in C : \A d \in C : c <= d
    <2> HIDE DEF C
    <2> QED
      BY <1>1, LeastNatural
  <1>3. \E d \in C : \A r \in rows : d <= r.confidence
    BY <1>2
  <1> QED
    BY <1>1, <1>3 DEF Lowest

-----------------------------------------------------------------------------
(* The rules                                                               *)

LEMMA RuleFields ==
  ASSUME NEW id, NEW type, NEW severity, NEW impact, NEW min, NEW about
  PROVE  LET r == Rule(id, type, severity, impact, min, about)
         IN /\ r.id = id /\ r.type = type /\ r.severity = severity
            /\ r.min = min /\ r.about = about
  BY DEF Rule

LEMMA RuleCount == Len(Rules) = 6
  BY DEF Rules

LEMMA RuleNames ==
  /\ Rules[1].id = "price_mismatch_jsonld_vs_platform"
  /\ Rules[2].id = "shipping_region_contradiction"
  /\ Rules[3].id = "return_window_conflict"
  /\ Rules[4].id = "missing_contact_info"
  /\ Rules[5].id = "missing_returns_page"
  /\ Rules[6].id = "business_identity_conflict"
  BY RuleFields DEF Rules

LEMMA RuleTypes ==
  /\ Rules[1].type = "numeric_mismatch"
  /\ Rules[2].type = "cross_page_contradiction"
  /\ Rules[3].type = "cross_page_contradiction"
  /\ Rules[4].type = "all_missing"
  /\ Rules[5].type = "missing_resource"
  /\ Rules[6].type = "existing_check"
  BY RuleFields DEF Rules

\* Ids are unique, so that a row leads back to its rule.
LEMMA RuleOfId == \A n \in 1..Len(Rules) : RuleOf(Rules[n].id) = Rules[n]
  BY RuleCount, RuleNames DEF RuleOf

LEMMA RuleSeverities == \A n \in 1..Len(Rules) : Rules[n].severity \in Severities
  <1>1. /\ Rules[1].severity = "critical" /\ Rules[2].severity = "low"
        /\ Rules[3].severity = "high" /\ Rules[4].severity = "critical"
        /\ Rules[5].severity = "critical" /\ Rules[6].severity = "critical"
    BY RuleFields DEF Rules
  <1> QED
    BY <1>1, RuleCount DEF Severities

LEMMA RuleSubjects ==
  /\ Rules[2].min = 75 /\ Rules[3].min = 75
  /\ Rules[3].about.fact = "window" /\ Rules[3].about.sources = WindowTypes
  /\ Rules[4].about.fields = {"email", "phone"}
  /\ Rules[5].about.kind = "returns_policy"
  BY RuleFields DEF Rules

-----------------------------------------------------------------------------
(* Facts                                                                   *)

\* A fact was stated by a page that was read, of a type its extractor looks at.
Supported(r) ==
  /\ r.page \in Read(store)
  /\ r.confidence \in 0..100
  /\ r.fact = "window" => PageType[r.page] \in WindowTypes
  /\ r.fact \in {"email", "phone"} => r.page \in Stating(store, IdentityTypes, r.fact)

LEMMA RowsSupported ==
  ASSUME NEW types, NEW fact, NEW method, NEW r \in Rows(store, types, fact, method),
         fact = "window" => types = WindowTypes,
         fact \in {"email", "phone"} => types = IdentityTypes,
         Confidence(method) \in 0..100
  PROVE  Supported(r)
  <1>1. PICK p \in Stating(store, types, fact) : \E v \in Values(store, p, fact) :
               r = Row(p, fact, v, method, Confidence(method))
    BY DEF Rows
  <1>2. r.page = p /\ r.fact = fact /\ r.confidence = Confidence(method)
    BY <1>1 DEF Row
  <1>3. p \in Read(store) /\ PageType[p] \in types
    BY DEF Stating
  <1> QED
    BY <1>2, <1>3 DEF Supported

LEMMA FactsSupported ==
  ASSUME NEW windows \in WindowFacts(store), NEW r \in AllFacts(store, windows)
  PROVE  Supported(r)
  <1>1. CASE r \in IdentityFacts(store)
    <2>1. PICK fact \in {"email", "phone", "address"} :
                 r \in Rows(store, IdentityTypes, fact, "business_identity_regex")
      BY <1>1 DEF IdentityFacts
    <2>2. Confidence("business_identity_regex") \in 0..100
      BY DEF Confidence
    <2> QED
      BY <2>1, <2>2, RowsSupported
  <1>2. CASE r \in CommerceFacts(store)
    <2>1. Confidence("shipping_region_regex") \in 0..100
      BY DEF Confidence
    <2> QED
      BY <1>2, <2>1, RowsSupported DEF CommerceFacts
  <1>3. CASE r \in ProductFacts(store)
    <2>1. Confidence("jsonld") \in 0..100
      BY DEF Confidence
    <2> QED
      BY <1>3, <2>1, RowsSupported DEF ProductFacts
  <1>4. CASE r \in windows /\ windows = Rows(store, WindowTypes, "window", "return_window_regex")
    <2>1. Confidence("return_window_regex") \in 0..100
      BY DEF Confidence
    <2> QED
      BY <1>4, <2>1, RowsSupported
  <1>5. ASSUME NEW answer \in [WindowPages(store) -> Answers], r \in windows,
               windows = UNION {Reconciled(store, p, answer[p]) : p \in WindowPages(store)}
        PROVE  Supported(r)
    <2>1. PICK p \in WindowPages(store) : r \in Reconciled(store, p, answer[p])
      BY <1>5
    <2>2. p \in Read(store) /\ PageType[p] \in WindowTypes /\ answer[p] \in Answers
      BY DEF WindowPages
    <2>3. Confidence("regex_llm_agree") \in 0..100
      BY DEF Confidence
    <2>4. answer[p] # NoAnswer /\ answer[p].confidence \in 0..100
      BY <2>1, <2>2, RulesAssumption DEF Reconciled
    <2>5. r.page = p /\ r.fact = "window" /\ r.confidence \in 0..100
      BY <2>1, <2>3, <2>4 DEF Reconciled, Row
    <2> QED
      BY <2>2, <2>5 DEF Supported
  <1> QED
    BY <1>1, <1>2, <1>3, <1>4, <1>5 DEF AllFacts, WindowFacts

-----------------------------------------------------------------------------
(* Evaluations                                                             *)

\* The pages whose bodies an actionable evaluation keeps.
Basis(e) == IF e.page # NoPage THEN {e.page} ELSE CitedIn(e)

Typed(e) ==
  /\ e.rule \in RuleIds /\ e.severity \in Severities
  /\ e.result \in Results /\ e.confidence \in 0..100

Traced(e) ==
  /\ e.shown \in Read(store) => e.shown \in Basis(e)
  /\ e.result = "fail" /\ e.shown # NoPage => e.shown \in Read(store)
  /\ RuleOf(e.rule).type = "cross_page_contradiction" =>
       Basis(e) = {r.page : r \in Observed(RuleOf(e.rule))}
  /\ e.check = "business_identity_email_consistency" =>
       /\ e.result = "fail"
       /\ {p \in Stating(store, IdentityTypes, "email") : p \in Scanned[p]} \subseteq Basis(e)
  /\ e.check = "business_identity_phone_consistency" =>
       /\ e.result = "fail"
       /\ {p \in Stating(store, IdentityTypes, "phone") : p \in Scanned[p]} \subseteq Basis(e)

Honest(e) ==
  e.result = "fail" =>
    /\ ~CrawlFailed(store)
    /\ RuleOf(e.rule).type = "missing_resource" =>
         /\ \A p \in OfType(RuleOf(e.rule).about.kind) : store.site[p] = "gone"
         /\ ~ReturnsCredit(store)
    /\ RuleOf(e.rule).type = "cross_page_contradiction" =>
         \E a, b \in Observed(RuleOf(e.rule)) :
           /\ a.value # b.value /\ {a.page, b.page} \subseteq Read(store)
           /\ a.confidence >= RuleOf(e.rule).min /\ b.confidence >= RuleOf(e.rule).min

Agreed(e) ==
  /\ e.rule = "missing_returns_page" =>
       LET other == RequiredPage(store, "returns_policy") IN
       CASE e.result = "fail" -> other \in {"missing", "language"}
         [] e.result = "needs_review" -> other \in {"not_crawled", "lookalike", "unreadable"}
         [] e.result = "pass" -> \/ other = "present"
                                 \/ other \in {"missing", "language"} /\ ReturnsCredit(store)
  /\ e.check = "business_identity_present" => \A r \in facts : r.fact \notin {"email", "phone"}

Right(e) == Typed(e) /\ Traced(e) /\ Honest(e) /\ Agreed(e)

LEMMA Dispatch ==
  ASSUME NEW first
  PROVE  /\ Evaluated(Rules[1], first) = MethodComparison(Rules[1])
         /\ Evaluated(Rules[2], first) = Contradiction(Rules[2], first)
         /\ Evaluated(Rules[3], first) = Contradiction(Rules[3], first)
         /\ Evaluated(Rules[4], first) = AllMissing(Rules[4])
         /\ Evaluated(Rules[5], first) = MissingResource(Rules[5])
         /\ Evaluated(Rules[6], first) = ExistingCheck(Rules[6])
  BY RuleTypes DEF Evaluated

LEMMA EvaluationFields ==
  ASSUME NEW rule, NEW check, NEW severity, NEW result, NEW confidence, NEW page, NEW shown, NEW cited
  PROVE  LET e == Evaluation(rule, check, severity, result, confidence, page, shown, cited)
         IN /\ e.rule = rule.id /\ e.check = check /\ e.severity = severity
            /\ e.result = result /\ e.confidence = confidence
            /\ e.page = page /\ e.shown = shown /\ e.cited = cited
  BY DEF Evaluation

LEMMA SiteWideFields ==
  ASSUME NEW rule, NEW result, NEW confidence, NEW shown, NEW cited
  PROVE  LET e == SiteWide(rule, result, confidence, shown, cited)
         IN /\ e.rule = rule.id /\ e.check = rule.id /\ e.severity = rule.severity
            /\ e.result = result /\ e.confidence = confidence
            /\ e.page = NoPage /\ e.shown = shown /\ e.cited = cited
  BY DEF SiteWide, Evaluation

\* No id of a rule is the name of one of the identity checks.
LEMMA IdIsNoCheck ==
  \A n \in 1..Len(Rules) :
    /\ Rules[n].id \in RuleIds
    /\ Rules[n].id # "business_identity_present"
    /\ Rules[n].id # "business_identity_email_consistency"
    /\ Rules[n].id # "business_identity_phone_consistency"
  BY RuleCount, RuleNames DEF RuleIds

LEMMA JudgedResult ==
  ASSUME NEW equal \in BOOLEAN, NEW confidence, NEW rule
  PROVE  /\ Judged(equal, confidence, rule) \in Results
         /\ Judged(equal, confidence, rule) = "pass" <=> equal
         /\ Judged(equal, confidence, rule) = "fail" => confidence >= rule.min
  BY DEF Judged, Results

\* Two pages that state different things.
LEMMA ContradictionRight ==
  ASSUME NEW n \in {2, 3}, \A r \in facts : Supported(r),
         NEW first \in FirstSeen(Rules[n]), NEW e \in Contradiction(Rules[n], first)
  PROVE  Right(e)
  <1> DEFINE rule == Rules[n]
             rows == Observed(rule)
  <1>1. /\ n \in 1..Len(Rules) /\ rule.type = "cross_page_contradiction"
        /\ RuleOf(rule.id) = rule /\ rule.severity \in Severities
        /\ rule.id # "missing_returns_page" /\ rule.min = 75
    BY RuleCount, RuleTypes, RuleOfId, RuleSeverities, RuleNames, RuleSubjects
  <1>2. /\ ~(Cardinality(rows) < 2)
        /\ e = SiteWide(rule, Judged(Equal(rows), Lowest(rows), rule), Lowest(rows), first,
                        {r.page : r \in rows})
    BY DEF Contradiction
  <1>3. rows # {}
    BY <1>2, FS_EmptySet
  <1>4. \A r \in rows : r \in facts /\ r.page \in Read(store) /\ r.confidence \in 0..100
    BY DEF Observed, Supported
  <1>5. Lowest(rows) \in 0..100 /\ \A r \in rows : Lowest(rows) <= r.confidence
    <2> HIDE DEF rows
    <2> QED
      BY <1>3, <1>4, LowestIs
  <1>6. first \in {r.page : r \in rows}
    BY <1>1, <1>3 DEF FirstSeen
  <1> HIDE DEF rows
  <1>7. Equal(rows) \in BOOLEAN
    BY DEF Equal
  <1>8. /\ e.rule = rule.id /\ e.check = rule.id /\ e.severity = rule.severity
        /\ e.result = Judged(Equal(rows), Lowest(rows), rule) /\ e.confidence = Lowest(rows)
        /\ e.page = NoPage /\ e.shown = first /\ e.cited = {r.page : r \in rows}
    BY <1>2, SiteWideFields
  <1> HIDE DEF rule
  <1>9. Typed(e)
    <2>1. rule.id \in RuleIds
      BY <1>1, IdIsNoCheck DEF rule
    <2> QED
      BY <1>1, <1>5, <1>7, <1>8, <2>1, JudgedResult DEF Typed
  <1>10. Basis(e) = {r.page : r \in rows}
    BY <1>1, <1>8 DEF Basis, CitedIn
  <1>11. /\ rule.id # "business_identity_email_consistency"
         /\ rule.id # "business_identity_phone_consistency"
         /\ rule.id # "business_identity_present"
    BY <1>1, IdIsNoCheck DEF rule
  <1>12. Traced(e)
    BY <1>1, <1>4, <1>6, <1>8, <1>10, <1>11 DEF Traced, rows, rule
  <1>13. Honest(e)
    <2> SUFFICES ASSUME e.result = "fail"
                 PROVE  /\ ~CrawlFailed(store)
                        /\ \E a, b \in rows :
                             /\ a.value # b.value /\ {a.page, b.page} \subseteq Read(store)
                             /\ a.confidence >= rule.min /\ b.confidence >= rule.min
      BY <1>1, <1>8 DEF Honest, rows, rule
    <2>1. ~Equal(rows) /\ Lowest(rows) >= 75
      BY <1>1, <1>7, <1>8, JudgedResult
    <2>2. PICK a, b \in rows : a.value # b.value
      BY <2>1 DEF Equal
    <2>3. /\ Lowest(rows) <= a.confidence /\ a.confidence \in Int
          /\ Lowest(rows) <= b.confidence /\ b.confidence \in Int
          /\ Lowest(rows) \in Int
      BY <1>4, <1>5
    <2>4. a.confidence >= rule.min /\ b.confidence >= rule.min
      BY <1>1, <2>1, <2>3
    <2> QED
      BY <1>4, <2>2, <2>4 DEF CrawlFailed
  <1>14. Agreed(e)
    BY <1>1, <1>8, <1>11 DEF Agreed
  <1> QED
    BY <1>9, <1>12, <1>13, <1>14 DEF Right

\* A page that was read is a page.
LEMMA ReadIsPage == \A p \in Read(store) : p \in Pages /\ p # NoPage
  BY RulesAssumption DEF Read

\* One page whose sources give different prices.
LEMMA MethodRight ==
  ASSUME \A r \in facts : Supported(r), NEW e \in MethodComparison(Rules[1])
  PROVE  Right(e)
  <1> DEFINE rule == Rules[1]
  <1>1. /\ rule.type = "numeric_mismatch" /\ RuleOf(rule.id) = rule
        /\ rule.severity \in Severities /\ rule.id \in RuleIds
        /\ rule.id \notin {"missing_returns_page", "business_identity_email_consistency",
                          "business_identity_phone_consistency", "business_identity_present"}
    BY RuleCount, RuleTypes, RuleOfId, RuleSeverities, RuleNames, IdIsNoCheck
  <1> HIDE DEF rule
  <1>2. PICK ab \in facts \X facts :
          LET lowest == Lowest({ab[1], ab[2]})
              apart == ab[1].value - ab[2].value
              equal == -rule.about.tolerance <= apart /\ apart <= rule.about.tolerance
          IN e = Evaluation(rule, rule.id, rule.severity, Judged(equal, lowest, rule), lowest,
                            ab[1].page, ab[1].page, {ab[1].page})
    BY DEF MethodComparison, rule
  <1>3. PICK equal \in BOOLEAN :
          LET lowest == Lowest({ab[1], ab[2]})
          IN e = Evaluation(rule, rule.id, rule.severity, Judged(equal, lowest, rule), lowest,
                            ab[1].page, ab[1].page, {ab[1].page})
    BY <1>2
  <1>4. /\ ab[1] \in facts /\ ab[2] \in facts
        /\ ab[1].page \in Read(store)
        /\ ab[1].confidence \in 0..100 /\ ab[2].confidence \in 0..100
    BY DEF Supported
  <1>5. Lowest({ab[1], ab[2]}) \in 0..100
    <2> DEFINE rows == {ab[1], ab[2]}
    <2>1. rows # {} /\ \A r \in rows : r.confidence \in 0..100
      BY <1>4
    <2> HIDE DEF rows
    <2>2. Lowest(rows) \in 0..100
      BY <2>1, LowestIs
    <2> QED
      BY <2>2 DEF rows
  <1>6. /\ e.rule = rule.id /\ e.check = rule.id /\ e.severity = rule.severity
        /\ e.result \in Results /\ e.confidence \in 0..100
        /\ e.page = ab[1].page /\ e.shown = ab[1].page
    BY <1>3, <1>5, EvaluationFields, JudgedResult
  <1>7. Typed(e)
    BY <1>1, <1>6 DEF Typed
  <1>8. Traced(e)
    BY <1>1, <1>4, <1>6, ReadIsPage DEF Traced, Basis
  <1>9. Honest(e)
    BY <1>1, <1>4, <1>6 DEF Honest, CrawlFailed
  <1>10. Agreed(e)
    BY <1>1, <1>6 DEF Agreed
  <1> QED
    BY <1>7, <1>8, <1>9, <1>10 DEF Right

\* No way to contact the store.
LEMMA AllMissingRight ==
  ASSUME NEW e \in AllMissing(Rules[4])
  PROVE  Right(e)
  <1> DEFINE rule == Rules[4]
  <1>1. /\ rule.type = "all_missing" /\ RuleOf(rule.id) = rule
        /\ rule.severity \in Severities /\ rule.id \in RuleIds
        /\ rule.id \notin {"missing_returns_page", "business_identity_email_consistency",
                          "business_identity_phone_consistency", "business_identity_present"}
    BY RuleCount, RuleTypes, RuleOfId, RuleSeverities, RuleNames, IdIsNoCheck
  <1> HIDE DEF rule
  <1>2. PICK result \in Results, confidence \in 0..100 :
          /\ e = SiteWide(rule, result, confidence, NoPage, {})
          /\ result = "fail" => ~CrawlFailed(store)
    BY DEF AllMissing, Results, rule
  <1>3. /\ e.rule = rule.id /\ e.check = rule.id /\ e.severity = rule.severity
        /\ e.result = result /\ e.confidence = confidence
        /\ e.page = NoPage /\ e.shown = NoPage
    BY <1>2, SiteWideFields
  <1>4. Typed(e)
    BY <1>1, <1>3 DEF Typed
  <1>5. Traced(e)
    BY <1>1, <1>3, ReadIsPage DEF Traced
  <1>6. Honest(e)
    BY <1>1, <1>2, <1>3 DEF Honest
  <1>7. Agreed(e)
    BY <1>1, <1>3 DEF Agreed
  <1> QED
    BY <1>4, <1>5, <1>6, <1>7 DEF Right

\* No returns page.
LEMMA MissingRight ==
  ASSUME store \in Stores, NEW e \in MissingResource(Rules[5])
  PROVE  Right(e)
  <1> DEFINE rule == Rules[5]
             type == "returns_policy"
             blocked == Blocked(store, type)
  <1>1. /\ rule.type = "missing_resource" /\ RuleOf(rule.id) = rule
        /\ rule.severity \in Severities /\ rule.id \in RuleIds /\ rule.about.kind = type
        /\ rule.id \notin {"business_identity_email_consistency",
                          "business_identity_phone_consistency", "business_identity_present"}
    BY RuleCount, RuleTypes, RuleOfId, RuleSeverities, RuleSubjects, RuleNames, IdIsNoCheck
  <1> HIDE DEF rule
  <1>2. \A p \in Pages : store.site[p] \in {"read", "blocked", "gone"}
    BY RulesAssumption DEF Conditions
  <1>3. /\ blocked \subseteq Pages /\ blocked \cap Read(store) = {}
    BY DEF Blocked, OfType, Read
  <1>4. blocked # {} => First(blocked) \in blocked
    BY <1>3, FirstIn
  <1>5. PICK result, confidence, shown :
          /\ result \in Results /\ confidence \in 0..100
          /\ e = SiteWide(rule, result, confidence, shown, {})
          /\ shown # NoPage => shown \in blocked /\ result # "fail"
          /\ result = "fail" =>
               /\ ~CrawlFailed(store)
               /\ Genuine(store, type) = {} /\ Lookalikes(store, type) = {}
               /\ blocked = {} /\ ~ReturnsCredit(store)
          /\ result = "needs_review" =>
               \/ CrawlFailed(store)
               \/ Genuine(store, type) = {} /\ Lookalikes(store, type) # {}
               \/ Genuine(store, type) = {} /\ Lookalikes(store, type) = {} /\ blocked # {}
          /\ result = "pass" =>
               /\ ~CrawlFailed(store)
               /\ \/ Genuine(store, type) # {}
                  \/ /\ Lookalikes(store, type) = {} /\ blocked = {}
                     /\ Genuine(store, type) = {} /\ ReturnsCredit(store)
    BY <1>1, <1>4 DEF MissingResource, Results, rule
  <1>6. /\ e.rule = rule.id /\ e.check = rule.id /\ e.severity = rule.severity
        /\ e.result = result /\ e.confidence = confidence
        /\ e.page = NoPage /\ e.shown = shown
    BY <1>5, SiteWideFields
  <1>7. Typed(e)
    BY <1>1, <1>5, <1>6 DEF Typed
  <1>8. Traced(e)
    BY <1>1, <1>3, <1>5, <1>6, ReadIsPage DEF Traced
  <1>9. Honest(e)
    <2> SUFFICES ASSUME result = "fail"
                 PROVE  /\ \A p \in OfType(type) : store.site[p] = "gone"
                        /\ ~CrawlFailed(store) /\ ~ReturnsCredit(store)
      BY <1>1, <1>6 DEF Honest
    <2>1. OfType(type) \cap Read(store) = {}
      BY <1>5 DEF Genuine, Lookalikes
    <2> QED
      BY <1>2, <1>5, <2>1 DEF OfType, Blocked, Read
  <1>10. Agreed(e)
    <2>1. result = "fail" => RequiredPage(store, type) \in {"missing", "language"}
      BY <1>5 DEF RequiredPage
    <2>2. result = "needs_review" =>
            RequiredPage(store, type) \in {"not_crawled", "lookalike", "unreadable"}
      BY <1>5 DEF RequiredPage
    <2>3. result = "pass" =>
            \/ RequiredPage(store, type) = "present"
            \/ RequiredPage(store, type) \in {"missing", "language"} /\ ReturnsCredit(store)
      BY <1>5 DEF RequiredPage
    <2> QED
      BY <1>1, <1>5, <1>6, <2>1, <2>2, <2>3 DEF Agreed, Results
  <1> QED
    BY <1>7, <1>8, <1>9, <1>10 DEF Right

LEMMA DelegatedFields ==
  ASSUME NEW rule, NEW check, NEW severity, NEW result, NEW page, NEW cited
  PROVE  LET e == Delegated(rule, check, severity, result, page, cited)
         IN /\ e.rule = rule.id /\ e.check = check /\ e.severity = severity
            /\ e.result = result /\ e.confidence \in 0..100
            /\ e.page = page /\ e.shown = page /\ e.cited = cited
            /\ [e EXCEPT !.confidence = 100] =
                 Evaluation(rule, check, severity, result, 100, page, page, cited)
  BY DEF Delegated, Evaluation

\* Contact details that contradict each other, or are missing.
LEMMA IdentityRight ==
  ASSUME \A r \in facts : Supported(r), NEW e \in ExistingCheck(Rules[6])
  PROVE  Right(e)
  <1> DEFINE rule == Rules[6]
             fields == {"email", "phone", "address"}
             from(phone) == First({p \in Stating(store, IdentityTypes, "phone") :
                                     phone \in Values(store, p, "phone")})
             R(check, severity, result, page, cited) ==
               /\ e.rule = rule.id /\ e.check = check /\ e.severity = severity
               /\ e.result = result /\ e.confidence \in 0..100
               /\ e.page = page /\ e.shown = page /\ e.cited = cited
  <1>1. /\ rule.type = "existing_check" /\ RuleOf(rule.id) = rule
        /\ rule.id \in RuleIds /\ rule.id # "missing_returns_page"
    BY RuleCount, RuleTypes, RuleOfId, RuleNames, IdIsNoCheck
  <1> HIDE DEF rule
  <1>2. \/ /\ CrawlFailed(store)
           /\ e = Delegated(rule, "business_identity_crawl_incomplete", "high", "needs_review", Home, {Home})
        \/ /\ ~CrawlFailed(store)
           /\ \A fact \in fields : Stated(store, IdentityTypes, fact) = {}
           /\ e = [Delegated(rule, "business_identity_present", "critical", "fail", NoPage, {})
                    EXCEPT !.confidence = 100]
        \/ /\ ~CrawlFailed(store)
           /\ e = Delegated(rule, "business_identity_email_consistency", "medium", "fail", NoPage,
                            Stating(store, IdentityTypes, "email"))
        \/ /\ ~CrawlFailed(store)
           /\ e = Delegated(rule, "business_identity_phone_consistency", "medium", "fail", NoPage,
                            Stating(store, IdentityTypes, "phone"))
        \/ /\ ~CrawlFailed(store)
           /\ \E n \in Foreign(store) :
                e = Delegated(rule, "business_identity_phone_country_mismatch", "high", "fail",
                              from(n), {from(n)})
    BY DEF ExistingCheck, rule
  <1>3. \A n \in Foreign(store) : from(n) \in Read(store)
    <2> TAKE n \in Foreign(store)
    <2> DEFINE S == {p \in Stating(store, IdentityTypes, "phone") : n \in Values(store, p, "phone")}
    <2>1. S # {}
      BY DEF Foreign, Stated
    <2>2. S \in SUBSET Pages /\ S \subseteq Read(store)
      BY DEF Stating, Read
    <2>3. First(S) \in S
      <3> HIDE DEF S
      <3> QED
        BY <2>1, <2>2, FirstIn
    <2> QED
      BY <2>2, <2>3
  <1>4. \/ CrawlFailed(store)
           /\ R("business_identity_crawl_incomplete", "high", "needs_review", Home, {Home})
        \/ /\ ~CrawlFailed(store)
           /\ \A fact \in fields : Stated(store, IdentityTypes, fact) = {}
           /\ R("business_identity_present", "critical", "fail", NoPage, {})
        \/ /\ ~CrawlFailed(store)
           /\ R("business_identity_email_consistency", "medium", "fail", NoPage,
                Stating(store, IdentityTypes, "email"))
        \/ /\ ~CrawlFailed(store)
           /\ R("business_identity_phone_consistency", "medium", "fail", NoPage,
                Stating(store, IdentityTypes, "phone"))
        \/ /\ ~CrawlFailed(store)
           /\ \E p \in Read(store) :
                R("business_identity_phone_country_mismatch", "high", "fail", p, {p})
    <2>1. CASE /\ CrawlFailed(store)
               /\ e = Delegated(rule, "business_identity_crawl_incomplete", "high", "needs_review",
                                Home, {Home})
      BY <2>1, DelegatedFields
    <2>2. CASE /\ ~CrawlFailed(store)
               /\ \A fact \in fields : Stated(store, IdentityTypes, fact) = {}
               /\ e = [Delegated(rule, "business_identity_present", "critical", "fail", NoPage, {})
                        EXCEPT !.confidence = 100]
      <3>1. e = Evaluation(rule, "business_identity_present", "critical", "fail", 100, NoPage, NoPage, {})
        BY <2>2, DelegatedFields
      <3>2. R("business_identity_present", "critical", "fail", NoPage, {})
        BY <3>1 DEF Evaluation
      <3> QED
        BY <2>2, <3>2
    <2>3. CASE /\ ~CrawlFailed(store)
               /\ e = Delegated(rule, "business_identity_email_consistency", "medium", "fail", NoPage,
                                Stating(store, IdentityTypes, "email"))
      BY <2>3, DelegatedFields
    <2>4. CASE /\ ~CrawlFailed(store)
               /\ e = Delegated(rule, "business_identity_phone_consistency", "medium", "fail", NoPage,
                                Stating(store, IdentityTypes, "phone"))
      BY <2>4, DelegatedFields
    <2>5. ASSUME ~CrawlFailed(store), NEW n \in Foreign(store),
                 e = Delegated(rule, "business_identity_phone_country_mismatch", "high", "fail",
                               from(n), {from(n)})
          PROVE  \E p \in Read(store) :
                   R("business_identity_phone_country_mismatch", "high", "fail", p, {p})
      <3> DEFINE p == from(n)
      <3>1. p \in Read(store)
        BY <1>3
      <3> HIDE DEF p
      <3>2. R("business_identity_phone_country_mismatch", "high", "fail", p, {p})
        BY <2>5, DelegatedFields DEF p
      <3> QED
        BY <3>1, <3>2
    <2>6. CASE /\ ~CrawlFailed(store)
               /\ \E n \in Foreign(store) :
                    e = Delegated(rule, "business_identity_phone_country_mismatch", "high", "fail",
                                  from(n), {from(n)})
      <3> HIDE DEF R, from
      <3> QED
        BY <2>5, <2>6
    <2> HIDE DEF R, from, fields
    <2> QED
      BY <1>2, <2>1, <2>2, <2>3, <2>4, <2>6, Zenon
  <1>5. Typed(e)
    BY <1>1, <1>4 DEF Typed, Severities, Results
  <1>6. Traced(e)
    <2>1. NoPage \notin Read(store)
      BY ReadIsPage
    <2>2. Home # NoPage
      BY RulesAssumption DEF Home, Pages, ToSet
    <2>3. e.page = NoPage => Basis(e) = UNION {Scanned[p] : p \in e.cited}
      BY <1>1, <1>4, Zenon DEF Basis, CitedIn
    <2>4. /\ e.shown \in Read(store) => e.shown \in Basis(e)
          /\ e.result = "fail" /\ e.shown # NoPage => e.shown \in Read(store)
          /\ RuleOf(e.rule).type # "cross_page_contradiction"
      BY <1>1, <1>4, <2>1, <2>2 DEF Basis
    <2>5. \A fact \in {"email", "phone"} : e.cited = Stating(store, IdentityTypes, fact) /\ e.page = NoPage =>
            {p \in Stating(store, IdentityTypes, fact) : p \in Scanned[p]} \subseteq Basis(e)
      BY <2>3
    <2> QED
      BY <1>4, <2>4, <2>5 DEF Traced
  <1>7. Honest(e)
    BY <1>1, <1>4 DEF Honest
  <1>8. Agreed(e)
    <2> SUFFICES ASSUME \A fact \in fields : Stated(store, IdentityTypes, fact) = {},
                        NEW r \in facts, r.fact \in {"email", "phone"}
                 PROVE  FALSE
      BY <1>1, <1>4 DEF Agreed
    <2>1. r.page \in Stating(store, IdentityTypes, r.fact)
      BY DEF Supported
    <2> QED
      BY <2>1 DEF Stating, Stated
  <1> QED
    BY <1>5, <1>6, <1>7, <1>8 DEF Right

LEMMA EvaluatedRight ==
  ASSUME store \in Stores, \A r \in facts : Supported(r),
         NEW n \in 1..Len(Rules), NEW first \in FirstSeen(Rules[n]),
         NEW e \in Evaluated(Rules[n], first)
  PROVE  Right(e)
  <1>1. n \in {1, 2, 3, 4, 5, 6}
    BY RuleCount
  <1>2. CASE n = 1
    BY <1>2, Dispatch, MethodRight
  <1>3. CASE n = 2
    BY <1>3, Dispatch, ContradictionRight
  <1>4. CASE n = 3
    BY <1>4, Dispatch, ContradictionRight
  <1>5. CASE n = 4
    BY <1>5, Dispatch, AllMissingRight
  <1>6. CASE n = 5
    BY <1>6, Dispatch, MissingRight
  <1>7. CASE n = 6
    BY <1>7, Dispatch, IdentityRight
  <1> QED
    BY <1>1, <1>2, <1>3, <1>4, <1>5, <1>6, <1>7

-----------------------------------------------------------------------------
(* The course of the audit                                                 *)

Judging == {"rules", "findings", "retention", "screenshots", "closing", "done"}
Reporting == {"retention", "screenshots", "closing", "done"}

\* Where the audit is, and what it has not begun yet.
Course ==
  /\ stage \in Stages /\ settings \in Settings /\ store \in Stores
  /\ turn \in 1..(Len(Rules) + 1) /\ skipped \subseteq RuleIds /\ broken \in BOOLEAN
  /\ stage \in {"crawl", "facts", "syncing"} => evaluations = {} /\ turn = 1
  /\ stage = "crawl" => facts = {}

\* The rules table through the synchronisations of this audit and of others:
\* what this one did not see can only be a rule of the file.
Mirror ==
  /\ DOMAIN table \subseteq RuleIds \cup UNION {DOMAIN T : T \in Tables}
  /\ known \subseteq DOMAIN table
  /\ stage = "syncing" => DOMAIN table \subseteq known \cup RuleIds
  /\ stage \in Judging => {id \in DOMAIN table : table[id]} = RuleIds

FactsInv == \A r \in facts : Supported(r)
RightInv == \A e \in evaluations : Right(e)

\* What the later stages made of the evaluations.
Built ==
  /\ stage \in Reporting => findings = FindingsOf(evaluations)
  /\ stage \in {"screenshots", "closing", "done"} => kept = Bodies(evaluations)
  /\ kept \subseteq Pages
  /\ shots \subseteq ScreenshotWorthy
  /\ stage \in Stages \ {"closing", "done", "error"} => shots = {}
  /\ stage = "done" => verdict = SnapshotStatus(findings)
  /\ verdict \in {NoVerdict, "COMPLIANT", "ACTION_REQUIRED", "AT_RISK", "CRITICAL"}

IInv == Course /\ Mirror /\ FactsInv /\ RightInv /\ Built

LEMMA InitInv == Init => IInv
  <1> SUFFICES ASSUME Init PROVE IInv
    OBVIOUS
  <1>1. Course
    <2>1. turn \in 1..(Len(Rules) + 1)
      BY RuleCount DEF Init
    <2>2. broken \in BOOLEAN
      BY DEF Init
    <2> QED
      BY <2>1, <2>2 DEF Init, Course, Stages
  <1>2. Mirror
    BY DEF Init, Mirror, Judging
  <1>3. FactsInv /\ RightInv
    BY DEF Init, FactsInv, RightInv
  <1>4. Built
    BY DEF Init, Built, Reporting
  <1> QED
    BY <1>1, <1>2, <1>3, <1>4 DEF IInv

LEMMA CourseStep == Course /\ [Next]_vars => Course'
  <1> SUFFICES ASSUME Course, [Next]_vars PROVE Course'
    OBVIOUS
  <1> USE RuleCount DEF Course, Stages, shop, rules, engine, outcome
  <1>1. CASE ExtractFacts
    BY <1>1 DEF ExtractFacts
  <1>2. CASE ReadTable \/ OtherSync \/ SyncRules \/ SyncClashes
    BY <1>2 DEF ReadTable, OtherSync, SyncRules, SyncClashes
  <1>3. CASE EvaluateRule
    BY <1>3 DEF EvaluateRule
  <1>4. CASE RuleRaises
    BY <1>4 DEF RuleRaises, RuleIds
  <1>5. CASE FlushFails
    BY <1>5 DEF FlushFails, RuleIds
  <1>6. CASE CommitRules
    BY <1>6 DEF CommitRules
  <1>7. CASE BuildFindings \/ Retain \/ CaptureScreenshots \/ Finish
    BY <1>7 DEF BuildFindings, Retain, CaptureScreenshots, Finish
  <1>8. CASE Fail
    BY <1>8 DEF Fail
  <1>9. CASE UNCHANGED vars
    BY <1>9 DEF vars
  <1> QED
    BY <1>1, <1>2, <1>3, <1>4, <1>5, <1>6, <1>7, <1>8, <1>9 DEF Next

\* What a synchronisation leaves active, if it saw every row but the file's.
LEMMA SyncedActive ==
  ASSUME NEW T, NEW seen, DOMAIN T \subseteq seen \cup RuleIds
  PROVE  /\ DOMAIN Synced(T, seen) = DOMAIN T \cup RuleIds
         /\ {id \in DOMAIN Synced(T, seen) : Synced(T, seen)[id]} = RuleIds
  BY DEF Synced

LEMMA MirrorStep == Course /\ Mirror /\ [Next]_vars => Mirror'
  <1> SUFFICES ASSUME Course, Mirror, [Next]_vars PROVE Mirror'
    OBVIOUS
  <1> USE DEF Mirror, Judging, shop, rules, engine, outcome
  <1>1. CASE ExtractFacts
    BY <1>1 DEF ExtractFacts
  <1>2. CASE ReadTable
    BY <1>2 DEF ReadTable
  <1>3. CASE OtherSync
    <2>1. DOMAIN table' = DOMAIN table \cup RuleIds
      BY <1>3, SyncedActive DEF OtherSync
    <2> QED
      BY <1>3, <2>1 DEF OtherSync
  <1>4. CASE SyncRules
    <2>1. /\ DOMAIN table' = DOMAIN table \cup RuleIds
          /\ {id \in DOMAIN table' : table'[id]} = RuleIds
      BY <1>4, SyncedActive DEF SyncRules
    <2> QED
      BY <1>4, <2>1 DEF SyncRules
  <1>5. CASE SyncClashes
    BY <1>5 DEF SyncClashes
  <1>6. CASE EvaluateRule \/ RuleRaises \/ FlushFails
    BY <1>6 DEF EvaluateRule, RuleRaises, FlushFails
  <1>7. CASE CommitRules
    BY <1>7 DEF CommitRules
  <1>8. CASE BuildFindings \/ Retain \/ CaptureScreenshots \/ Finish
    BY <1>8 DEF BuildFindings, Retain, CaptureScreenshots, Finish
  <1>9. CASE Fail
    BY <1>9 DEF Fail
  <1>10. CASE UNCHANGED vars
    BY <1>10 DEF vars
  <1> QED
    BY <1>1, <1>2, <1>3, <1>4, <1>5, <1>6, <1>7, <1>8, <1>9, <1>10 DEF Next

LEMMA FactsStep == FactsInv /\ [Next]_vars => FactsInv'
  <1> SUFFICES ASSUME FactsInv, [Next]_vars PROVE FactsInv'
    OBVIOUS
  <1>1. CASE ExtractFacts
    <2>1. PICK windows \in WindowFacts(store) : facts' = AllFacts(store, windows)
      BY <1>1 DEF ExtractFacts
    <2>2. \A r \in facts' : Supported(r)
      BY <2>1, FactsSupported
    <2> QED
      BY <1>1, <2>2 DEF ExtractFacts, FactsInv, Supported
  <1>2. CASE UNCHANGED shop
    BY <1>2 DEF shop, FactsInv, Supported
  <1>3. ExtractFacts \/ UNCHANGED shop
    BY DEF Next, vars, shop, ReadTable, OtherSync, SyncRules, SyncClashes, EvaluateRule, RuleRaises,
           FlushFails, CommitRules, BuildFindings, Retain, CaptureScreenshots, Finish, Fail
  <1> QED
    BY <1>1, <1>2, <1>3

LEMMA RightStands ==
  ASSUME NEW e, UNCHANGED shop
  PROVE  Right(e)' <=> Right(e)
  BY DEF shop, Right, Typed, Traced, Honest, Agreed, Observed

LEMMA RightStep == Course /\ FactsInv /\ RightInv /\ [Next]_vars => RightInv'
  <1> SUFFICES ASSUME Course, FactsInv, RightInv, [Next]_vars PROVE RightInv'
    OBVIOUS
  <1>1. CASE ExtractFacts
    BY <1>1 DEF ExtractFacts, Course, RightInv
  <1>2. CASE EvaluateRule
    <2>1. turn \in 1..Len(Rules)
      BY <1>2, RuleCount DEF EvaluateRule, Course
    <2>2. PICK first \in FirstSeen(Rules[turn]) :
            evaluations' = evaluations \cup Evaluated(Rules[turn], first)
      BY <1>2 DEF EvaluateRule
    <2>3. \A e \in evaluations' : Right(e)
      BY <2>1, <2>2, EvaluatedRight DEF Course, FactsInv, RightInv
    <2> QED
      BY <1>2, <2>3, RightStands DEF EvaluateRule, RightInv
  <1>3. CASE UNCHANGED shop /\ evaluations' \subseteq evaluations
    BY <1>3, RightStands DEF RightInv
  <1>4. ExtractFacts \/ EvaluateRule \/ (UNCHANGED shop /\ evaluations' \subseteq evaluations)
    BY DEF Next, vars, shop, ReadTable, OtherSync, SyncRules, SyncClashes, RuleRaises,
           FlushFails, CommitRules, BuildFindings, Retain, CaptureScreenshots, Finish, Fail
  <1> QED
    BY <1>1, <1>2, <1>3, <1>4

LEMMA StatusType ==
  ASSUME NEW F
  PROVE  SnapshotStatus(F) \in {"COMPLIANT", "ACTION_REQUIRED", "AT_RISK", "CRITICAL"}
  BY DEF SnapshotStatus

LEMMA BuiltStep == Course /\ Built /\ [Next]_vars => Built'
  <1> SUFFICES ASSUME Course, Built, [Next]_vars PROVE Built'
    OBVIOUS
  <1> USE DEF Course, Built, Stages, Reporting, ScreenshotWorthy, shop, rules, engine, outcome
  <1>1. CASE ExtractFacts
    BY <1>1 DEF ExtractFacts
  <1>2. CASE ReadTable \/ OtherSync \/ SyncRules \/ SyncClashes
    BY <1>2 DEF ReadTable, OtherSync, SyncRules, SyncClashes
  <1>3. CASE EvaluateRule \/ RuleRaises \/ FlushFails
    BY <1>3 DEF EvaluateRule, RuleRaises, FlushFails
  <1>4. CASE CommitRules
    BY <1>4 DEF CommitRules
  <1>5. CASE BuildFindings
    BY <1>5 DEF BuildFindings
  <1>6. CASE Retain
    BY <1>6 DEF Retain, Bodies, Read
  <1>7. CASE CaptureScreenshots
    BY <1>7 DEF CaptureScreenshots, Bodies
  <1>8. CASE Finish
    BY <1>8, StatusType DEF Finish, Bodies
  <1>9. CASE Fail
    BY <1>9 DEF Fail
  <1>10. CASE UNCHANGED vars
    BY <1>10 DEF vars, Bodies
  <1> QED
    BY <1>1, <1>2, <1>3, <1>4, <1>5, <1>6, <1>7, <1>8, <1>9, <1>10 DEF Next

THEOREM Invariance == Spec => []IInv
  <1>1. IInv /\ [Next]_vars => IInv'
    BY CourseStep, MirrorStep, FactsStep, RightStep, BuiltStep DEF IInv
  <1> QED
    BY InitInv, <1>1, PTL DEF Spec

-----------------------------------------------------------------------------
(* What is concluded, for every store                                      *)

\* The types of the variables: facts come from pages that were read, evaluations
\* have a severity, a result and a confidence, and nothing is kept of a page or
\* shown of a finding that the run does not have.
THEOREM TypeOKHolds == Spec => []TypeOK
  <1>1. IInv => TypeOK
    <2> SUFFICES ASSUME IInv PROVE TypeOK
      OBVIOUS
    <2>1. \A r \in facts : r.page \in Read(store)
      BY DEF IInv, FactsInv, Supported
    <2>2. \A e \in evaluations : e.severity \in Severities /\ e.result \in Results /\ e.confidence \in 0..100
      BY DEF IInv, RightInv, Right, Typed
    <2>3. shots \subseteq findings
      BY DEF IInv, Built, ScreenshotWorthy
    <2> QED
      BY <2>1, <2>2, <2>3 DEF IInv, Course, Mirror, Built, TypeOK
  <1> QED
    BY Invariance, <1>1, PTL

\* No failure rests on a page that was not read: whatever the store, the model's
\* answers and the rules that raise, a failed evaluation was observed.
THEOREM FailIsObservedHolds == Spec => []FailIsObserved
  <1>1. IInv => FailIsObserved
    BY DEF IInv, RightInv, Right, Honest, FailIsObserved
  <1> QED
    BY Invariance, <1>1, PTL

\* The rule engine and the checks of the other audit agree about every store, a
\* link off the domain and an unsupported language apart.
THEOREM AuditsAgreeHolds == Spec => []AuditsAgree
  <1>1. IInv => AuditsAgree
    BY DEF IInv, RightInv, Right, Agreed, AuditsAgree
  <1> QED
    BY Invariance, <1>1, PTL

\* However other audits write the rules table meanwhile and whatever an earlier
\* version left in it, the rules of the file are the active ones.
THEOREM RulesInForceHolds == Spec => []RulesInForce
  <1>1. IInv => RulesInForce
    <2> SUFFICES ASSUME IInv, stage \in Judging
                 PROVE  /\ {id \in DOMAIN table : table[id]} = RuleIds
                        /\ \A e \in evaluations : e.rule \in DOMAIN table /\ table[e.rule]
      BY DEF RulesInForce, Judging
    <2>1. {id \in DOMAIN table : table[id]} = RuleIds
      BY DEF IInv, Mirror
    <2>2. \A e \in evaluations : e.rule \in RuleIds
      BY DEF IInv, RightInv, Right, Typed
    <2> QED
      BY <2>1, <2>2
  <1> QED
    BY Invariance, <1>1, PTL

\* An actionable evaluation keeps the pages it rests on.
LEMMA ActionableKept ==
  ASSUME IInv, stage \in {"screenshots", "closing", "done"}, NEW e \in Actionable(evaluations)
  PROVE  Basis(e) \cap Read(store) \subseteq kept
  <1>1. Basis(e) \subseteq Failing(evaluations)
    BY DEF Basis, Failing
  <1>2. Failing(evaluations) \cap Read(store) \subseteq kept
    BY DEF IInv, Built, Bodies, Read
  <1> QED
    BY <1>1, <1>2

\* Whatever a finding shows, or rests on and can still be found by the address in
\* its text, is kept as evidence if it was read; and unless the settings keep
\* every body, nothing is kept of a store without findings.
THEOREM EvidenceKeptHolds == Spec => []EvidenceKept
  <1>1. IInv => EvidenceKept
    <2> SUFFICES ASSUME IInv, stage \in {"screenshots", "closing", "done"}
                 PROVE  /\ \A f \in findings : f.page \in Read(store) => f.page \in kept
                        /\ \A e \in Actionable(evaluations) :
                             RuleOf(e.rule).type = "cross_page_contradiction" =>
                               {r.page : r \in Observed(RuleOf(e.rule))} \subseteq kept
                        /\ \A e \in evaluations : e.check = "business_identity_email_consistency" =>
                             {p \in Stating(store, IdentityTypes, "email") : p \in Scanned[p]} \subseteq kept
                        /\ \A e \in evaluations : e.check = "business_identity_phone_consistency" =>
                             {p \in Stating(store, IdentityTypes, "phone") : p \in Scanned[p]} \subseteq kept
                        /\ \A f \in shots : f.page \in kept
                        /\ IF settings.keep_body_on_pass THEN kept = Read(store)
                           ELSE findings = {} => kept = {}
      BY DEF EvidenceKept
    <2>1. findings = FindingsOf(evaluations) /\ kept = Bodies(evaluations)
      BY DEF IInv, Built, Reporting
    <2>2. \A e \in evaluations : Traced(e)
      BY DEF IInv, RightInv, Right
    <2>3. \A f \in findings : \E e \in Actionable(evaluations) :
            e \in evaluations /\ f.page = e.shown /\ f.result = e.result
      BY <2>1 DEF FindingsOf, FindingOf, Actionable
    <2>4. ASSUME NEW f \in findings, f.page \in Read(store)
          PROVE  f.page \in kept
      <3>1. PICK e \in Actionable(evaluations) : e \in evaluations /\ f.page = e.shown
        BY <2>3
      <3> QED
        BY <2>2, <2>4, <3>1, ActionableKept DEF Traced
    <2>5. ASSUME NEW e \in Actionable(evaluations), RuleOf(e.rule).type = "cross_page_contradiction"
          PROVE  {r.page : r \in Observed(RuleOf(e.rule))} \subseteq kept
      <3>1. Basis(e) = {r.page : r \in Observed(RuleOf(e.rule))}
        BY <2>2, <2>5 DEF Actionable, Traced
      <3>2. {r.page : r \in Observed(RuleOf(e.rule))} \subseteq Read(store)
        BY DEF IInv, FactsInv, Supported, Observed
      <3> QED
        BY <3>1, <3>2, ActionableKept
    <2>6. ASSUME NEW e \in evaluations, e.check = "business_identity_email_consistency"
          PROVE  {p \in Stating(store, IdentityTypes, "email") : p \in Scanned[p]} \subseteq kept
      <3> DEFINE surviving == {p \in Stating(store, IdentityTypes, "email") : p \in Scanned[p]}
      <3>1. e.result = "fail" /\ surviving \subseteq Basis(e)
        BY <2>2, <2>6 DEF Traced
      <3>2. e \in Actionable(evaluations)
        BY <3>1 DEF Actionable
      <3>3. surviving \subseteq Read(store)
        BY DEF Stating
      <3> HIDE DEF surviving
      <3>4. surviving \subseteq kept
        BY <3>1, <3>2, <3>3, ActionableKept
      <3> QED
        BY <3>4 DEF surviving
    <2>9. ASSUME NEW e \in evaluations, e.check = "business_identity_phone_consistency"
          PROVE  {p \in Stating(store, IdentityTypes, "phone") : p \in Scanned[p]} \subseteq kept
      <3> DEFINE surviving == {p \in Stating(store, IdentityTypes, "phone") : p \in Scanned[p]}
      <3>1. e.result = "fail" /\ surviving \subseteq Basis(e)
        BY <2>2, <2>9 DEF Traced
      <3>2. e \in Actionable(evaluations)
        BY <3>1 DEF Actionable
      <3>3. surviving \subseteq Read(store)
        BY DEF Stating
      <3> HIDE DEF surviving
      <3>4. surviving \subseteq kept
        BY <3>1, <3>2, <3>3, ActionableKept
      <3> QED
        BY <3>4 DEF surviving
    <2>7. ASSUME NEW f \in shots
          PROVE  f.page \in kept
      <3>1. f \in findings /\ f.page # NoPage /\ f.result = "fail"
        BY DEF IInv, Built, ScreenshotWorthy
      <3>2. PICK e \in Actionable(evaluations) :
              e \in evaluations /\ f.page = e.shown /\ f.result = e.result
        BY <2>3, <3>1
      <3>3. f.page \in Read(store)
        BY <2>2, <3>1, <3>2 DEF Traced
      <3> QED
        BY <2>4, <3>1, <3>3
    <2>8. IF settings.keep_body_on_pass THEN kept = Read(store) ELSE findings = {} => kept = {}
      <3>1. findings = {} => Actionable(evaluations) = {}
        BY <2>1 DEF FindingsOf
      <3> QED
        BY <2>1, <3>1 DEF Bodies, Failing, Read
    <2> QED
      BY <2>4, <2>5, <2>6, <2>7, <2>8, <2>9
  <1> QED
    BY Invariance, <1>1, PTL

-----------------------------------------------------------------------------
(* Nothing is passed over in silence                                       *)

LEMMA FiniteImage ==
  ASSUME NEW S, IsFiniteSet(S), NEW f, f = [x \in S |-> f[x]]
  PROVE  IsFiniteSet({f[x] : x \in S})
  <1> DEFINE T == {f[x] : x \in S}
  <1>1. f \in Surjection(S, T)
    BY DEF Surjection
  <1> HIDE DEF T
  <1>2. IsFiniteSet(T)
    BY <1>1, FS_Surjection
  <1> QED
    BY <1>2 DEF T

LEMMA FinitePages == IsFiniteSet(Pages)
  <1>1. Order \in Seq(Pages)
    BY RulesAssumption
  <1>2. IsFiniteSet(1..Len(Order)) /\ DOMAIN Order = 1..Len(Order)
    BY <1>1, FS_Interval
  <1>3. Order = [n \in 1..Len(Order) |-> Order[n]]
    BY <1>1
  <1>4. IsFiniteSet({Order[n] : n \in 1..Len(Order)})
    BY <1>2, <1>3, FiniteImage
  <1> QED
    BY <1>2, <1>4 DEF Pages, ToSet

\* Finitely many facts from each of finitely many pages.
LEMMA FinitePageFacts ==
  ASSUME NEW S \in SUBSET Pages, NEW F, F = [p \in S |-> F[p]], \A p \in S : IsFiniteSet(F[p])
  PROVE  IsFiniteSet(UNION {F[p] : p \in S})
  <1>1. IsFiniteSet(S)
    BY FinitePages, FS_Subset
  <1>2. IsFiniteSet({F[p] : p \in S})
    BY <1>1, FiniteImage
  <1> QED
    BY <1>2, FS_UNION

LEMMA FiniteRows ==
  ASSUME store \in Stores, NEW types, NEW fact, NEW method
  PROVE  IsFiniteSet(Rows(store, types, fact, method))
  <1> DEFINE S == Stating(store, types, fact)
             F == [p \in S |-> {Row(p, fact, v, method, Confidence(method)) : v \in Values(store, p, fact)}]
  <1>1. S \in SUBSET Pages
    BY DEF Stating, Read
  <1>2. ASSUME NEW p \in S
        PROVE  IsFiniteSet(F[p])
    <2> DEFINE said == {h \in Says[store.text[p]] : h.fact = fact}
               value == [g \in said |-> g.value]
               row == [v \in Values(store, p, fact) |-> Row(p, fact, v, method, Confidence(method))]
    <2>1. IsFiniteSet(Says[store.text[p]])
      <3>1. store.text[p] \in Texts
        BY <1>1, RulesAssumption
      <3> QED
        BY <3>1, RulesAssumption
    <2>2. IsFiniteSet(said)
      BY <2>1, FS_Subset
    <2>3. IsFiniteSet({value[g] : g \in said})
      <3>1. value = [g \in said |-> value[g]]
        OBVIOUS
      <3> HIDE DEF value, said
      <3> QED
        BY <2>2, <3>1, FiniteImage
    <2>4. IsFiniteSet(Values(store, p, fact))
      <3>1. Values(store, p, fact) = {value[g] : g \in said}
        BY DEF Values
      <3> HIDE DEF value, said
      <3> QED
        BY <2>3, <3>1
    <2>5. IsFiniteSet({row[v] : v \in Values(store, p, fact)})
      <3>1. row = [v \in Values(store, p, fact) |-> row[v]]
        OBVIOUS
      <3> HIDE DEF row
      <3> QED
        BY <2>4, <3>1, FiniteImage
    <2> QED
      BY <2>5
  <1>3. F = [p \in S |-> F[p]]
    OBVIOUS
  <1>4. Rows(store, types, fact, method) = UNION {F[p] : p \in S}
    BY DEF Rows
  <1> HIDE DEF F, S
  <1> QED
    BY <1>1, <1>2, <1>3, <1>4, FinitePageFacts

LEMMA FiniteFacts ==
  ASSUME store \in Stores, NEW windows \in WindowFacts(store)
  PROVE  IsFiniteSet(AllFacts(store, windows))
  <1> DEFINE I(fact) == Rows(store, IdentityTypes, fact, "business_identity_regex")
  <1>1. IsFiniteSet(I("email")) /\ IsFiniteSet(I("phone")) /\ IsFiniteSet(I("address"))
    BY FiniteRows
  <1>2. IdentityFacts(store) = (I("email") \cup I("phone")) \cup I("address")
    BY DEF IdentityFacts
  <1>3. IsFiniteSet(IdentityFacts(store))
    <2> HIDE DEF I
    <2>1. IsFiniteSet(I("email") \cup I("phone"))
      BY <1>1, FS_Union
    <2> QED
      BY <1>1, <1>2, <2>1, FS_Union
  <1>4. IsFiniteSet(CommerceFacts(store)) /\ IsFiniteSet(ProductFacts(store))
    BY FiniteRows DEF CommerceFacts, ProductFacts
  <1>5. IsFiniteSet(windows)
    <2>1. CASE windows = Rows(store, WindowTypes, "window", "return_window_regex")
      BY <2>1, FiniteRows
    <2>2. ASSUME NEW answer \in [WindowPages(store) -> Answers],
                 windows = UNION {Reconciled(store, p, answer[p]) : p \in WindowPages(store)}
          PROVE  IsFiniteSet(windows)
      <3> DEFINE S == WindowPages(store)
                 F == [p \in S |-> Reconciled(store, p, answer[p])]
      <3>1. S \in SUBSET Pages
        BY DEF WindowPages, Read
      <3>2. \A p \in S : IsFiniteSet(F[p])
        BY FS_EmptySet, FS_Singleton DEF Reconciled
      <3>3. F = [p \in S |-> F[p]] /\ windows = UNION {F[p] : p \in S}
        BY <2>2
      <3> HIDE DEF F, S
      <3> QED
        BY <3>1, <3>2, <3>3, FinitePageFacts
    <2> QED
      BY <2>1, <2>2 DEF WindowFacts
  <1>6. IsFiniteSet(IdentityFacts(store) \cup CommerceFacts(store))
    BY <1>3, <1>4, FS_Union
  <1>7. IsFiniteSet((IdentityFacts(store) \cup CommerceFacts(store)) \cup ProductFacts(store))
    BY <1>4, <1>6, FS_Union
  <1>8. IsFiniteSet(((IdentityFacts(store) \cup CommerceFacts(store)) \cup ProductFacts(store)) \cup windows)
    BY <1>5, <1>7, FS_Union
  <1> QED
    BY <1>8 DEF AllFacts

\* Every rule whose turn has come was evaluated, or was passed over and is known
\* to have been.
Covered ==
  /\ IsFiniteSet(facts)
  /\ stage \in Judging \ {"rules"} => turn > Len(Rules)
  /\ stage \in Judging => \A n \in 1..Len(Rules) : n < turn =>
       \/ Rules[n].id \in skipped
       \/ \E first \in FirstSeen(Rules[n]) : Evaluated(Rules[n], first) \subseteq evaluations

\* An evaluation depends on the crawl and its facts alone.
LEMMA EvaluatedStands ==
  ASSUME NEW rule, NEW first, UNCHANGED shop
  PROVE  /\ Evaluated(rule, first)' = Evaluated(rule, first)
         /\ FirstSeen(rule)' = FirstSeen(rule)
  <1> USE DEF shop
  <1>1. Observed(rule)' = Observed(rule)
    BY DEF Observed
  <1>2. Contradiction(rule, first)' = Contradiction(rule, first)
    BY <1>1 DEF Contradiction
  <1>3. MethodComparison(rule)' = MethodComparison(rule)
    BY DEF MethodComparison
  <1>4. MissingResource(rule)' = MissingResource(rule)
    BY DEF MissingResource
  <1>5. AllMissing(rule)' = AllMissing(rule)
    BY DEF AllMissing
  <1>6. ExistingCheck(rule)' = ExistingCheck(rule)
    BY DEF ExistingCheck
  <1>7. FirstSeen(rule)' = FirstSeen(rule)
    BY <1>1 DEF FirstSeen
  <1> QED
    BY <1>2, <1>3, <1>4, <1>5, <1>6, <1>7 DEF Evaluated

LEMMA CoveredStep == Course /\ Covered /\ [Next]_vars => Covered'
  <1> SUFFICES ASSUME Course, Covered, [Next]_vars PROVE Covered'
    OBVIOUS
  <1> DEFINE Done(n) ==
        \/ Rules[n].id \in skipped
        \/ \E first \in FirstSeen(Rules[n]) : Evaluated(Rules[n], first) \subseteq evaluations
  <1>1. CASE ExtractFacts
    <2>1. IsFiniteSet(facts')
      BY <1>1, FiniteFacts DEF ExtractFacts, Course
    <2> QED
      BY <1>1, <2>1 DEF ExtractFacts, Covered, Judging
  <1>2. ASSUME UNCHANGED shop, evaluations \subseteq evaluations', skipped \subseteq skipped'
        PROVE  /\ IsFiniteSet(facts')
               /\ \A n \in 1..Len(Rules) : Done(n) => Done(n)'
    <2>1. IsFiniteSet(facts')
      BY <1>2 DEF shop, Covered
    <2>2. ASSUME NEW n \in 1..Len(Rules), Done(n)
          PROVE  Done(n)'
      <3>1. CASE Rules[n].id \in skipped
        BY <1>2, <3>1
      <3>2. ASSUME NEW first \in FirstSeen(Rules[n]), Evaluated(Rules[n], first) \subseteq evaluations
            PROVE  Done(n)'
        BY <1>2, <3>2, EvaluatedStands
      <3> QED
        BY <2>2, <3>1, <3>2
    <2> QED
      BY <2>1, <2>2
  <1>3. CASE ReadTable \/ OtherSync \/ SyncClashes
    <2>1. UNCHANGED shop /\ stage' \notin Judging
      BY <1>3 DEF ReadTable, OtherSync, SyncClashes, Judging
    <2> QED
      BY <2>1 DEF shop, Covered, Judging
  <1>4. CASE SyncRules
    BY <1>4, RuleCount DEF SyncRules, Covered, Course, shop, engine, Judging
  <1>5. CASE EvaluateRule
    <2>1. turn \in 1..Len(Rules) /\ turn' = turn + 1 /\ stage = "rules" /\ stage' = "rules"
      BY <1>5, RuleCount DEF EvaluateRule, Course
    <2>2. UNCHANGED shop /\ evaluations \subseteq evaluations' /\ skipped \subseteq skipped'
      BY <1>5 DEF EvaluateRule
    <2>3. ASSUME NEW n \in 1..Len(Rules), n = turn
          PROVE  Done(n)'
      <3>1. PICK first \in FirstSeen(Rules[n]) :
              evaluations' = evaluations \cup Evaluated(Rules[n], first)
        BY <1>5, <2>3 DEF EvaluateRule
      <3>2. first \in FirstSeen(Rules[n])' /\ Evaluated(Rules[n], first)' = Evaluated(Rules[n], first)
        BY <2>2, EvaluatedStands
      <3> QED
        BY <3>1, <3>2
    <2> QED
      BY <1>2, <2>1, <2>2, <2>3, RuleCount DEF Covered, Judging
  <1>6. CASE RuleRaises
    <2>1. turn \in 1..Len(Rules) /\ turn' = turn + 1 /\ stage = "rules" /\ stage' = "rules"
      BY <1>6, RuleCount DEF RuleRaises, Course
    <2>2. /\ UNCHANGED shop /\ evaluations \subseteq evaluations'
          /\ skipped' = skipped \cup {Rules[turn].id}
      BY <1>6 DEF RuleRaises
    <2> QED
      BY <1>2, <2>1, <2>2, RuleCount DEF Covered, Judging
  <1>7. CASE FlushFails
    <2>1. turn \in 1..Len(Rules) /\ turn' = Len(Rules) + 1 /\ stage = "rules" /\ stage' = "rules"
      BY <1>7, RuleCount DEF FlushFails, Course
    <2>2. /\ UNCHANGED shop /\ evaluations \subseteq evaluations'
          /\ skipped' = skipped \cup {Rules[n].id : n \in turn..Len(Rules)}
      BY <1>7 DEF FlushFails
    <2> QED
      BY <1>2, <2>1, <2>2, RuleCount DEF Covered, Judging
  <1>8. CASE CommitRules
    <2>1. UNCHANGED shop /\ UNCHANGED <<turn, skipped>> /\ turn > Len(Rules) /\ stage = "rules"
      BY <1>8 DEF CommitRules, engine
    <2>2. CASE broken
      BY <1>2, <1>8, <2>1, <2>2 DEF CommitRules, Covered, Judging, shop
    <2>3. CASE ~broken
      BY <1>2, <1>8, <2>1, <2>3 DEF CommitRules, Covered, Judging
    <2> QED
      BY <2>2, <2>3
  <1>9. CASE BuildFindings \/ Retain \/ CaptureScreenshots \/ Finish
    <2>1. /\ UNCHANGED shop /\ UNCHANGED <<turn, skipped, evaluations>>
          /\ stage \in Judging \ {"rules"}
      BY <1>9 DEF BuildFindings, Retain, CaptureScreenshots, Finish, engine, Judging
    <2> QED
      BY <1>2, <2>1 DEF Covered
  <1>10. CASE Fail
    BY <1>10 DEF Fail, shop, Covered, Judging
  <1>11. CASE UNCHANGED vars
    BY <1>2, <1>11 DEF vars, shop, engine, Covered
  <1> QED
    BY <1>1, <1>3, <1>4, <1>5, <1>6, <1>7, <1>8, <1>9, <1>10, <1>11 DEF Next

LEMMA CoveredInvariance == Spec => []Covered
  <1>1. Init => Covered
    BY FS_EmptySet DEF Init, Covered, Judging
  <1> QED
    BY Invariance, CoveredStep, <1>1, PTL DEF Spec, IInv

\* The one rule whose findings are advisories.
LEMMA Advisory ==
  ASSUME NEW e, Right(e), Risk(e) = "advisory"
  PROVE  e.rule = Rules[2].id
  <1>1. e.severity \in Severities /\ e.rule \in RuleIds
    BY DEF Right, Typed
  <1>2. RuleOf(e.rule).impact = "quality_improvement"
    BY <1>1 DEF Risk, Severities
  <1>3. PICK n \in 1..Len(Rules) : e.rule = Rules[n].id
    BY <1>1 DEF RuleIds
  <1>4. RuleOf(e.rule) = Rules[n]
    BY <1>3, RuleOfId
  <1>5. /\ Rules[1].impact = "listing_disapproval" /\ Rules[3].impact = "listing_disapproval"
        /\ Rules[4].impact = "suspension_risk" /\ Rules[5].impact = "suspension_risk"
        /\ Rules[6].impact = "suspension_risk"
    BY DEF Rules, Rule
  <1>6. n = 2
    BY <1>2, <1>4, <1>5, RuleCount
  <1> QED
    BY <1>3, <1>6

\* Two rows that differ are two.
LEMMA TwoRows ==
  ASSUME NEW rows, IsFiniteSet(rows), NEW a \in rows, NEW b \in rows, a # b
  PROVE  ~(Cardinality(rows) < 2)
  <1>1. Cardinality(rows) \in Nat
    BY FS_CardinalityType
  <1>2. Cardinality(rows) # 0
    BY FS_EmptySet
  <1>3. Cardinality(rows) # 1
    BY FS_Singleton
  <1> QED
    BY <1>1, <1>2, <1>3

\* What a run may call compliant, if no rule was passed over.
LEMMA CompliantClean ==
  ASSUME IInv, Covered, stage = "done", verdict = "COMPLIANT", skipped = {}
  PROVE  /\ Read(store) # {}
         /\ Genuine(store, "returns_policy") # {} \/ ReturnsCredit(store)
         /\ Stating(store, IdentityTypes, "email") # {}
              \/ Stating(store, IdentityTypes, "phone") # {} \/ ContactCredit(store)
         /\ \A fact \in {"email", "phone"} : ~Several(store, fact)
         /\ \A a, b \in facts : (a.fact = "window" /\ b.fact = "window") => a.value = b.value
  <1>1. verdict = SnapshotStatus(findings) /\ findings = FindingsOf(evaluations)
    BY DEF IInv, Built, Reporting
  <1>2. \A f \in findings : f.risk = "advisory"
    BY <1>1 DEF SnapshotStatus
  <1>3. \A e \in evaluations : e.result # "pass" => e.rule = Rules[2].id
    <2> TAKE e \in evaluations
    <2> HAVE e.result # "pass"
    <2>1. FindingOf(e) \in findings
      BY <1>1 DEF FindingsOf, Actionable
    <2>2. Risk(e) = "advisory"
      BY <1>2, <2>1 DEF FindingOf
    <2>3. Right(e)
      BY DEF IInv, RightInv
    <2> QED
      BY <2>2, <2>3, Advisory
  <1>4. \A n \in 1..Len(Rules) : \E first \in FirstSeen(Rules[n]) :
          Evaluated(Rules[n], first) \subseteq evaluations
    <2>1. turn > Len(Rules) /\ turn \in Nat
      BY RuleCount DEF IInv, Course, Covered, Judging
    <2> QED
      BY <2>1, RuleCount DEF Covered, Judging
  <1>5. /\ Rules[3].id # Rules[2].id /\ Rules[4].id # Rules[2].id
        /\ Rules[5].id # Rules[2].id /\ Rules[6].id # Rules[2].id
    BY RuleNames
  <1>6. /\ MissingResource(Rules[5]) \subseteq evaluations
        /\ AllMissing(Rules[4]) \subseteq evaluations
        /\ ExistingCheck(Rules[6]) \subseteq evaluations
    BY <1>4, Dispatch, RuleCount
  <1>7. \A e \in MissingResource(Rules[5]) : e.rule = Rules[5].id /\ e.result = "pass"
    <2>1. \A e \in MissingResource(Rules[5]) : e.rule = Rules[5].id
      BY DEF MissingResource, SiteWide, Evaluation
    <2> QED
      BY <1>3, <1>5, <1>6, <2>1
  <1>8. ~CrawlFailed(store) /\ (Genuine(store, "returns_policy") # {} \/ ReturnsCredit(store))
    <2> DEFINE failed == SiteWide(Rules[5], "needs_review", 0, NoPage, {})
               none == SiteWide(Rules[5], "fail", 100, NoPage, {})
    <2>1. failed.result = "needs_review" /\ none.result = "fail"
      BY DEF SiteWide, Evaluation
    <2>2. \A shown, confidence : SiteWide(Rules[5], "needs_review", confidence, shown, {}).result = "needs_review"
      BY DEF SiteWide, Evaluation
    <2> QED
      BY <1>7, <2>1, <2>2, RuleSubjects DEF MissingResource
  <1>9. Read(store) # {}
    BY <1>8 DEF CrawlFailed
  <1>10. \/ Stating(store, IdentityTypes, "email") # {}
         \/ Stating(store, IdentityTypes, "phone") # {} \/ ContactCredit(store)
    <2>1. \A e \in AllMissing(Rules[4]) : e.rule = Rules[4].id
      BY DEF AllMissing, SiteWide, Evaluation
    <2>2. \A e \in AllMissing(Rules[4]) : e.result = "pass"
      BY <1>3, <1>5, <1>6, <2>1
    <2>3. SiteWide(Rules[4], "fail", 100, NoPage, {}).result = "fail"
      BY DEF SiteWide, Evaluation
    <2>4. (\E r \in facts : r.fact \in {"email", "phone"}) \/ ContactCredit(store)
      BY <1>8, <2>2, <2>3, RuleSubjects DEF AllMissing
    <2>5. \A r \in facts : r.fact \in {"email", "phone"} => Stating(store, IdentityTypes, r.fact) # {}
      BY DEF IInv, FactsInv, Supported
    <2> QED
      BY <2>4, <2>5
  <1>11. ASSUME NEW fact \in {"email", "phone"}, Several(store, fact)
         PROVE  FALSE
    <2> DEFINE email == Delegated(Rules[6], "business_identity_email_consistency", "medium", "fail",
                                  NoPage, Stating(store, IdentityTypes, "email"))
               phone == Delegated(Rules[6], "business_identity_phone_consistency", "medium", "fail",
                                  NoPage, Stating(store, IdentityTypes, "phone"))
    <2>1. Stated(store, IdentityTypes, fact) # {}
      BY <1>11, FS_EmptySet DEF Several
    <2>2. email \in ExistingCheck(Rules[6]) \/ phone \in ExistingCheck(Rules[6])
      BY <1>8, <1>11, <2>1 DEF ExistingCheck
    <2>3. /\ email.rule = Rules[6].id /\ email.result = "fail"
          /\ phone.rule = Rules[6].id /\ phone.result = "fail"
      BY DEF Delegated, Evaluation
    <2> HIDE DEF email, phone
    <2> QED
      BY <1>3, <1>5, <1>6, <2>2, <2>3
  <1>12. ASSUME NEW a \in facts, NEW b \in facts, a.fact = "window", b.fact = "window", a.value # b.value
         PROVE  FALSE
    <2> DEFINE rows == Observed(Rules[3])
    <2>1. a \in rows /\ b \in rows /\ a # b
      BY <1>12, RuleSubjects DEF IInv, FactsInv, Supported, Observed
    <2>2. IsFiniteSet(rows)
      BY FS_Subset DEF Covered, Observed
    <2>3. ~(Cardinality(rows) < 2) /\ ~Equal(rows)
      <3>1. ~Equal(rows)
        BY <1>12, <2>1 DEF Equal
      <3> HIDE DEF rows
      <3> QED
        BY <2>1, <2>2, <3>1, TwoRows
    <2>4. PICK first \in FirstSeen(Rules[3]) : Contradiction(Rules[3], first) \subseteq evaluations
      BY <1>4, Dispatch, RuleCount
    <2> DEFINE e == SiteWide(Rules[3], Judged(Equal(rows), Lowest(rows), Rules[3]), Lowest(rows), first,
                             {r.page : r \in rows})
    <2>5. e \in evaluations
      BY <2>3, <2>4 DEF Contradiction
    <2>6. e.rule = Rules[3].id /\ e.result # "pass"
      <3>1. e.rule = Rules[3].id /\ e.result = Judged(Equal(rows), Lowest(rows), Rules[3])
        BY DEF SiteWide, Evaluation
      <3> QED
        BY <2>3, <3>1 DEF Judged
    <2> HIDE DEF e
    <2> QED
      BY <1>3, <1>5, <2>5, <2>6
  <1> QED
    BY <1>8, <1>9, <1>10, <1>11, <1>12

\* A store called compliant by a run that passed over no rule was read, can be
\* reached, shows or links to a returns page, and contradicts itself nowhere; and
\* every status has a finding of its rank in the report.
THEOREM CompliantMeansCleanHolds == Spec => []CompliantMeansClean
  <1>1. IInv /\ Covered => CompliantMeansClean
    <2> SUFFICES ASSUME IInv, Covered, stage = "done"
                 PROVE  /\ Report.risks = {} <=> Report.status = "COMPLIANT"
                        /\ Report.status = "CRITICAL" <=> \E f \in Report.risks : f.severity = "critical"
      BY CompliantClean DEF CompliantMeansClean
    <2>1. verdict = SnapshotStatus(findings)
      BY DEF IInv, Built
    <2>2. Report.status = verdict /\ Report.risks = {f \in findings : f.risk # "advisory"}
      BY DEF Report
    <2>3. verdict = "COMPLIANT" <=> {f \in findings : f.risk # "advisory"} = {}
      BY <2>1 DEF SnapshotStatus
    <2>4. verdict = "CRITICAL" <=> \E f \in {g \in findings : g.risk # "advisory"} : f.severity = "critical"
      BY <2>1 DEF SnapshotStatus
    <2> QED
      BY <2>2, <2>3, <2>4
  <1> QED
    BY Invariance, CoveredInvariance, <1>1, PTL

=============================================================================
