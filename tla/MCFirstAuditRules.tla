-------------------------- MODULE MCFirstAuditRules --------------------------
(***************************************************************************)
(* An instance of FirstAuditRules for TLC: a store with a home page, a     *)
(* contact page, a returns page, a product and a shipping policy, of which *)
(* the crawl may have read any part.                                       *)
(***************************************************************************)
EXTENDS FirstAuditRules

MCOrder == <<"home", "contact", "returns", "item", "shipping">>
MCPageType ==
  [p \in {"home", "contact", "returns", "item", "shipping"} |->
     CASE p = "home" -> "homepage" [] p = "contact" -> "contact_about"
       [] p = "returns" -> "returns_policy" [] p = "item" -> "product"
       [] p = "shipping" -> "shipping_policy"]

States(fact, value) == [fact |-> fact, value |-> value]
MCTexts == {"front", "plain", "portal", "reach", "template", "thirty", "product", "uk"}
MCSays ==
  [t \in MCTexts |->
     CASE t = "front" -> {States("email", "info"), States("phone", "+44"), States("country", "uk"),
                          States("region", "worldwide")}
       [] t = "plain" -> {}
       [] t = "portal" -> {States("country", "germany")}
       [] t = "reach" -> {States("email", "help"), States("phone", "+49")}
       [] t = "template" -> {States("email", "info")}
       [] t = "thirty" -> {States("window", 30)}
       [] t = "product" -> {States("window", 14), States("price", 20)}
       [] t = "uk" -> {States("region", "uk")}]
MCLinks ==
  [t \in MCTexts |-> IF t = "portal" THEN {"returns_portal", "contact_subdomain"} ELSE {}]
MCCalling == [n \in {"+44", "+49"} |-> IF n = "+44" THEN {"uk"} ELSE {"germany"}]
\* The address of the contact page is cut to nothing the crawl has seen, that of
\* the returns page to the address of another page.
MCScanned ==
  [p \in ToSet(MCOrder) |->
     CASE p = "contact" -> {} [] p = "returns" -> {"shipping"} [] OTHER -> {p}]
MCSettings == [keep_body_on_pass : BOOLEAN, screenshots_only_critical : BOOLEAN]

\* How a page may come out of the crawl; an unread one has no text of interest.
Outcomes(texts) == {<<"read", t>> : t \in texts} \cup {<<"blocked", "plain">>, <<"gone", "plain">>}
Store(home, contact, returns, shelf, baseline, unsupported) ==
  LET page == [p \in ToSet(MCOrder) |->
                 CASE p = "home" -> home [] p = "contact" -> contact [] p = "returns" -> returns
                   [] p = "item" -> <<shelf, "product">> [] p = "shipping" -> <<shelf, "uk">>]
  IN [site |-> [p \in ToSet(MCOrder) |-> page[p][1]], text |-> [p \in ToSet(MCOrder) |-> page[p][2]],
      baseline |-> baseline, unsupported |-> unsupported]
MCStores ==
  {Store(h, c, r, shelf, b, u) :
     h \in Outcomes({"front", "portal"}) \ {<<"gone", "plain">>},
     c \in Outcomes({"reach", "template"}),
     r \in Outcomes({"thirty", "template", "front"}),
     shelf \in {"read", "gone"}, b \in {"template"}, u \in {FALSE}}
    \cup {Store(<<"read", "plain">>, <<"gone", "plain">>, r, "gone", NoText, TRUE) :
            r \in Outcomes({"thirty", "template"})}

MCAnswers ==
  {NoAnswer, [days |-> 30, quoted |-> TRUE, confidence |-> 90],
   [days |-> 14, quoted |-> TRUE, confidence |-> 60], [days |-> 14, quoted |-> FALSE, confidence |-> 90]}

Table(ids) == [id \in ids |-> TRUE]
MCTables == {Table({"missing_returns_page", "retired"})}
=============================================================================
