---------------------------- MODULE MCAuditReport ----------------------------
(***************************************************************************)
(* An instance of AuditReport for TLC: a store with a home page and a      *)
(* listing of two pages.  Links to one share button, two images, a home    *)
(* page without https, and a claim that contradicts a policy.              *)
(***************************************************************************)
EXTENDS AuditReport

MCPages == {"home", "list", "list2"}
MCSection == [p \in {"list", "list2"} |-> "list"]
MCLength == [p \in MCPages |-> IF p = "list2" THEN 2 ELSE 1]
Crawl(home, list, list2) ==
  [p \in MCPages |-> CASE p = "home" -> home [] p = "list" -> list [] OTHER -> list2]
MCCrawls ==
  {Crawl("fine", "fine", "fine"), Crawl("gone", "unverified", "fine"),
   Crawl("unverified", "unverified", "unverified")}

Share(p, spot) == Instance("external_domain_link", p, spot, "low", "confirmed")
MCIssues == <<Instance("https_enforced", "home", NoValue, "critical", "confirmed"),
              Share("home", "share1"), Share("list", "share2"), Share("list2", "share3")>>
MCGraded == <<Instance("llm_claim_policy_contradiction", "home", NoValue, "critical", "potential_risk")>>
MCImages == {"image1", "image2"}
MCShown == [i \in MCImages |-> IF i = "image1" THEN "list" ELSE "list2"]
MCValue ==
  [s \in {"share1", "share2", "share3", "image1", "image2", NoValue} |->
     IF s \in {"share1", "share2", "share3"} THEN "share.example" ELSE NoValue]
MCChecks == {"https_enforced", "external_domain_link", "llm_claim_policy_contradiction",
             "product_image_broken", "product_image_low_resolution", "broken_internal_link",
             "crawl_incomplete"}
MCStrategy ==
  [c \in MCChecks |-> CASE c = "external_domain_link" -> "domain"
                        [] c \in {"product_image_broken", "product_image_low_resolution"} -> "check"
                        [] OTHER -> "none"]
MCTier ==
  [c \in MCChecks |->
     IF c \in {"https_enforced", "llm_claim_policy_contradiction"} THEN "suspension" ELSE "listing"]
MCAreas == {"misrepresentation", "prohibited_content"}
MCArea ==
  [c \in MCChecks |->
     IF c \in {"external_domain_link", "llm_claim_policy_contradiction"} THEN "misrepresentation" ELSE NoArea]
\* A link has a fix of its own on every page, everything else one per check.
MCFix ==
  [x \in MCChecks \X (MCPages \cup {NoPage}) \X (DOMAIN MCValue) \X Confidences |->
     IF x[1] = "external_domain_link" THEN <<x[1], x[2]>> ELSE <<x[1], NoPage>>]
=============================================================================
