----------------------------- MODULE MCSiteCrawl -----------------------------
(***************************************************************************)
(* Instances of SiteCrawl for TLC: a store with a policy page, a listing,  *)
(* three products and a page that robots.txt closes.                       *)
(***************************************************************************)
EXTENDS SiteCrawl, TLC

MCUrls == {"home", "terms", "list", "p1", "p2", "p3", "blog", "shut", "out"}
MCNames == MCUrls \cup {"p1/", "list?on-sale=1"}
MCNorm == [n \in MCNames |-> CASE n = "p1/" -> "p1"
                               [] n = "list?on-sale=1" -> "list"
                               [] OTHER -> n]
MCPathKey == [u \in MCUrls |-> IF u \in {"p1", "p2", "p3"} THEN "/shop" ELSE "/"]
MCLinks ==
  [u \in MCUrls |-> CASE u = "home" -> {<<"blog", "list", "terms">>, <<"list", "p1">>}
                      [] u = "list" -> {<<"list?on-sale=1", "p1", "p2", "p3">>, <<>>}
                      [] u = "p1" -> {<<"p1/", "p2">>}
                      [] u = "blog" -> {<<"shut", "p3">>}
                      [] OTHER -> {<<>>}]
MCRobots == {{}, {"shut"}, MCUrls}
MCSitemaps == {<<>>, <<"p1/", "out", "terms">>, <<"p1", "p2", "p3", "blog", "shut">>}
=============================================================================
