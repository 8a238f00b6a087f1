----------------------------- MODULE MCPageFetch -----------------------------
(***************************************************************************)
(* Instances of PageFetch for TLC: fetches of one store, an optional third *)
(* of another, and one visit per way in which a visit can turn out;        *)
(* MCBlockVisits are the visits that show BlockPageNotContent violated.    *)
(***************************************************************************)
EXTENDS PageFetch

MCDomainOf == [f \in Fetches |-> IF f = "f3" THEN "other" ELSE "store"]

Met(load, first, settled, landed, asks) ==
  [load |-> load, first |-> first, settled |-> settled, landed |-> landed, asks |-> asks,
   requests |-> IF load = "failed" THEN 0 ELSE 1]

MCVisits ==
  {Met("fine", b, "page", "public", NoDelay) : b \in Bodies \ {"broken"}}
    \cup {Met(l, "page", "page", "public", NoDelay) : l \in {"failed", "gone", "denied", "error"}}
    \cup {Met("throttled", "page", "page", "public", a) : a \in {NoDelay, 0, 9}}
    \cup {Met("error", "challenge", b, "public", NoDelay) : b \in {"page", "challenge", "captcha"}}
    \cup {Met("fine", "page", "page", a, NoDelay) : a \in {"private", "unresolved"}}
MCBlockVisits == {Met("fine", "challenge", "hard_block", "public", NoDelay),
                  Met("denied", "page", "page", "public", NoDelay)}
=============================================================================
