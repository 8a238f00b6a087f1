--------------------------- MODULE MCFirstAudits ---------------------------
(***************************************************************************)
(* Instances of FirstAudits for TLC.                                       *)
(***************************************************************************)
EXTENDS FirstAudits, TLC

\* One store under two spellings, and a second store.
TwoStores ==
  {[scheme |-> "none", shouted |-> FALSE, slash |-> FALSE, site |-> "a"],
   [scheme |-> "http", shouted |-> TRUE, slash |-> TRUE, site |-> "a"],
   [scheme |-> "https", shouted |-> FALSE, slash |-> FALSE, site |-> "b"]}

\* And a third one, so that the cap can refuse.
ThreeStores ==
  TwoStores \cup {[scheme |-> "https", shouted |-> FALSE, slash |-> FALSE, site |-> "c"]}

RequestSymmetry == Permutations(Requests)
=============================================================================
