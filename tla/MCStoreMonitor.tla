--------------------------- MODULE MCStoreMonitor ---------------------------
(***************************************************************************)
(* Instances of StoreMonitor for TLC.                                      *)
(***************************************************************************)
EXTENDS StoreMonitor, TLC

Symmetry == Permutations(Workers) \cup Permutations(Urls)
=============================================================================
