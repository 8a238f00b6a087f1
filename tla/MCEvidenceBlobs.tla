--------------------------- MODULE MCEvidenceBlobs ---------------------------
(***************************************************************************)
(* Instances of EvidenceBlobs for TLC.                                     *)
(***************************************************************************)
EXTENDS EvidenceBlobs, TLC

CONSTANTS r1, r2, r3, b1, b2, b3, b4, s1, s2

\* Run r1 has two resources and a finding, r2 one of each.
TwoRuns == (b1 :> r1) @@ (b2 :> r1) @@ (b3 :> r2) @@ (s1 :> r1) @@ (s2 :> r2)

\* Three runs with a resource each, and a finding of the first.
ThreeRuns == (b1 :> r1) @@ (b2 :> r2) @@ (b3 :> r3) @@ (s1 :> r1)

HashSymmetry == Permutations(Hashes)
=============================================================================
