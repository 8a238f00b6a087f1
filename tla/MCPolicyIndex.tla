---------------------------- MODULE MCPolicyIndex ----------------------------
(***************************************************************************)
(* Instances of PolicyIndex for TLC: a policy with two sources and, where  *)
(* there is a second one, a policy that shares one of them; checks of one  *)
(* page, of which the one called "claim" has no policy in its prompt.      *)
(***************************************************************************)
EXTENDS PolicyIndex

MCSourcesOf == [p \in Policies |-> IF p = "privacy" THEN {"a", "b"} ELSE {"a"}]
MCKindOf == [c \in Checks |-> IF c = "claim" THEN "claim" ELSE "policy"]
MCPolicyOf == [c \in Checks |-> "privacy"]
MCPageOf == [c \in Checks |-> "page"]
=============================================================================
