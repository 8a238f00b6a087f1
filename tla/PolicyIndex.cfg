\* One watcher, one policy with two sources, and a check that runs in every audit.
CONSTANTS
  Policies = {"privacy"}
  Sources = {"a", "b"}
  SourcesOf <- MCSourcesOf
  MaxVersion = 1
  Watchers = {"w"}
  Checks = {"first"}
  KindOf <- MCKindOf
  PolicyOf <- MCPolicyOf
  PageOf <- MCPageOf
  HasKey = TRUE
  MaxItems = 1
  MaxFaults = 1
SPECIFICATION Spec
INVARIANTS
  IndexFollowsHash
  GradedOnCited
PROPERTIES
  CatchesUpOrOwed
CHECK_DEADLOCK FALSE
