\* An ad-hoc audit and a re-run; rows older than a day are pruned.
CONSTANTS
  Jobs = {j1, j2}
  Reruns = {j2}
  Nodes = 2
  Retain = 1
  MaxDay = 2
SPECIFICATION Spec
INVARIANTS
  SeenStands
  RetentionExact
PROPERTIES
  JobsSettle
