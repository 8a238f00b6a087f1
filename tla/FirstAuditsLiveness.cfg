\* Two requests compete for one slot; a crawl may hang.
CONSTANTS
  Requests = {r1, r2}
  Sites = {"a", "b"}
  Urls <- TwoStores
  MaxConcurrent = 1
  Stages = 2
  Free = Free
  Reserved = Reserved
SPECIFICATION Spec
PROPERTIES
  AcceptedRunsSettle
  ImplementsGate
