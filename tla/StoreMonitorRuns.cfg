\* SQLite. Up to three audits of one store at a time; any of them may fail, and the process may restart.
CONSTANTS
  Workers = {w1, w2, w3}
  Urls = {u1}
  MaxId = 1
  MaxVersion = 1
  MaxRuns = 3
  Retain = 2
  ForeignKeys = FALSE
  HomeRow = "registered"
  MayBlock = FALSE
  MayFail = TRUE
  NoStore = NoStore
  NoTask = NoTask
SYMMETRY Symmetry
SPECIFICATION SafeSpec
INVARIANTS
  NewestKept
  MonitoredIsScheduled
PROPERTIES
  DeltaAgainstLast
