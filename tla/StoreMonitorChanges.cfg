\* Postgres. A homepage changes twice; nothing fails. The ids may run out.
CONSTANTS
  Workers = {w1, w2}
  Urls = {u1}
  MaxId = 1
  MaxVersion = 3
  MaxRuns = 1
  Retain = 1
  ForeignKeys = TRUE
  HomeRow = "registered"
  MayBlock = FALSE
  MayFail = FALSE
  NoStore = NoStore
  NoTask = NoTask
SPECIFICATION Spec
INVARIANTS
  ChangeAudited
PROPERTIES
  ChangesGetAudited
CHECK_DEADLOCK FALSE
