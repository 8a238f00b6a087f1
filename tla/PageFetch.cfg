\* Two fetches of one store, three attempts each.
CONSTANTS
  Fetches = {"f1", "f2"}
  Domains = {"store"}
  DomainOf <- MCDomainOf
  Visits <- MCVisits
  MaxAttempts = 3
  MaxBotBlocks = 2
  MinDelay = 2
  Base = 1
  MaxBackoff = 3
  DnsTries = 2
  NoDelay = NoDelay
SPECIFICATION Spec
INVARIANTS
  SlotsSpaced
  HonestResult
  BlocksRespected
  GuardWorkKept
PROPERTIES
  EveryFetchEnds
