\* One First Audit of a store of five pages, of which any part was read.
CONSTANTS
  Order <- MCOrder
  PageType <- MCPageType
  Texts <- MCTexts
  Says <- MCSays
  Links <- MCLinks
  Stores <- MCStores
  Answers <- MCAnswers
  Tables <- MCTables
  Calling <- MCCalling
  Scanned <- MCScanned
  Settings <- MCSettings
  MaxRaises = 1
  NoPage = NoPage
  NoText = NoText
  NoAnswer = NoAnswer
  NoVerdict = NoVerdict
SPECIFICATION Spec
INVARIANTS
  FailIsObserved
  AuditsAgree
  CompliantMeansClean
  EvidenceKept
  RulesInForce
CHECK_DEADLOCK FALSE
