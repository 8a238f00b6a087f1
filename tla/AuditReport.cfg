\* Two audits in a row of a store with a home page and a listing of two pages.
CONSTANTS
  Pages <- MCPages
  Home = "home"
  Catalog = {"list", "list2"}
  Section <- MCSection
  Length <- MCLength
  Crawls <- MCCrawls
  Issues <- MCIssues
  ByAddress = {"https_enforced"}
  Graded <- MCGraded
  Images <- MCImages
  Small = {}
  Shown <- MCShown
  Value <- MCValue
  Strategy <- MCStrategy
  Tier <- MCTier
  Area <- MCArea
  Fix <- MCFix
  Areas <- MCAreas
  Enough = 2
  MaxExamples = 2
  NoPage = NoPage
  NoValue = NoValue
  NoArea = NoArea
  NoFix = NoFix
SPECIFICATION AuditSpec
INVARIANTS
  AuditTypeOK
  NothingDropped
  NoFalseNews
  FixesAreIssues
  PassMeansChecked
  NoVerdictWithoutCrawl
