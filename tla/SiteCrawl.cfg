\* Two crawls, each on the application's settings or on a copy of them.
CONSTANTS
  Crawls = {c1, c2}
  Names <- MCNames
  Urls <- MCUrls
  Norm <- MCNorm
  Home = "home"
  External = {"out"}
  Robots <- MCRobots
  OverviewLike = {"terms"}
  ProductLike = {"p1", "p2", "p3"}
  Listings = {"list"}
  PathKey <- MCPathKey
  Links <- MCLinks
  Sitemaps <- MCSitemaps
  Counts = {1}
  Default = 4
  Requested = 2
  HardMax = 6
  MaxDepth = 2
  CategoryCap = 2
  BudgetFloor = 3
  Overhead = 1
  PriorityFloor = 1
  NoKey = NoKey
  NoCount = NoCount
SPECIFICATION Spec
INVARIANTS
  FetchedOnce
  NothingForgotten
  CutWhenFull
  PageCap
