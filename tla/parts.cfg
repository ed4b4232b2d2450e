SPECIFICATION MCSpec
CONSTANTS
  Sims <- MCSims
  TopKs <- MCTopKs
  MaxRows = 3
  SourceIds = {"a", "b"}
  MaxRecords = 3
  Keys = {"model", "dim"}
  Values = {1, 2}
  InitialFiles <- MCInitialFiles
  Exports <- MCExports
  LastFile = 2
  MaxStarts = 3
  MaxSwitches = 2
  Listings <- MCListings
  RowLists <- MCRowLists
  NoId = "noId"
  PageSize = 2
  MaxItems = 3
  MaxSiteChanges = 2
  MaxCollections = 2
  Jobs = {1, 2, 3}
  BatchSize = 2
  ExpectedDim = 8
  Dims = {8, 9}
  MaxPending = 3
  People = {"p1", "p2"}
  Stranger = "p3"
  MaxLogins = 2
  Visits = {1, 2}
  MaxVisits = 3
INVARIANTS
  HitsAreBest
  AnswerIsRanked
  KeepsLast
  SchemaFollowsRecord
  OtherLinesSurvive
  SwitchSurvivesRestart
  BronzeIsLastFetch
  ListingIsCovered
  EachItsOwnVector
  
CHECK_DEADLOCK FALSE
