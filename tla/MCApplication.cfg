SPECIFICATION PartsSpec
CONSTANTS
  Parts = {"refinement", "snapshots", "session", "trip", "view", "forecasts", "samples",
           "archive", "days", "catalog", "ranking"}
  Requests = {1, 2, 3, 4}
  Clients = {"c1", "c2"}
  MaxConcurrent = 2
  Burst = 2
  Retention = 2
  MaxClients = 1
  LastTick = 2
  Fingerprints = {"p1", "p2", "p3"}
  Size <- SnapshotSize
  Material <- MaterialTopics
  TopicOrder <- FallbackOrder
  MaxEntries = 2
  MaxReplayStates = 3
  MaxWeatherRows = 3
  Lifetime = 2
  AskBudget = 1
  Askers = {"q1"}
  EndOfTime = 3
  MaxRankings = 3
  MaxQuestions = 2
  Factors = {"terrain", "price"}
  Family = {"terrain", "price"}
  Topics = {"pass", "value"}
  Target <- TopicTarget
  Briefs = {"b0", "b1"}
  NoBrief = "b0"
  Filters = {"x1", "bad"}
  Unusable = "bad"
  MaxAsks = 5
  MaxSearches = 3
  MaxEdits = 1
  TripRequests = {"q1"}
  TripAreas = {"a1"}
  Values = {"v1", "v2"}
  FreshFor = 1
  LastTime = 5
  Trips = {"t1", "t2"}
  NoTrip = "none"
  MaxRequests = 4
  Areas = {"a1", "a2"}
  BatchSize = 2
  Refreshers = {"r1"}
  CyclesPerDay = 2
  DaysPerWeek = 2
  RecentAge = 0
  DailyAge = 2
  WeeklyAge = 6
  TerminalAge = 1
  LastCycle = 5
  MaxRuns = 3
  SkiAreas = {"a"}
  Bands = {"base", "mid"}
  Days = {"d1", "d2"}
  LastYear = 2
  RecentFrom = 2
  RetryAttempts = 1
  MaxProviderRequests = 3
  MaxJobs = 2
  Catalogs = {"base", "moved", "renamed", "broken"}
  Catalog <- SmallCatalogs
  Jobs = {"j1"}
  Pages = {"q1", "q2"}
  MaxSyncs = 3
  MaxReads = 3
  Policy <- ShippedPolicy
  Registry <- ShippedTopics
  Catalogues <- SmallFacts
  Starts <- SomeStarts
  MaxOptions = 4
  Rounds = 2
INVARIANTS RefinementSafe SnapshotSafe SessionSafe TripSafe ViewIsStored
  ForecastSafe CompletionIsTrue CatalogSafe RankingSafe
CHECK_DEADLOCK FALSE
