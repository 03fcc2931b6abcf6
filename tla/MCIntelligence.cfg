SPECIFICATION IntelligenceSpec
CONSTANTS
  \* VulnScan
  Addresses <- ThePages
  HostOf <- HostOfEach
  Base = "home"
  InScope = {"site"}
  Sites <- TheSites
  Telling = {"url"}
  MaxDepth = 1
  MaxPages = 3
  Tries = 2
  Headers = {"Referer"}
  GraphqlPaths = {"gql"}
  Names = {"", "id", "cat", "card", "url", "n", "u", "q", "Referer"}
  NoTrial = NoTrial
  \* ThreatSharing
  Sharers = {s1, s2}
  Indicators = {"ip1", "paste1", "free text"}
  WellFormed = {"ip1", "paste1"}
  TooLong = {"paste1"}
  Events <- TheEvents
  Leaks <- TheLeaks
  Kev <- TheKev
  PerSource = 1
  MaxShares = 2
  NoUrl = NoUrl
  \* ThreatFeed
  Feeders = {f1, f2}
  PageCount <- ThePageCount
  Limits = {1, 2}
  CacheTtl = 2
  MaxTick = 2
  MaxLocal = 1
  NotCached = NotCached
  \* ThreatMap
  Mappers = {r1, r2}
  MapAddresses = {a1, a2}
  Countries = {x, y}
  GeoTtl = 2
  MaxMapTick = 2
  \* IocCorrelation
  Feeds <- TheFeeds
  Actors = {"APT28", "Turla"}
  HighRisk = {"APT28"}
  KnownIocs = {1, 5}
  MaxRelations = 3
  Correlators = {r1, r2}
  NoActor = "-"
  NoNet = "-"
  \* OsintEntities
  Findings <- TheSightings
  SourceOrder <- TheSources
  \* RiskScores
  Facts <- TheFacts
  Most <- TheMost
INVARIANTS IntelligenceTypeOK ReportsAreHonest ClustersAreHonest
PROPERTY MoreEvidenceNeverLowers
CHECK_DEADLOCK FALSE
