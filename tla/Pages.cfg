\* Eleven parts side by side, each with the bounds its module names.
SPECIFICATION PageSpec
CONSTANTS
  Nodes = {1, 2, 3}
  Ports = {"p", "q"}
  MaxGroup = 2
  MaxHops = 3
  EvidenceProfiles <- EvidencePageProfiles
  Lifetime = 2
  MaxAhead = 1
  MaxTime = 2
  MaxBack = 1
  MaxSaves = 1
  MaxLost = 1
  MaxAsks = 1
  PanelProfiles <- PanelsOfBothApps
  MaxEdits = 2
  MaxForeign = 1
  MaxFaults = 1
  MaxReads = 0
  MaxCommands = 1
  RenewalDays <- SomeDays
  RenewalCycles = {1, 3}
  BillingDays = {31}
  MaxDateEdits = 1
  MaxSamples = 1
  MaxPayments = 1
  CardServers = {1, 2}
  CardCosts <- SomeCosts
  QuoteSets = {{"USD", "EUR", "CNY"}, {"USD", "CNY"}}
  CardTarget = "CNY"
  UnitsPerUSD <- SomeUnits
  FetchLife = 2
  QuoteLife = 2
  MaxCardDays = 2
  MaxClaims = 2
  MaxCardWorlds = 1
  MaxCardFaults = 1
  PingSources = {1, 2}
  GridStep = 10
  GridTimes = {10, 20, 30}
  Buckets <- SomeBuckets
  PingWindows <- SomeWindows
  LoadServers = {1, 2}
  MinuteReports <- SomeReports
  SectionSets <- SomeSections
  TemplateCards <- AllCards
  LoadSpans = {1}
  MaxSpan = 1
  PastMinutes = 2
  MaxMinutes = 3
  MaxLooks = 2
  Fingerprints = {"k1", "k2", "k3"}
  CacheViews = {"v1", "v2"}
  CacheSize = 2
  CacheLife = 1
  MaxCacheTime = 2
  MaxEntries = 4
  MaxDraftEdits = 4
  MaxDraftSaves = 2
  MaxLiveMoves = 1
  MaxLostSaves = 1
  GroupNames = {"a", "b", "c"}
  DesignPresets <- SomePresets
  MaxGroups = 3
  MaxDesignSteps = 2
  MaxRuleVersions = 2
  ReviewProfiles <- ReviewPageProfiles
  MaxProposals = 3
  MaxWorlds = 2
  MaxReviews = 3
  MaxLostCommits = 1
  MaxRecords = 2
INVARIANTS
  StepsKeepTheLine
  EditsSurvive
  CurrentIsCurrent
  DrawnIsMeasured
PROPERTIES
  SavesAreSafe
  ReviewedIsDone
  RenewalsKeepTheCalendar
  DraftsKeepTheirMeaning
  CardsTellTheTruth
CHECK_DEADLOCK FALSE
