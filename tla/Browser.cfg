\* Fifteen parts side by side, each with the bounds its module names.
SPECIFICATION BrowserSpec
CONSTANTS
  PanelProfiles <- PanelsOfBothApps
  MaxEdits = 1
  MaxForeign = 0
  MaxFaults = 0
  MaxReads = 0
  MaxCommands = 1
  MaxLeases = 2
  MaxRenewals = 1
  MaxSamples = 1
  MaxMishaps = 1
  Invites = {"i1", "i2", "i3"}
  KnownInvites = {"i1", "i2"}
  MaxLinks = 2
  MaxTyped = 1
  MaxWriteFaults = 1
  Staff = {"a", "b"}
  RemovalModes = {"standalone", "uninstall"}
  MaxJobs = 2
  MaxLosses = 1
  ProbeNodes = {1, 2}
  MaxWorlds = 1
  MaxRetries = 1
  MaxBreaks = 1
  ProbeTabs = {t1, t2}
  Favourites = {n1, n2}
  MaxChoices = 1
  MaxForeignWrites = 1
  MaxQuota = 1
  Cards = {c1, c2}
  PoolSize = 1
  RetryAttempts = 1
  MaxRequests = 3
  MaxBadAnswers = 2
  ViewProfiles <- AllViews
  Subjects = {"s1", "s2"}
  Ranges = {"r1", "r2"}
  LiveRange = "r1"
  MaxSelects = 2
  MaxVersions = 1
  MaxAsked = 2
  MaxBroken = 1
  Snapshots <- HomeSnapshots
  Searches <- HomeSearches
  MaxHomeEvents = 3
  MaxFeeds = 2
  Carriers = {"CU", "CT"}
  PingSetups <- Setups
  Measurements <- Measured
  BarCount = 3
  BarWidth = 4
  MaxSetups = 1
  MaxReadFaults = 1
  MaxOut = 2
  TransitionKeys = {"a", "b"}
  MaxRenders = 4
  Dialogs = {"d1", "d2"}
  MaxOpens = 3
  MaxMoves = 5
  MaxOptions = 3
  MaxScrolls = 4
  MaxUpdateOrders = 2
  WaitLimit = 2
  MaxOrderFaults = 1
PROPERTIES
  SavesAreShown
  LeaseIsAccountedFor
  RemovalIsOneAndEnds
  FeedIsTheSnapshot
  ChoicesAreHonoured
  HistoryReachesItsCards
  PageShowsItsSelection
  MotionLeavesNothing
  ErrandsEnd
CHECK_DEADLOCK FALSE
