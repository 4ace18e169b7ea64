SPECIFICATION NetworkSpec
CONSTANTS
  Channels = {"session_1", "cam"}
  PublishEveryFrame = FALSE
  WireLimit = 1
  MaxMoves = 5
  Operators = {"pop1", "pop2"}
  Addresses = {"session_1", "cam"}
  PoolSize = 2
  MaxArrivals = 3
  MaxCooks = 3
  Fields = {"f", "g"}
  Ports = {1, 2}
  SendLimit = 1
  MaxBus = 2
  MaxEdits = 3
  Readable = {"a"}
  Unreadable = {"list"}
  MaxChanges = 5
  MailLimit = 2
  MaxMail = 2
  Readers = {"chop1", "chop2"}
  Servers = {"here", "there"}
  Ids = {"m1"}
  Messages <- ArrivingMessages
  Projects <- OpenedProjects
  MaxMessages = 2
  MaxTurns = 2
  Published = {"boxes", "points"}
  Targets = {1, 2}
  Lengths = {0, 2}
  CloudLimit = 1
  Starting <- SavedOptions
  MaxUpdates = 3
  MaxTroubles = 1
  Endpoints = {"a", "b"}
  MaxSettings = 2
  MaxMeasures = 2
  MaxRestarts = 1
  MaxEntries = 3
  MaxRows = 2
  MaxRecent = 1
  Lifetime = 1
  KeepRuns = 3
  LogTargets = {"app", "op"}
  MaxLogs = 4
  MaxTime = 1
  MaxRuns = 2
  MaxConsoles = 1
  ClusterWorkers = {"w1", "w2"}
  Places = {0, 1, 3}
  Boxes <- BoxLists
  MatchTolerance = 1
  ClusterTimeout = 1
  MaxClusterFrames = 3
  MaxClusterTime = 2
INVARIANTS
  ClustersAreFound
  QuietClientIsCurrent
  OperatorsDrawWholeFrames
  OperatorsStaySubscribed
  QuietSubscriberIsCurrent
  QuietReceiverIsCurrent
  CookedShowsNewest
  DestinationsAreCurrent
  ServerFollowsSettings
  MetricsAddUp
  ConsoleShowsNewest
  RotationKeepsRuns
CHECK_DEADLOCK FALSE
