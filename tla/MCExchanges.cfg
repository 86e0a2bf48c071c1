SPECIFICATION Spec
CONSTANTS
  Clients = {"a", "b"}
  Builds <- TwoBuilds
  ServiceBuild = 2
  Commands = {"run", "stop", "restart"}
  Pids = {1, 2, 3}
  MaxStarts = 0
  MaxDaemonTrouble = 1
  Peers = {"tui", "cli"}
  Subscribers = {"tui"}
  Room = 1
  Backlog = 1
  MaxAsks = 1
  MaxPasses = 1
  MaxBreaks = 1
  Urls = 3
  BatchLimit = 2
  StepRetries = 2
  MaxPages = 2
  PageCounts = {1, 2, 3}
  ChunkCounts = {0, 2}
  MaxResends = 2
  MaxSessions = 5
  MaxChoices = 2
  MaxMishaps = 3
  report = report
  Files = {"notes"}
  Given = {report}
  MaxWrites = 3
  Limit = 1
  MaxEdits = 2
  MaxTroubles = 1
  Lifetime = 12
  FirstInterval = 1
  SlowDownStep = 2
  MaxFailures = 3
  TestLists = {1}
  TestTasks = {2}
  Recurring = {2}
  FirstNew = 3
  Names = {"Home"}
  PageSize = 1
  MaxRequests = 2
  MaxRounds = 2
  MaxFaults = 1
INVARIANTS NothingMissed AttachedOncePerChoice BytesTrue PatientSignIn DoubleTrue
PROPERTY ExchangesEnd
CHECK_DEADLOCK FALSE
