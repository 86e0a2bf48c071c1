SPECIFICATION MCSpec
CONSTANTS
  k1 = k1  r1 = r1  r2 = r2  r3 = r3  p1 = p1  p2 = p2
  Keys = {k1}
  Requests = {r1, r2, r3}
  Remote = {p2}
  Prints = {p1, p2}
  MaxCrashes = 1
  MaxDays = 2
  StoreFaults = TRUE
  t1 = t1
  Tasks = {t1}
  Born = {t1}
  Writes = {"update", "delete"}
  Events = {"hydration_fails", "link_rejected", "phone_deletes", "refused", "discard"}
  MaxEdits = 1
  MaxWrites = 2
  MaxLost = 1
  MaxSyncCrashes = 0
  DayTasks = {1}
  FirstRows <- NoDateYet
  LastDay = 3
  MaxDayAsks = 2
  MaxDayEdits = 1
  MaxDayTrouble = 0
  Patterns <- TwoPatterns
  SDays <- FewDays
  MaxSEvents = 5
  StepTexts <- TwoTexts
  MaxStepCmds = 2
  MaxStepPhone = 2
  MaxStepFaults = 1
  Clients = {"a", "b"}
  Builds <- TwoBuilds
  ServiceBuild = 2
  Commands = {"run", "stop", "restart"}
  Pids = {1, 2, 3}
  MaxStarts = 1
  MaxDaemonTrouble = 1
PROPERTIES TheirDateNeverTaken
CHECK_DEADLOCK FALSE
