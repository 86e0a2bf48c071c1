SPECIFICATION MCSpec
CONSTANTS
  f1 = f1
  Files = {f1}
  Events = {"lost", "rejected", "temporary", "store", "stop", "spool", "edit_copy", "delete", "delete_list", "discard"}
  MaxCopies = 2
  MaxEdits = 1
  MaxTouches = 1
  MaxFaults = 2
  MaxChoices = 1
  Setups <- SomeSetups
  NagTasks <- TwoTasks
  Minutes <- AskedMinutes
  NagMin = 2
  NagMax = 2
  Reminders <- Times
  DayLength = 5
  QuietFrom = 3
  QuietUntil = 1
  NagEnd = 3
  MaxEvents = 2
  Texts <- TwoTasks
  Searches <- OneSearch
  BatchSize = 1
  MaxTexts = 2
  MaxModels = 2
  MaxHitches = 1
INVARIANTS NeverLost IndexedAtRest
PROPERTIES Refines OwedGetsShown
CHECK_DEADLOCK FALSE
