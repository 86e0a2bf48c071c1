SPECIFICATION Spec
CONSTANTS
  NTasks = 2
  Clients = {c1}
  Asks <- AllAsks
  Edits <- PhoneDoes
  MaxCommands = 3
  MaxSteps = 2
  MaxTrouble = 1
INVARIANTS UndoRestores
PROPERTIES UndoKeepsLater
CHECK_DEADLOCK FALSE
