SPECIFICATION MCSpec
CONSTANTS
  Lines <- MCLines
  NameOf <- MCNameOf
  NameStarts <- MCPrefixes
  Categories = {"x"}
  CliFlags <- MCFlags
  Views = {"list", "planned", "important", "my_day", "someday", "all"}
  ModeTasks <- Two
  Hands <- AllHands
  MaxRereads = 1
  MaxAsked = 2
  MaxRecent = 1
  Callers = {"daemon", "cli"}
  MaxRetries = 1
  MaxTokens = 3
  MaxTroubles = 2
  CliPaths = {1, 2}
  MaxPrefs = 2
  MaxRetryKeys = 2
  MaxDaemonMoves = 1
  MaxPresses = 3
  MaxCliTrouble = 1
  MaxElsewhere = 1
  InboxTasks = 2
  Typed = {"x", "y"}
  QuietTicks = 2
  MaxSessions = 2
  MaxTyping = 3
  MaxLostAnswers = 1
INVARIANTS OneReading SuggestionFits NamedIsSent RunAtMostOnce FreshAfterOwn NeverStuck
PROPERTIES UserSignsInAndOut
CHECK_DEADLOCK FALSE
