CONSTANTS
  t1 = t1  t2 = t2  l1 = l1  l2 = l2
  Tasks = {t1}
  Lists = {l1}
  Home <- HomeOne
  Born = {l1}
  Kinds = {"create", "delete"}
  MaxOps = 2
  MaxClients = 2
  MaxChosen = 2
  Events = {"retry", "discard", "prune", "phone"}
  MaxCrashes = 1
  StoreFaults = TRUE
SPECIFICATION Spec
INVARIANTS DoneIsMade
