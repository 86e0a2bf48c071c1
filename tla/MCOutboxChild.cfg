CONSTANTS
  t1 = t1  t2 = t2  l1 = l1  l2 = l2
  Tasks = {t1}
  Lists = {l1}
  Home <- HomeOne
  Born = {t1, l1}
  Kinds = {"update", "child_create", "child_change", "delete"}
  MaxOps = 3
  MaxClients = 1
  MaxChosen = 2
  Events = {"discard"}
  MaxCrashes = 0
  StoreFaults = FALSE
SPECIFICATION Spec
INVARIANTS WaitersAlive BuiltOnDone InQueueOrder
