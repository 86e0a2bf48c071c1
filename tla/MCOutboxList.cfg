CONSTANTS
  t1 = t1  t2 = t2  l1 = l1  l2 = l2
  Tasks = {t1}
  Lists = {l1}
  Home <- HomeOne
  Born = {}
  Kinds = {"list_create", "create", "list_update", "list_delete", "extension", "task_extension"}
  MaxOps = 3
  MaxClients = 1
  MaxChosen = 2
  Events = {"discard"}
  MaxCrashes = 1
  StoreFaults = FALSE
SPECIFICATION FairSpec
INVARIANTS OncePerChoice
PROPERTIES QueueDrains
