CONSTANTS
  t1 = t1  t2 = t2
  Tasks = {t1, t2}
  Born = {t1}
  Writes = {}
  Events = {"fetch_fails", "hydration_fails", "link_rejected", "phone_deletes"}
  MaxEdits = 2
  MaxWrites = 0
  MaxLost = 0
  MaxSyncCrashes = 1
  c1 = c1  c2 = c2  l1 = l1
  Clients = {c1, c2}
  Lists = {l1}
SPECIFICATION MCSpec
INVARIANTS OwnPass
PROPERTIES PassesConverge WaitsEnd
CHECK_DEADLOCK FALSE
