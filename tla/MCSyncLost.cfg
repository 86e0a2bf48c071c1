CONSTANTS
  Tasks = {t1}
  Born = {t1}
  Writes = {"update"}
  Events = {}
  MaxEdits = 1
  MaxWrites = 1
  MaxLost = 0
  MaxSyncCrashes = 0
SPECIFICATION SyncFairSpec
PROPERTY Converges
