CONSTANTS
  c1 = c1
  c2 = c2
  Clients = {c1, c2}
  PassiveSets <- NoneOrFew
  Windows = {0, 1}
  Requests = {"Async", "Sync", "AsyncBoth", "SyncBoth", "Replay", "AsyncOthers"}
  MaxEvents = 2
  MaxGrabs = 2
SPECIFICATION Spec
INVARIANTS FreezesAccounted NothingLost AsyncThaws ReplayGoesDown
CHECK_DEADLOCK FALSE
