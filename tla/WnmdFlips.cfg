CONSTANTS
  p1 = p1
  p3 = p3
  NoPix = NoPix
  Pixmaps = {p1, p3}
  Sizes = {1, 2}
  SizeOf <- Mixed
  Options <- Various
  Targets = {0, 3}
  Repeats = FALSE
  Events = {"resize", "unmap", "damage", "destroy"}
  MaxReq = 3
  MaxMsc = 5
  LastRequest = 2
SPECIFICATION FairSpec
INVARIANTS FlipsAccounted ToldOnceInTime NoDanglingEvent
PROPERTIES EveryRequestCompletes
CHECK_DEADLOCK FALSE
