CONSTANTS
  d1 = d1
  d2 = d2
  Devices = {d1, d2}
  NoDevice = NoDevice
  PipeSize = 9
  MaxEvents = 2
  MaxChanges = 5
SPECIFICATION FairSpec
INVARIANTS NoDanglingDevice DevicesServed
PROPERTIES NothingWaits ShutdownEnds
CHECK_DEADLOCK FALSE
