CONSTANTS
  d1 = d1
  d2 = d2
  Devices = {d1, d2}
  Times = {0}
  InitialSize = 2
  Sizes = {2, 4, 8}
  Word = 256
  Margin = 10000
  MaxEvents = 6
  MaxSize = 4
  NoDevice = NoDevice
  NoEvent = NoEvent
SPECIFICATION Spec
INVARIANT LastMotionTrue
PROPERTIES ImplementsStream
CHECK_DEADLOCK FALSE
