CONSTANTS
  x = x
  y = y
  c1 = c1
  c2 = c2
  f1 = f1
  f2 = f2
  al1 = al1
  Clients = {x, y}
  Counters = {c1, c2}
  Fences = {f1, f2}
  Alarms = {al1}
  Owner <- MCOwner
  NoObj = NoObj
  NoClient = NoClient
  MinInt <- Lowest
  MaxInt <- Highest
  Values <- Few
  Steps <- UpDown
  Waits <- TwoAwaits
  FenceWaits <- TwoFences
  NewAlarms <- TwoAlarms
  Changes <- TwoChanges
SPECIFICATION Spec
INVARIANTS BlockedForAReason ListsExact AlarmsStepped
PROPERTIES WokenAndTold
CHECK_DEADLOCK FALSE
