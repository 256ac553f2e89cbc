CONSTANTS
  w1 = w1
  w2 = w2
  p1 = p1
  p2 = p2
  f1 = f1
  Windows = {w1, w2}
  Pixmaps = {p1}
  Fences = {f1}
  Root = Root
  Screen = Screen
  NoWin = NoWin
  NoPix = NoPix
  NoFence = NoFence
  MaxReq = 2
  MaxMsc = 2
  MaxCalls = 2
  Targets = {0}
  Moduli <- NoModulus
  Options <- PlainOrAsync
  Flippable = {p1}
  AsyncCap = TRUE
  Refusable = {"flip"}
  Movable = {w1, w2}
  Mortal = {w1, w2, f1}
  Resettable = {f1}
SPECIFICATION Spec
INVARIANTS NoAssertionFails ScreenMatchesHardware RefsExact NoDanglingRenderTarget BuffersComeBack ShownInTurn
PROPERTY ImplementsRequests
CHECK_DEADLOCK FALSE
