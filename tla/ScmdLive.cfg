CONSTANTS
  w1 = w1
  w2 = w2
  p1 = p1
  p2 = p2
  f1 = f1
  Windows = {w1}
  Pixmaps = {p1}
  Fences = {f1}
  Root = Root
  Screen = Screen
  NoWin = NoWin
  NoPix = NoPix
  NoFence = NoFence
  MaxReq = 3
  MaxMsc = 2
  MaxCalls = 2
  Targets = {0}
  Moduli <- EvenFrames
  Options <- PlainOrCopy
  Flippable = {p1}
  AsyncCap = TRUE
  Refusable = {}
  Movable = {}
  Mortal = {}
  Resettable = {}
SPECIFICATION FairSpec
INVARIANTS ShownInTurn RootDrawsToScanout
PROPERTY EveryRequestCompletes
CHECK_DEADLOCK FALSE
