CONSTANTS
  w1 = w1
  w2 = w2
  p1 = p1
  p2 = p2
  f1 = f1
  Windows = {w1}
  Pixmaps = {p1}
  Fences = {}
  Root = Root
  Screen = Screen
  NoWin = NoWin
  NoPix = NoPix
  NoFence = NoFence
  MaxReq = 3
  MaxMsc = 2
  MaxCalls = 2
  Targets = {0}
  Moduli <- NoModulus
  Options <- PlainOrPartial
  Flippable = {p1}
  AsyncCap = TRUE
  Refusable = {}
  Movable = {w1}
  Mortal = {}
  Resettable = {}
SPECIFICATION FairSpec
PROPERTY ReadyFlipIsRetried
CHECK_DEADLOCK FALSE
