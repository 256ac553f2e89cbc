CONSTANTS
  Setups <- FlipOrWrap
  FirstEvent = 2
  LastEvent = 4
  Word = 8
  Quarter = 2
  Long = 32
  Passed = 4
  MaxUnseen = 2
  Flipping = TRUE
  PartialRefusals = FALSE
  Space = 3
SPECIFICATION Spec
INVARIANTS MscExact FramebuffersKept NobodyForgotten
PROPERTY ToldOnceInTime
CHECK_DEADLOCK FALSE
