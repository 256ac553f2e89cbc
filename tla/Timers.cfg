CONSTANTS
  t1 = t1
  t2 = t2
  Nobody = Nobody
  Awake = Awake
  Forever = Forever
  Timers = {t1, t2}
  Word = 20
  Margin = 2
  Delays <- OneDelay
  Offsets <- OneOffset
  Jumps <- SmallJumps
  MaxLate = 2
  MaxDepth = 3
  MaxSets = 2
SPECIFICATION FairSpec
INVARIANTS TimerListSound
PROPERTIES NeverEarly TimersRun
CHECK_DEADLOCK FALSE
