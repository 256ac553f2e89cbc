CONSTANTS
  t1 = t1
  t2 = t2
  t3 = t3
  Triggers = {t1, t2, t3}
  MaxTime = 9
  Setups <- MCSetups
SPECIFICATION Spec
INVARIANT BracketsSound
PROPERTY TransitionsForCause
CHECK_DEADLOCK FALSE
