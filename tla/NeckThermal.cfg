SPECIFICATION Spec
CONSTANTS
  None = None
  Motor = {m1, m2}
  Temp = {40, 55, 56, 61, 62}
  Warm = 55
  Hot = 62
  Cool = 55
  Interval = 1
  Stale = 10
INVARIANT Safety
PROPERTY LockKept
