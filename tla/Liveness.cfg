SPECIFICATION FairSpec
CONSTANTS
  t1 = t1  t2 = t2
  p1 = p1  p2 = p2
  i1 = i1  i2 = i2
  a = a  b = b
  App = App
  None = None
PROPERTIES EveryCallEnds HeldLegIsStopped DirectedIsAnswered
CHECK_DEADLOCK FALSE
