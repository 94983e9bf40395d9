SPECIFICATION Spec
CONSTANTS
  a = a
  b = b
  t1 = t1
  t2 = t2
  s1 = s1
  None = None
  Tap <- MCTap
  Thread <- MCThread
  Stopper <- MCStopper
  MaxQuits = 2
INVARIANTS
  ActiveNamesRunner
PROPERTIES
  StopInLoopEndsIt
