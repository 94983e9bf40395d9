SPECIFICATION Spec
CONSTANTS
  a = a
  s1 = s1
  s2 = s2
  None = None
  Tap <- MCTap
  Stopper <- MCStopper

  
PROPERTIES
  StopInLoopEndsIt
  ImplementsContract
