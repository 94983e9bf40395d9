SPECIFICATION Spec
CONSTANTS
  s1 = s1
  s2 = s2
  Sink = Sink
  Stopper <- MCStopper
INVARIANTS
  RunningImpliesInStart
PROPERTIES
  ImplementsContract
  StopInLoopEndsIt
  DisabledTapRecovers
