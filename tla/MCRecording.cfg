SPECIFICATION Spec
CONSTANTS
  Shift = Shift
  Left = Left
  here = here
  there = there
  Key <- MCKey
  ModifierKey <- MCKey
  Button <- MCButton
  Point <- MCPoint
  Event <- MCEvent
  Options <- MCOptions
  Tick = 1
  MaxEvents = 2
  MaxTime = 1
INVARIANTS
  StampsFromZero
  Pace
  RecordedTruth
  Reproduces
