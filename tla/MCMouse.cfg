SPECIFICATION Spec
CONSTANTS
  Left = Left
  Right = Right
  here = here
  there = there
  None = None
  Button <- MCButton
  Point <- MCPoint
  Steps <- MCSteps
  Delta <- MCDelta
SYMMETRY MCSymmetry
INVARIANTS
  NoStuckButton
  DragsArrive
  TrackedButton
PROPERTIES
  ImplementsContract
