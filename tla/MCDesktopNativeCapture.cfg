SPECIFICATION Spec
CONSTANTS
  Unit <- MCUnit
  Desks <- MCDesks
  Regions <- MCRegions
  Points <- MCPoints
  Calls <- MCCalls
  Replugs <- MCReplugs
INVARIANT
  NativeCapture
