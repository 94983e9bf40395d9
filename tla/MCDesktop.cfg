SPECIFICATION Spec
CONSTANTS
  Unit <- MCUnit
  Desks <- MCDesks
  Regions <- MCRegions
  Points <- MCPoints
  Calls <- MCCalls
  Replugs <- MCReplugs
INVARIANTS
  FalseFlagFails
  RequiredDelivers
  KnownIdCaptures
  CaptureExact
  PrimaryAgrees
  WarpLands
  RecordedReplays
