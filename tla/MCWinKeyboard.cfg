SPECIFICATION WinSpec
CONSTANTS
  Key <- MCKey
  Chords <- MCChords
  ScanCodeKey <- MCScanCodeKey
INVARIANTS
  NoStuckKey
  ChordComplete
  NestedChord
PROPERTIES
  OkMeansReleased
  ImplementsContract
  CallReturns
