SPECIFICATION MacSpec
CONSTANTS
  Key <- MCKey
  Chords <- MCChords
  KeycodeKey <- MCKeycodeKey
INVARIANTS
  FlagsReflectDown
  ChordFlags
  GhostOnlyAfterRefusal
