SPECIFICATION LinuxSpec
CONSTANTS
  Key <- MCKey
  Chords <- MCChords
  Layout <- MCLayout
  EvdevKey <- MCEvdevKey
INVARIANTS
  StuckKeyWasRefused
  OkMeansReported
  ChordPositions
