SPECIFICATION Spec
CONSTANTS
  a = a
  b = b
  Session <- MCSession
  Texts <- MCTexts
  Chars <- MCChars
  Calls <- MCCalls
  Lower <- MCLower
  MinKeycode = 1
SYMMETRY Symmetric
INVARIANTS
  DecodesExactly
  MalformedTypesNothing
  TextArrives
  KeyboardAsFound
