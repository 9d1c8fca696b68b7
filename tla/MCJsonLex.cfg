\* Everything outside strings, strings with escapes, and escapes of four digits.
SPECIFICATION Spec
CONSTANTS
  Shapes <- AllShapes
  MaxImage = 2
INVARIANTS
  Recognises
  LongestMatch
  RoundTrip
  UnicodeExact
\* A terminal was returned.
CHECK_DEADLOCK FALSE
