\* Every schema with every two values, one after the other.
SPECIFICATION Spec
CONSTANTS
  Words <- MCWords
  Schemas <- MCSchemas
  Values <- MCValues
  Matching <- MCMatching
  BadRegex <- MCBad
  Depth = 5
  MaxDepth = 9
  MaxCalls = 2
INVARIANTS
  Verdict
  AskedAgain
  OrderTotal
\* The calls are bounded, and a dead process does nothing.
CHECK_DEADLOCK FALSE
