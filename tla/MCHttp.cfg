\* Two kept-alive connections, uploads of up to two pieces, a callback that may throw; no
\* symmetry, which liveness checking rules out.
SPECIFICATION LiveSpec
CONSTANTS
  Conns = {c1, c2}
  Objs = {o1, o2}
  Null = null
  MaxPieces = 2
  MayThrow = TRUE
INVARIANTS
  ObjectPerRequest
  UserDataOwned
  UploadExact
  RethrowsLast
PROPERTY
  RequestEnds
\* The server can be destroyed: the program then stops.
CHECK_DEADLOCK FALSE
