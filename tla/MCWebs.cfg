\* Two websockets served in the same calls by a delegate that may throw.
SPECIFICATION Spec
CONSTANTS
  Conns = {c1, c2}
  Objs = {o1, o2}
  Fds = {f1, f2}
  Null = null
  MaxFrames = 2
  MaxChunks = 2
SYMMETRY Symmetric
INVARIANTS
  NoFault
  ObjectPerConnection
  ViewAgrees
  PollSetExact
PROPERTY
  DelegateSpec
\* The context can be destroyed: the program then stops.
CHECK_DEADLOCK FALSE
