\* Identifiers are given out again at once, every call is made on every object, and handlers run.
SPECIFICATION Spec
CONSTANTS
  Objs = {o1, o2, o3}
  Pids <- MCPids
  MaxForks = 3
  Hasty = TRUE
  Signals = TRUE
SYMMETRY Symmetric
INVARIANTS
  KillsOwn
  NoOrphan
  StatusOwn
\* The program may stop starting children.
CHECK_DEADLOCK FALSE
