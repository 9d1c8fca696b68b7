\* The socket accept_nonblock() returns when nobody waits.
SPECIFICATION Spec
CONSTANTS
  Objs = {o1, o2}
  MaxHandle = 2
  MaxOpens = 2
  MaxWatch = 0
  Events = {}
INVARIANTS
  EmptyIsEmpty
CHECK_DEADLOCK FALSE
