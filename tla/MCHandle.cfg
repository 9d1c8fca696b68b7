\* Any program with three objects that opens two things under three handles.
SPECIFICATION Spec
CONSTANTS
  Objs = {o1, o2, o3}
  MaxHandle = 2
  MaxOpens = 2
  MaxWatch = 1
  Events = {1, 4}
SYMMETRY Symmetric
INVARIANTS
  ReachesOwn
  OneOwner
  PollAsAsked
CHECK_DEADLOCK FALSE
