\* Messages up to twice the buffer, a queue of one and two signals.
SPECIFICATION Spec
CONSTANTS
  Clients = {c1, c2}
  Lengths = {0, 1, 3, 4}
  Buf = 2
  UdpMax = 4
  Queue = 1
  Finisher = c2
  MaxSignals = 2
INVARIANTS
  EchoExact
PROPERTIES
  ServesAll
  TermEnds
CHECK_DEADLOCK FALSE
