\* Two threads with a local variable each and a heap of three locations with one element
\* each: nesting, sharing and cycles; no symmetry, which liveness checking rules out.
\* With one variable per thread an element is only assigned to an element.
SPECIFICATION Spec
CONSTANTS
  t1 = t1
  t2 = t2
  h1 = h1
  h2 = h2
  h3 = h3
  Threads = {t1, t2}
  Handles = {h1, h3}
  Owner <- MCOwner
  Locs = {l1, l2, l3}
  Slots = {1}
  Pool = pool
  Null = null
  Wild = wild
  AliasedWalk = FALSE
INVARIANTS
  RefExact
  NoDangling
  DeletedOnce
  OnlyCyclesLeak
PROPERTY
  LiteralStays
  CascadeEnds
\* The bounded heap can fill up with leaked cycles: no thread can go on then.
CHECK_DEADLOCK FALSE
