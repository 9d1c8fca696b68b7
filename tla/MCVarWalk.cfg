\* v = v[i] and v.has_key(k,v), the variable walked being the last holder.
SPECIFICATION Spec
CONSTANTS
  t1 = t1
  t2 = t2
  h1 = h1
  h2 = h2
  h3 = h3
  Threads = {t1, t2}
  Handles = {h1, h2, h3}
  Owner <- MCOwner
  Locs = {l1, l2, l3}
  Slots = {1}
  Pool = pool
  Null = null
  Wild = wild
  AliasedWalk = TRUE
INVARIANT
  SourceStable
CHECK_DEADLOCK FALSE
