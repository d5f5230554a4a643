SPECIFICATION Spec
CONSTANTS
  Parents = {p1, p2}
  Rows = {r1, r2, r3}
  Null = Null
INVARIANTS
  ChainServes
  RefusedForCause
PROPERTIES
  UnmovedKept
CHECK_DEADLOCK FALSE
