SPECIFICATION Spec
CONSTANTS
  Parents = {p1, p2}
  Rows = {r1, r2}
  Null = Null
PROPERTIES ReferencesKept
CHECK_DEADLOCK FALSE
