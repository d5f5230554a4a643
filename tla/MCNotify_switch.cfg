SPECIFICATION Spec
CONSTANTS
  Performances = {p1}
  Users = {u1}
  MaxEntries = 3
  MaxFailures = 0
  KillSwitch = TRUE
INVARIANT MarkedMeansMailed
