SPECIFICATION Spec
CONSTANTS
  Performances = {p1}
  Users = {u1,u2}
  MaxEntries = 3
  MaxFailures = 1
  KillSwitch = FALSE
INVARIANT ChangesReachEveryone
