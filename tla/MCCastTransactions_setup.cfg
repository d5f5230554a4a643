SPECIFICATION Spec
CONSTANTS
  u1 = u1
  u2 = u2
  Users = {u1, u2}
  NPositions = 2
  Tx = {t1, t2}
  Initial = Initial
  Work <- SaveAndUpdate
INVARIANT BookedOnSetup
