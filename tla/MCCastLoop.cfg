SPECIFICATION LoopSpec
CONSTANTS
  Users = {u1, u2, u3}
  NPositions = 2
  LoopQuantity = 2
  Omitted = Omitted
SYMMETRY UserSymmetry
INVARIANTS
  LoopRows
  LoopLog
