SPECIFICATION DisjointSpec
CONSTANTS
  Users = {u1, u2, u3}
  NPositions = 2
  MaxQuantity = 2
  QualificationSets <- FirstOnly
SYMMETRY UserSymmetry
INVARIANT LogTellsRegular
