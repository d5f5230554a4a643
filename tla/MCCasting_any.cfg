SPECIFICATION Spec
CONSTANTS
  Users = {u1, u2}
  NPositions = 2
  MaxQuantity = 2
  QualificationSets <- FirstOrNone
SYMMETRY UserSymmetry
INVARIANTS
  BookingsConsistent
  RequestsConsistent
  BookEntryHonest
