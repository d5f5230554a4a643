SPECIFICATION Spec
CONSTANTS
  MaxRows <- Rows
  MaxRefs <- Refs
  MaxHits <- Hits
INVARIANTS
  ChecksHold
  ClicksCounted
PROPERTIES
  DeletionTakesParts
  MovesByOne
\* The bound on the rows created ends a behaviour whose rows are all deleted.
CHECK_DEADLOCK FALSE
