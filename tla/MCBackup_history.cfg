SPECIFICATION Spec
CONSTANTS
  Retention = 1
  MaxDays = 1
  MaxBackups = 1
  MaxExtras = 1
  MaxFailures = 0
INVARIANTS
  RunsPreserved
