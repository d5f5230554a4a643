SPECIFICATION Spec
CONSTANTS
  Retention = 1
  MaxDays = 2
  MaxBackups = 2
  MaxExtras = 1
  MaxFailures = 1
INVARIANTS
  UndisturbedIsWhole
  ShownAndBroughtIsTrue
PROPERTIES
  BackupStays
  StageRecovers
