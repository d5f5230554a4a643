SPECIFICATION Spec
CONSTANTS
  MaxSessions <- Sessions_
  MaxSecrets <- Secrets
  MaxResets <- Resets_
  MAX_LOGIN_ATTEMPTS = 5
  LOGIN_THROTTLE_WINDOW = 6
  MaxTokens <- Tokens_
  MaxEdits <- Edits_
  MaxStaff <- Accounts_
  MaxEntries <- Entries_
  MaxBindings = 4
INVARIANTS
  SessionsSafe
  ThrottleSafe
  AddressesSafe
  StaffSafe
  BindingsSafe
  RoutesSafe
PROPERTIES
  PurgeSpares
  LockoutEnds
\* Requests stop when the bounds are used up, and a call when it is answered.
CHECK_DEADLOCK FALSE
