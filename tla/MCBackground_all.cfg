SPECIFICATION Spec
CONSTANTS
  MAX_TRIES = 2
  MaxTroubles <- Troubles
  Mails = {m1, m2}
  MaxRecipients = 2
  MAIL_KILL_SWITCH_THRESHOLD = 2
  MAIL_KILL_SWITCH_PERIOD = 2
  Callers <- Users_
  Strings = {"s"}
INVARIANTS
  MailsSafe
  RunsSafe
  LogsSafe
PROPERTIES
  EveryMailEnds
  SwitchLifts
  LaterRunsMakeUp
