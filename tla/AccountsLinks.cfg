SPECIFICATION Spec
CONSTANTS
  Requests = {r1, r2}
  Emails = {e}
  LinkIds = {l1, l2, l3}
  NoUser = NoUser
  NoLink = NoLink
  LinkLife = 2
  SessionLife = 2
  TicksPerSecond = 2
  MaxTime = 3
  MaxPasswords = 2
  MaxSessions = 2
SYMMETRY AccountsSymmetry
INVARIANTS
  LinkSettledOnce SessionsAreProven ResetEndsSessions
PROPERTIES
  PasswordChangesByLink
CHECK_DEADLOCK FALSE
