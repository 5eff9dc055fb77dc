CONSTANTS
  Sessions = {a, b}
  Logins = {l}
  TokenRequests = {q}
  Operations = {o1, o2}
  MaxPasswords = 1
  NoSession = NoSession
SPECIFICATION SessionSpec
INVARIANTS OldPasswordSessionsEnd RefusalsAreTrue
PROPERTY RevocationTakesHold
CHECK_DEADLOCK FALSE
