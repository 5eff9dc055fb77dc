SPECIFICATION ApiSpec
CONSTANTS
  Participations = {p1}
  Fundings = {f1}
  MAXIMUM_TOTAL_SHARES = 2
  TotalShares = 2
  WebThreads = 1
  Answers = {"verified", "declined"}
  TotalAmount = 6
  ShareTotals = {1, 2}
  MaxEdits = 1
INVARIANT CountersExact
CHECK_DEADLOCK FALSE
