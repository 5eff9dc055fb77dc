SPECIFICATION Spec
CONSTANTS
  Participations = {p1}
  Fundings = {}
  MAXIMUM_TOTAL_SHARES = 1
  TotalShares = 1
  WebThreads = 1
  Answers = {"verified"}
INVARIANT ExpiredIsUnpaid
CHECK_DEADLOCK FALSE
