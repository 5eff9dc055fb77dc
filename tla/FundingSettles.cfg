SPECIFICATION FairSpec
CONSTANTS
  Participations = {p1, p2}
  Fundings = {}
  MAXIMUM_TOTAL_SHARES = 2
  TotalShares = 2
  WebThreads = 2
  Answers = {"verified", "declined"}
PROPERTIES SettledPaymentFinal ReservationsSettle
CHECK_DEADLOCK FALSE
