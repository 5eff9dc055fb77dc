SPECIFICATION Spec
CONSTANTS
  Participations = {p1, p2}
  Fundings = {f1}
  MAXIMUM_TOTAL_SHARES = 2
  TotalShares = 2
  WebThreads = 2
  Answers = {"verified", "unreachable", "mismatch"}
SYMMETRY RowSymmetry
INVARIANTS
  CountersExact
  FundedWithinTotal
  PendingPaymentHoldsReservation
  LedgerExplainsPayment
PROPERTY ImplementsCapacity
CHECK_DEADLOCK FALSE
