CONSTANTS
  Payments = {p1}
  Refunds = {r1, r2}
  Adjustments = {a1}
  Disbursements = {o1, o2}
  Keys = {i1}
  MaxAmount = 2
  NoRow = NoRow
  Requests = {q1, q2}
  Sweepers = {}
  first_response_minutes = 1
  resolution_minutes = 1
  pause_when_waiting_for_user = TRUE
  escalate_on_breach = TRUE
  AdminStatuses = {}
  MaxClock = 1
  MaxClosed = 1
  DayLength = 6
  WeekLength = 3
  active_weekdays = {0, 2}
  MaxMinutes = 4
  StartDays = 2
  HolidayDays = 4
  LastDay = 9
  Viewers = {v1}
  Beacons = {b1, b2}
  keep_windows = 1
  MaxWindow = 2
  MaxDrops = 1
  MaxDegraded = 1
  Readers = {g1, g2}
  Writers = {w1}
  MaxData = 2
  MaxTicks = 2
  MaxEvictions = 1
  Domains = {d1, d2}
  MaxSteps = 4
SPECIFICATION Spec
INVARIANTS
  RefundsWithinPayment NetAmountExact DisbursedWithinIncome
  DueMovesWithPauses DueAfterTheMinutes CountedOncePerWindow
  InvalidationHidesOldPayloads InvalidatesItsOwnChanges
CHECK_DEADLOCK FALSE
