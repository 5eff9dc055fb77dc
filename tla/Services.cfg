CONSTANTS
  Events = {e1}
  Workers = {w1, w2}
  NoEvent = NoEvent
  CACHE_INVALIDATION_MAX_ATTEMPTS = 2
  MaxRetries = 1
  MaxCopies = 2
  MaxFaults = 1
  MaxOperator = 1
  Requests = {r1}
  Sweepers = {k1}
  first_response_minutes = 1
  resolution_minutes = 1
  pause_when_waiting_for_user = TRUE
  escalate_on_breach = TRUE
  MaxClock = 2
  MaxClosed = 0
  AdminStatuses = {"draft", "in_progress"}
  Channels = {in_app, email}
  Dispatchers = {web, c1, c2}
  Web = web
  MaxLosses = 1
  Admins = {d1, d2}
  listing_ttl_days = 1
  MaxDays = 3
  Items = {i1, i2}
  Submissions = {s1}
  FullRuns = {f1}
  IncrementalRuns = {n1}
  MAX_UNCHANGED_PAGES = 1
  MaxChanges = 1
  MaxErrors = 1
SPECIFICATION Spec
INVARIANTS
  SucceededWasSettled SentOnceButForLosses
PROPERTIES
  NoEventForgotten OverdueTicketsAreMarked DeliveriesGetResults DueListingsLeave
  CleanRunMirrors
CHECK_DEADLOCK FALSE
