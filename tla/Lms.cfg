CONSTANTS
  Lessons = {1, 2}
  Documents = {2}
  Articles = {}
  duration_seconds = 2
  max_attempts = 2
  is_required_for_certificate = TRUE
  Starters = {s1, s2}
  MaxUnlocks = 1
  MaxEdits = 1
  Users = {u1, u2}
  MaxAnswers = 3
  MaxRequests = 3
  DiscussionStatus = {"visible", "hidden"}
  Renderers = {t1, t2}
  MaxPages = 2
  MaxDocs = 2
  MaxFaults = 1
SPECIFICATION Spec
SYMMETRY LmsSymmetry
INVARIANTS
  AttemptsWithinAllowance PassesAreAwarded OneAcceptedAnswer FreshManifestIsComplete
PROPERTY
  VisibleAnswersSurvive
CHECK_DEADLOCK FALSE
