CONSTANTS
  Senders = {s1, s2}
  Verifiers = {v1, v2}
  MaxOtps = 2
  AUTH_OTP_MAX_ATTEMPTS = 1
  MaxFlushes = 1
  MaxRolledBack = 0
SPECIFICATION OtpSpec
SYMMETRY RequestSymmetry
INVARIANTS CodeUsedOnce OneCodeInForce AttemptsCounted SendsAreSpaced
CHECK_DEADLOCK FALSE
