SPECIFICATION Spec
CONSTANTS
  Calls = {c1, c2}
  Upstreams = {u1, u2}
  MaxAttempts = 3
  BackoffBase = 1
  MaxBackoff = 1
  MaxRetryAfter = 2
  RetryAfters = {2, 3}
  FailureThreshold = 2
  ResetSeconds = 1
INVARIANTS TypeOK OpenOnOwnFailures SleepBounded
PROPERTIES BreakersImplemented CallsEnd
