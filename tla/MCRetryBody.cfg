SPECIFICATION Spec
CONSTANTS
  Requests = {r1}
  r1 = r1
  MaxAttempts = 3
  TryTimeout = 1
  Timeout = 2
  Ratio = 1000
  Credit = 2
  Second = 1
  Retried <- ShouldRetryDefault
  MaxTime = 3
INVARIANTS
  NoBodyLeaks
CHECK_DEADLOCK FALSE
