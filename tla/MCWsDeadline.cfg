SPECIFICATION FairSpec
CONSTANTS
  Requests = {r1, r2}
  r1 = r1
  r2 = r2
  None = None
  MaxAttempts = 2
PROPERTY ReadsEnd
CHECK_DEADLOCK FALSE
