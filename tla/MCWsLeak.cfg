SPECIFICATION Spec
CONSTANTS
  Requests = {r1, r2}
  r1 = r1
  r2 = r2
  None = None
  MaxAttempts = 2
SYMMETRY Symmetry
INVARIANT OthersClosed
CHECK_DEADLOCK FALSE
