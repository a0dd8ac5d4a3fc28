SPECIFICATION Spec
CONSTANTS
  None = None
  Procs = {p1, p2, p3}
  Windows = {w1, w2, w3, w4}
  p1 = p1
  p2 = p2
  p3 = p3
  w1 = w1
  w2 = w2
  w3 = w3
  w4 = w4
  OpenTimeout = 0
  WindowDuration = 1
  MinRequests = 1
  ErrorThreshold = 512
  MaxTime = 0
  MaxCalls = 6
INVARIANTS
  SingleProbe
SYMMETRY Symmetry
CHECK_DEADLOCK FALSE
