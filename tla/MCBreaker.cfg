SPECIFICATION FairSpec
CONSTANTS
  None = None
  Procs = {p1, p2}
  Windows = {w1, w2, w3}
  p1 = p1
  p2 = p2
  w1 = w1
  w2 = w2
  w3 = w3
  OpenTimeout = 1
  WindowDuration = 1
  MinRequests = 1
  ErrorThreshold = 512
  MaxTime = 2
  MaxCalls = 5
INVARIANTS
  TypeOK
  InFlightIffHalfOpen
  HalfOpenHasProbe
  FailuresHaveRequests
PROPERTIES
  
  OpenEvidence
  MachineSpec
  CallsReturn
CHECK_DEADLOCK FALSE
