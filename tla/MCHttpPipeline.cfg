SPECIFICATION FairPipelineSpec
CONSTANTS
  Requests = {r1, r2}
  r1 = r1
  r2 = r2
  MaxAttempts = 2
  TryTimeout = 1
  Timeout = 2
  Ratio = 1000
  Credit = 1
  Second = 2
  Retried <- ShouldRetryDefault
  MaxTime = 3
  MinLimit = 1
  MaxLimit = 2
  OpenTimeout = 1
INVARIANTS
  PipelineTypeOK
  UsableAnswer
  NoBodyForgotten
  NoRetryStorm
  SampledAnswers
PROPERTIES
  RetriesEnd
  Served
  CircuitSpec
CHECK_DEADLOCK FALSE
