SPECIFICATION HangSpec
CONSTANTS
  Requests = {r1, r2}
  States = {s1}
  r1 = r1
  r2 = r2
  s1 = s1
  None = None
  Outcomes = {"ok", "failed"}
  MaxAttempts = 3
INVARIANTS
  TypeOK
  OwnResult
  PooledClean
  CountsUsers
  NothingLeaks
PROPERTIES
  RaceSpec
  AnsweredDespiteHangs
CHECK_DEADLOCK FALSE
