SPECIFICATION Spec
CONSTANTS
  Callers = {c1}
  Decayers = {d1}
  c1 = c1
  d1 = d1
  Ratio = 1000
  MaxRecorded = 2
  MaxDecays = 1
INVARIANTS
  RetriesWithinRatio
