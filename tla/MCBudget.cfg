SPECIFICATION FairSpec
CONSTANTS
  Callers = {c1, c2}
  Decayers = {d1, d2}
  c1 = c1
  c2 = c2
  d1 = d1
  d2 = d2
  Ratio = 1000
  MaxRecorded = 3
  MaxDecays = 2
INVARIANTS
  TypeOK
  RetriesBounded
PROPERTIES
  GrantWithinBudget
  NoLostUpdate
  CallsReturn
