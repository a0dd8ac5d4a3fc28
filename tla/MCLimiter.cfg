SPECIFICATION FairSpec
CONSTANTS
  Clients = {c1, c2}
  Closers = {k1, k2}
  c1 = c1
  c2 = c2
  k1 = k1
  k2 = k2
  Samples = {2, 3}
  GainCycle <- ShortCycle
  HighRTT = 4
  InitialLimits = {1, 3}
  MinLimit = 1
  MaxLimit = 2
  Smoothing = 512
INVARIANTS
  TypeOK
  PermitsBalance
  AverageAboveMin
PROPERTIES
  PermitSpec
  LowestWins
  CloseEnds
  LimitSettles
