SPECIFICATION FairSpec
CONSTANTS
  Clients = {c1}
  Closers = {}
  c1 = c1
  Samples = {4}
  GainCycle <- DefaultCycle
  HighRTT = 9
  InitialLimits = {4}
  MinLimit = 1
  MaxLimit = 5
  Smoothing = 205
PROPERTIES
  Probes
