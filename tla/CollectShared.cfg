SPECIFICATION Spec
CONSTANTS
  t1 = t1
  t2 = t2
  Topics <- Two
  Intervals <- OnlyTwo
  FirstInterval = 2
  MinInterval = 2
  Lookback = 1
  Quiet = {}
  NoJob = NoJob
  MaxTime = 3
  MaxManualRuns = 1
  MaxRows = 1
INVARIANTS
  RateLimitHolds
SYMMETRY Alike
