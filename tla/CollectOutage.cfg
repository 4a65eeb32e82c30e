SPECIFICATION FairSpec
CONSTANTS
  t1 = t1
  t2 = t2
  Topics <- One
  Intervals <- TwoOrThree
  FirstInterval = 2
  MinInterval = 2
  Lookback = 1
  Quiet = {3}
  NoJob = NoJob
  MaxTime = 4
  MaxManualRuns = 1
  MaxRows = 2
INVARIANTS
  TypeOK
  AcceptedWindowsMeet
  CadenceKept
  PendingDueIsTheNewest
  OutageCollapsesToOne
PROPERTIES
  PendingDueSettles
