SPECIFICATION Spec
CONSTANTS
  j1 = j1
  j2 = j2
  w = w
  h = h
  NoRunner = NoRunner
  NoMessage = NoMessage
  Jobs = {j1}
  TopicJobs = {j1}
  AiJobs = {}
  HostJobs = {}
  Worker = w
  HostRunners = {}
  LeaseTicks = 2
  RetryTicks = 1
  MaxAttempts = 2
  MaxRetries = 2
  MaxRedispatches = 0
  MaxRequests = 1
  MaxCheckpoints = 1
  MaxTopicChanges = 2
  MaxFaults = 2
  MaxEpochs = 4
INVARIANTS
  TypeOK
  OpenAttemptIsTheLease
  RowChecks
  StoppedChildIsCancelled
  RetryLedger
  CyclePerManualRetry
PROPERTIES
  SettledStaysSettled
  EndedGenerationSendsNothing
  CancelReachesItsReceipt
