SPECIFICATION Spec
CONSTANTS
  j1 = j1
  j2 = j2
  w = w
  h = h
  NoRunner = NoRunner
  NoMessage = NoMessage
  Jobs = {j1}
  TopicJobs = {j1}
  AiJobs = {}
  HostJobs = {j1}
  Worker = w
  HostRunners = {h}
  LeaseTicks = 2
  RetryTicks = 1
  MaxAttempts = 2
  MaxRetries = 1
  MaxRedispatches = 0
  MaxRequests = 0
  MaxCheckpoints = 0
  MaxTopicChanges = 1
  MaxFaults = 1
  MaxEpochs = 3
INVARIANTS
  LiveJobHasMessage
  SettledJobHasNoMessage
  OneSettlementPerMessage
PROPERTIES
  KeepsPromise
  SupersededChildIsFenced
