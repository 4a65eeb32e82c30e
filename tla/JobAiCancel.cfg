SPECIFICATION Spec
CONSTANTS
  j1 = j1
  j2 = j2
  w = w
  h = h
  NoRunner = NoRunner
  NoMessage = NoMessage
  Jobs = {j1}
  TopicJobs = {}
  AiJobs = {j1}
  HostJobs = {}
  Worker = w
  HostRunners = {}
  LeaseTicks = 2
  RetryTicks = 1
  MaxAttempts = 2
  MaxRetries = 0
  MaxRedispatches = 0
  MaxRequests = 0
  MaxCheckpoints = 0
  MaxTopicChanges = 0
  MaxFaults = 1
  MaxEpochs = 3
PROPERTIES
  CancelReachesItsReceipt
