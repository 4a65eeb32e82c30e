SPECIFICATION Spec
CONSTANTS
  j1 = j1
  j2 = j2
  w = w
  h = h
  NoRunner = NoRunner
  NoMessage = NoMessage
  Jobs = {j1, j2}
  TopicJobs = {}
  AiJobs = {j1}
  HostJobs = {}
  Worker = w
  HostRunners = {}
  LeaseTicks = 1
  RetryTicks = 1
  MaxAttempts = 1
  MaxRetries = 0
  MaxRedispatches = 1
  MaxRequests = 0
  MaxCheckpoints = 0
  MaxTopicChanges = 0
  MaxFaults = 2
  MaxEpochs = 3
INVARIANTS
  NoMessageLost
