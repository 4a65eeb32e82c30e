SPECIFICATION FairSpec
CONSTANTS
  j1 = j1
  j2 = j2
  w = w
  h = h
  NoRunner = NoRunner
  NoMessage = NoMessage
  Jobs = {j1}
  TopicJobs = {j1}
  AiJobs = {}
  HostJobs = {j1}
  Worker = w
  HostRunners = {h}
  LeaseTicks = 2
  RetryTicks = 1
  MaxAttempts = 2
  MaxRetries = 0
  MaxRedispatches = 0
  MaxRequests = 0
  MaxCheckpoints = 0
  MaxTopicChanges = 0
  MaxFaults = 1
  MaxEpochs = 5
PROPERTIES
  EveryJobSettles
  PartitionDrains
