SPECIFICATION Spec
CONSTANTS
  SendLimit = 3
  RetryLimit = 3
  Cancels = TRUE
  MaxEpochs = 3
  MaxRetries = 1
  MaxFaults = 1
INVARIANTS
  EveryOpenDeliveryCanBeFinished
CHECK_DEADLOCK FALSE
