SPECIFICATION FairSpec
CONSTANTS
  SendLimit = 3
  RetryLimit = 3
  Cancels = TRUE
  MaxEpochs = 6
  MaxRetries = 3
  MaxFaults = 2
INVARIANTS
  TypeOK
  TakenAtMostOnce
  OutcomeIsTruthful
  OpenDeliveryCanBeFinished
PROPERTIES
  UnknownStaysUntilResolved
  SendingEnds
CHECK_DEADLOCK FALSE
