SPECIFICATION Spec
CONSTANTS
  j1 = j1
  j2 = j2
  j3 = j3
  p1 = p1
  o1 = o1
  Jobs = {j1, j2, j3}
  MaxEpochs <- Epochs
  Budgets <- AllBudgets
  Limits = {1}
  Saved <- OneSaved
  MaxTime = 1
  MaxVersion = 2
  Purposes = {p1}
  Prices = {0, 2}
  Fees = {1, 3}
  MaxCalls = 2
  MaxPages = 3
  MaxRequests = 3
  MaxRescans = 1
  MaxTotal <- Totals
  Inputs = {o1}
  MaxCleanups = 2
INVARIANTS
  WindowsBalance
  NeverOversold
  OpenPaidCallIsNotRepeated
  FeesAreCharged
  ConfirmedWindowWasScanned
  OpenCallIsTheLastOne
  SettledCollectionOwesNothing
  ErasedCopiesStayErased
  OpenDeletionCanEnd
  HandlersTypeOK
CHECK_DEADLOCK FALSE
