CONSTANTS
  PaymentIds <- MCTwoRequestIds
  Request <- MCTwoRequest
  Pays <- MCWhole
  Transactions = {"t1"}
  InitialTip = 0
  MaxHeight = 1
  MaxChainSteps = 3
  MayReorg = TRUE
  MayEvict = TRUE
  Readers = {}
  InitialEndpoints = {}
  MaxTime = 0
  QueueLimit = 1
  MaxSubscriptions = 1
  MaxFaults = 1
SPECIFICATION FairWatcherSpec
INVARIANTS
  WatcherTypeOK
  SubscriptionsCapped
PROPERTIES
  EventuallyReconciled
CHECK_DEADLOCK FALSE
