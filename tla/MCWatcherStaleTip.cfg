CONSTANTS
  PaymentIds <- MCTwoRequestIds
  Request <- MCTwoRequest
  Pays <- MCWhole
  Transactions = {"t1"}
  InitialTip = 1
  MaxHeight = 2
  MaxChainSteps = 2
  MayReorg = FALSE
  MayEvict = FALSE
  Readers = {"g1"}
  InitialEndpoints = {}
  MaxTime = 0
  QueueLimit = 9
  MaxSubscriptions = 2
  MaxFaults = 0
SPECIFICATION WatcherSpec
PROPERTIES
  ConfirmedStaysConfirmed
CHECK_DEADLOCK FALSE
