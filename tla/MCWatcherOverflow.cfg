CONSTANTS
  PaymentIds <- MCOneRequestIds
  Request <- MCOneRequest
  Pays <- MCWhole
  Transactions = {"t1"}
  InitialTip = 1
  MaxHeight = 3
  MaxChainSteps = 3
  MayReorg = FALSE
  MayEvict = FALSE
  Readers = {}
  InitialEndpoints = {}
  MaxTime = 0
  QueueLimit = 1
  MaxSubscriptions = 1
  MaxFaults = 0
SPECIFICATION WatcherSpec
INVARIANTS
  QuietMeansAllReconciled
CHECK_DEADLOCK FALSE
