CONSTANTS
  PaymentIds <- MCReuseRequestIds
  Request <- MCReuseRequest
  Pays <- MCWhole
  Transactions = {"t1"}
  InitialTip = 1
  MaxHeight = 2
  MaxChainSteps = 2
  MayReorg = TRUE
  MayEvict = FALSE
  Readers = {}
  InitialEndpoints = {}
  MaxTime = 2
  QueueLimit = 9
  MaxSubscriptions = 1
  MaxFaults = 0
SPECIFICATION WatcherSpec
INVARIANTS
  CountedMoneyArrivedInWindow
  CountedOnce
PROPERTIES
  KeepsTheLedger
CHECK_DEADLOCK FALSE
