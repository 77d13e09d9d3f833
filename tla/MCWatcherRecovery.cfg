CONSTANTS
  PaymentIds <- MCOneRequestIds
  Request <- MCOneRequest
  Pays <- MCParts
  Transactions = {t1, t2}
  InitialTip = 1
  MaxHeight = 2
  MaxChainSteps = 4
  MayReorg = TRUE
  MayEvict = TRUE
  Readers = {"g1"}
  InitialEndpoints <- MCEndpoints
  MaxTime = 0
  QueueLimit = 2
  MaxSubscriptions = 1
  MaxFaults = 1
SPECIFICATION WatcherSpec
SYMMETRY MCAlike
INVARIANTS
  SnapshotHasNoGap
  QuietMeansReconciled
  EventsMatchVersions
  DeliveriesMatchEvents
PROPERTIES
  PaidStaysPaid
CHECK_DEADLOCK FALSE
