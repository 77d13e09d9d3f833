CONSTANTS
  PaymentIds <- MCRetryIds
  Pays <- MCPays
  Transactions = {"t1"}
  InitialTip = 1
  MaxHeight = 1
  MaxChainSteps = 0
  MayReorg = FALSE
  MayEvict = FALSE
  Request <- MCRetry
  Readers = {}
  InitialEndpoints = {}
  MaxTime = 0
  p1 = p1
  p2 = p2
  p3 = p3
  p4 = p4
SPECIFICATION Spec
PROPERTIES
  RetryIsReplayed
CHECK_DEADLOCK FALSE
