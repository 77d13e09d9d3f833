CONSTANTS
  PaymentIds = {"p1"}
  Pays <- MCPays
  BatchSize = 2
  MaxAttempts = 2
  RetryBase = 1
  RetryMax = 2
  Addresses = 2
  Answers = {"204", "409", "500"}
  Order <- MCOrder
  InitialEndpoints <- MCEndpoints
  ChangedStatuses = {"waiting", "paid_unconfirmed"}
  MaxVersion = 2
  MaxTime = 2
  MaxFaults = 1
SPECIFICATION Spec
INVARIANT HigherVersionWins
CHECK_DEADLOCK FALSE
