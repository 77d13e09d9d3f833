CONSTANTS
  PaymentIds <- MCPaymentIds
  Pays <- MCPays
  Transactions = {"t1"}
  InitialTip = 1
  MaxHeight = 1
  MaxChainSteps = 1
  MayReorg = FALSE
  MayEvict = FALSE
  Request <- MCRequest
  Readers = {"g1"}
  InitialEndpoints <- MCEndpoints
  MaxTime = 2
  p1 = p1
  p2 = p2
  p3 = p3
  p4 = p4
SPECIFICATION Spec
SYMMETRY MCAlike
INVARIANTS
  TypeOK
  WindowsDisjoint
  OnePaymentPerKey
  OnePaymentPerReference
CHECK_DEADLOCK FALSE
