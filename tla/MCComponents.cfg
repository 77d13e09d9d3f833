CONSTANTS
  Outputs <- MCOutputs
  Requested = 2
  Policies = {0, 2}
  CreatedHeight = 0
  CreatedAt = 1
  ExpiresAt = 2
  MaxTip = 2
  MaxTime = 3
  MaxObservations = 3
  MaxPayments = 2
  MaxBackups = 2
  MaxKills = 1
  Keep = 1
  Receivers = {v1, v2}
  RemoteKeep = 1
  MaxSends = 2
  MaxLosses = 1
  Callers = {c1, c2}
  MaxRequests = 3
  Merchants = {"m1"}
  Credentials = {k1, k2}
  Endpoints = {e1}
  Operators = {o1}
  Clients = {q1}
  MaxAdminKills = 1
  MaxRows = 3
  MaxSeconds = 2
  PageSize = 1
  Readers = {r1, r2}
  MaxTasks = 2
  MaxMoves = 1
  MaxCancels = 1
SPECIFICATION ComponentsSpec
INVARIANTS
  PolicyWithinConfirmed
  RowsEvaluateLikeTheStream
  KeysSurvive
  RecoveryPointsKept
  BackupsStart
  MigrationHasRecoveryPoint
  RemotePairsRestore
  ReportedCopiesKept
  OwnAnswer
  NoOneWaitsOnDeadSession
  NoUndeliveredCredential
  WalkIsComplete
  FreshReadsAreFresh
  SingleFlight
PROPERTIES
  RepeatedObservationIsHarmless
  ClockNeverUnpays
  NewBlockNeverUnconfirms
  TenantsApart
  MonitorNeverGoesBack
CHECK_DEADLOCK FALSE
