CONSTANTS
  MaxPayments = 1
  MaxBackups = 1
  MaxKills = 0
  Keep = 1
  Receivers = {}
  RemoteKeep = 1
  MaxSends = 0
  MaxLosses = 0
SPECIFICATION OperationsSpec
INVARIANT MigrationIsRestartSafe
CHECK_DEADLOCK FALSE
