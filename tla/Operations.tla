------------------------------ MODULE Operations ------------------------------
(***************************************************************************)
(* The payment database in operation: the service that starts, migrates    *)
(* and writes, the migration script, the daily backup and the copy to the  *)
(* other machine, each of which reads what another one writes.             *)
(***************************************************************************)
EXTENDS OffhostCopies

operationVars == <<migrationVars, backupVars, offhostVars>>

OperationsInit == MigrationInit /\ BackupsInit /\ OffhostInit

(* main of the migration script asks for a validated backup first.         *)
StartMigrationScript == StartScript /\ LatestPairGood

MigrationStep ==
  \/ InitializeStep \/ StartService \/ Stop \/ NewPayment
  \/ StartMigrationScript \/ VerifyPostMigration

OperationsNext ==
  \/ MigrationStep /\ UNCHANGED <<backupVars, offhostVars>>
  \/ BackupStep /\ UNCHANGED <<migrationVars, offhostVars>>
  \/ OffhostStep /\ UNCHANGED <<migrationVars, backupVars>>

OperationsSpec == OperationsInit /\ [][OperationsNext]_operationVars

(* While the script changes the database there is a backup to go back to,  *)
(* and it stays there whatever the timer starts meanwhile                  *)
(* (phase_k_production_migration.py:326-333).                              *)
MigrationHasRecoveryPoint == migrator = "script" => RecoveryPoints(pairs) # {}
=============================================================================
