---------------------------- MODULE PaymentBackups ----------------------------
(***************************************************************************)
(* The automatic backups of the payment database: one run of               *)
(* scripts/payment_db_backup_maintenance.py at a time (a oneshot unit      *)
(* started by a timer), with create_backup of payment_db_backup.py and the *)
(* restore drill of payment_db_restore_drill.py.                           *)
(*                                                                         *)
(* Backups are named by their time, here 1, 2, ....  A file is absent,     *)
(* reserved and empty, or holds what was put there; a checksum is the      *)
(* content it was made of.                                                 *)
(***************************************************************************)
EXTENDS PaymentMigration

CONSTANTS MaxBackups,   \* bound: runs of the maintenance script
          MaxKills,     \* bound: runs that are killed
          Keep          \* pairs to retain

ASSUME BackupsAssumption ==
  /\ MaxBackups \in Nat
  /\ MaxKills \in Nat
  /\ Keep \in Nat \ {0}

VARIABLES pairs,    \* backup directory: the database and manifest of each name
          run,      \* the maintenance run
          lastRun,  \* the time of the newest run
          kills,    \* runs that were killed
          passed    \* history: the names of the runs that passed

backupVars == <<pairs, run, lastRun, kills, passed>>

Names == 1..MaxBackups
Absent == [is |-> "absent"]
Reserved == [is |-> "reserved"]
NoPair == [database |-> Absent, manifest |-> Absent]
IdleRun == [step |-> "idle", name |-> 0, copy |-> Absent]

DatabaseFile(db) == [is |-> "database", db |-> db]
Manifest(name, db) ==
  [is |-> "manifest", backup_file |-> name, sha256 |-> db, summary |-> BackupSummary(db)]

BackupsInit ==
  /\ pairs = [n \in Names |-> NoPair]
  /\ run = IdleRun
  /\ lastRun = 0
  /\ kills = 0
  /\ passed = {}

-----------------------------------------------------------------------------
(* complete_auto_backups: both files exist, whatever they hold.            *)
Complete(dir) ==
  { n \in DOMAIN dir : dir[n].database # Absent /\ dir[n].manifest # Absent }

(* load_manifest and verify_against_manifest.                              *)
Verified(name, pair) ==
  /\ pair.manifest.is = "manifest" /\ pair.database.is = "database"
  /\ pair.manifest.backup_file = name
  /\ pair.manifest.sha256 = pair.database.db
  /\ ~DrillRefuses(pair.database.db)
  /\ DrillSummary(pair.database.db) = pair.manifest.summary

(* run_restore_drill: what is verified is copied and summarised again.     *)
DrillPasses(name, pair) == Verified(name, pair)

(* Slip: the newest pairs are removed.                                     *)
SurplusNewest(dir, keep) ==
  { n \in Complete(dir) : Cardinality({ o \in Complete(dir) : o < n }) >= keep }

(* prune_complete_auto_backups: all but the last keep.                     *)
Surplus(dir, keep) ==
  { n \in Complete(dir) : Cardinality({ o \in Complete(dir) : o > n }) >= keep }

-----------------------------------------------------------------------------
AtStep(step) == run.step = step
Goes(step) == run' = [run EXCEPT !.step = step]
Put(file, content) == pairs' = [pairs EXCEPT ![run.name][file] = content]

(* maintenance_run up to create_backup: the database must exist.           *)
BeginBackup ==
  /\ AtStep("idle") /\ lastRun < MaxBackups /\ disk.tables # {}
  /\ run' = [IdleRun EXCEPT !.step = "reserve", !.name = lastRun + 1]
  /\ lastRun' = lastRun + 1
  /\ UNCHANGED <<pairs, kills, passed>>

ReserveDatabase ==
  /\ AtStep("reserve") /\ Put("database", Reserved) /\ Goes("reserve_manifest")
  /\ UNCHANGED <<lastRun, kills, passed>>

ReserveManifest ==
  /\ AtStep("reserve_manifest") /\ Put("manifest", Reserved) /\ Goes("copy")
  /\ UNCHANGED <<lastRun, kills, passed>>

(* SQLite's backup is a copy of one committed state, taken after the       *)
(* source was looked at and looked at again itself.                        *)
CopyDatabase ==
  /\ AtStep("copy")
  /\ ~Refuses(disk)
  /\ run' = [run EXCEPT !.step = "place", !.copy = DatabaseFile(disk)]
  /\ UNCHANGED <<pairs, lastRun, kills, passed>>

PlaceDatabase ==
  /\ AtStep("place") /\ Put("database", run.copy) /\ Goes("place_manifest")
  /\ UNCHANGED <<lastRun, kills, passed>>

PlaceManifest ==
  /\ AtStep("place_manifest")
  /\ Put("manifest", Manifest(run.name, run.copy.db))
  /\ Goes("drill")
  /\ UNCHANGED <<lastRun, kills, passed>>

Drill ==
  /\ AtStep("drill")
  /\ DrillPasses(run.name, pairs[run.name])
  /\ Goes("prune")
  /\ UNCHANGED <<pairs, lastRun, kills, passed>>

(* The oldest surplus pair goes, its database first.                       *)
PruneDatabase ==
  /\ AtStep("prune")
  /\ \E n \in Surplus(pairs, Keep) :
       /\ \A o \in Surplus(pairs, Keep) : n <= o
       /\ pairs' = [pairs EXCEPT ![n].database = Absent]
       /\ run' = [run EXCEPT !.step = "prune_manifest", !.copy = [is |-> "pruned", of |-> n]]
  /\ UNCHANGED <<lastRun, kills, passed>>

PruneManifest ==
  /\ AtStep("prune_manifest")
  /\ pairs' = [pairs EXCEPT ![run.copy.of].manifest = Absent]
  /\ Goes("prune")
  /\ UNCHANGED <<lastRun, kills, passed>>

PassBackup ==
  /\ AtStep("prune") /\ Surplus(pairs, Keep) = {}
  /\ run' = IdleRun
  /\ passed' = passed \cup {run.name}
  /\ UNCHANGED <<pairs, lastRun, kills>>

(* The except clause of create_backup unlinks what the run has reserved.   *)
Cleanup(pair) == NoPair

(* A step raises: a full disk, a database that create_backup refuses, a    *)
(* drill.  After create_backup nothing is taken back.                      *)
RunFails ==
  /\ run.step # "idle"
  /\ pairs' = IF run.step \in {"reserve", "reserve_manifest", "copy", "place", "place_manifest"}
              THEN [pairs EXCEPT ![run.name] = Cleanup(@)] ELSE pairs
  /\ run' = IdleRun
  /\ UNCHANGED <<lastRun, kills, passed>>

(* The process is killed; no except clause runs.  What it has written and  *)
(* renamed stays: a power cut may take more, as nothing is synced to disk. *)
RunKilled ==
  /\ kills < MaxKills
  /\ run.step # "idle"
  /\ run' = IdleRun
  /\ kills' = kills + 1
  /\ UNCHANGED <<pairs, lastRun, passed>>

BackupStep ==
  \/ BeginBackup \/ ReserveDatabase \/ ReserveManifest \/ CopyDatabase
  \/ PlaceDatabase \/ PlaceManifest \/ Drill
  \/ PruneDatabase \/ PruneManifest \/ PassBackup
  \/ RunFails \/ RunKilled

-----------------------------------------------------------------------------
(* What the scripts call a recovery point, and what is left in the way.    *)
RecoveryPoints(dir) == { n \in Complete(dir) : DrillPasses(n, dir[n]) }

Least(a, b) == IF a < b THEN a ELSE b

(* Retention never costs a recovery point it promised to keep: of every    *)
(* backup that passed, that one or a newer one can be restored, and as     *)
(* many can as are to be retained, but for one per run that was killed and *)
(* left an unusable pair that counts as complete                           *)
(* (payment_db_backup_maintenance.py:20-41).                               *)
RecoveryPointsKept ==
  /\ Cardinality(RecoveryPoints(pairs)) >= Least(Keep, Cardinality(passed)) - kills
  /\ \A n \in passed : \E o \in RecoveryPoints(pairs) : o >= n

(* No backup the drill accepts holds a half-migrated database, from which  *)
(* a restored service could not start.                                     *)
BackupsStart == \A n \in RecoveryPoints(pairs) : Startable(pairs[n].database.db)
=============================================================================
