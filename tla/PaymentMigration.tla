--------------------------- MODULE PaymentMigration ---------------------------
(***************************************************************************)
(* The database file and how it gets its merchant columns:                 *)
(* MerchantStore.initialize and PaymentStore.initialize, run by the first  *)
(* request of a starting service or by the script                          *)
(* scripts/phase_k_production_migration.py while the service is stopped.   *)
(*                                                                         *)
(* The statements run one after the other.  Python's sqlite3 opens a       *)
(* transaction at the first INSERT or UPDATE and commits it where the      *)
(* "with" block ends, or where executescript begins; a CREATE or ALTER     *)
(* outside of a transaction is committed by itself.  disk is what is       *)
(* committed, work what the migrating connection sees.                     *)
(***************************************************************************)
EXTENDS PaymentSchema, SequencesExt

CONSTANTS MaxPayments   \* bound: payments of the database

VARIABLES disk,      \* the committed database
          work,      \* the database within the open transaction
          mstep,     \* the next statement; "off", "ready" or "failed"
          migrator,  \* who runs it: "service", "script" or "nobody"
          before,    \* the authority snapshot of the script
          bound      \* history: the keys ever bound to a payment

migrationVars == <<disk, work, mstep, migrator, before, bound>>

Keys == "payment_idempotency_keys"
KeysCopy == "payment_idempotency_keys_k2"
AllTables == ToSet(STORE_TABLES) \cup PHASE_K_TABLES \cup {KeysCopy}
NoRows == [t \in AllTables |-> {}]

-----------------------------------------------------------------------------
(* The databases the migration may meet: none yet, one from before         *)
(* idempotency keys, and one from before merchants.                        *)
OldRows ==
  [NoRows EXCEPT
    !["payments"] = {[id |-> 1, owner |-> ""]},
    !["events"] = {[id |-> 1, of |-> 1, owner |-> ""]},
    !["webhook_endpoints"] = {[id |-> 1, owner |-> "", enabled |-> TRUE]},
    !["webhook_deliveries"] = {[event |-> 1, endpoint |-> 1]}]

FreshDatabase == [intact |-> TRUE, tables |-> {}, owned |-> {}, rows |-> NoRows]
OldDatabase ==
  [intact |-> TRUE, tables |-> ToSet(STORE_TABLES) \ {Keys}, owned |-> {}, rows |-> OldRows]
LegacyDatabase ==
  [intact |-> TRUE, tables |-> ToSet(STORE_TABLES), owned |-> {},
   rows |-> [OldRows EXCEPT ![Keys] = {[id |-> 1, of |-> 1, owner |-> ""]}]]

NoSnapshot == [t \in {} |-> {}]

MigrationInit ==
  /\ disk \in {FreshDatabase, OldDatabase, LegacyDatabase}
  /\ work = disk
  /\ mstep = "off"
  /\ migrator = "nobody"
  /\ before = NoSnapshot
  /\ bound = { k.id : k \in disk.rows[Keys] }

-----------------------------------------------------------------------------
(* What the statements do to a database.                                   *)
WithTable(db, t, owned) ==
  [db EXCEPT !.tables = @ \cup {t}, !.owned = IF owned THEN @ \cup {t} ELSE @]

OwnedBy(rows, m) == { [r EXCEPT !.owner = m] : r \in rows }

(* ALTER TABLE ... ADD COLUMN merchant_id ... DEFAULT 'mrc_legacy_v1'      *)
WithOwner(db, t) ==
  IF t \in db.owned THEN db
  ELSE [db EXCEPT !.owned = @ \cup {t}, !.rows[t] = OwnedBy(@, Legacy)]

OwnerOfPayment(db, p) ==
  IF \E r \in db.rows["payments"] : r.id = p
  THEN (CHOOSE r \in db.rows["payments"] : r.id = p).owner ELSE Legacy

(* UPDATE events SET merchant_id = the owner of the event's payment        *)
EventsFollowPayments(db) ==
  [db EXCEPT !.rows["events"] = { [e EXCEPT !.owner = OwnerOfPayment(db, e.of)] : e \in @ }]

(* DROP TABLE payment_idempotency_keys                                     *)
WithoutKeys(db) ==
  [db EXCEPT !.tables = @ \ {Keys}, !.owned = @ \ {Keys}, !.rows[Keys] = {}]

(* ALTER TABLE payment_idempotency_keys_k2 RENAME TO ...                   *)
CopyRenamed(db) ==
  [db EXCEPT !.tables = (@ \ {KeysCopy}) \cup {Keys},
             !.owned = (@ \ {KeysCopy}) \cup {Keys},
             !.rows[Keys] = db.rows[KeysCopy], !.rows[KeysCopy] = {}]

(* Slip: every statement is committed by itself.                           *)
CommitsEach(step) == TRUE

(* Whether nothing is left uncommitted after a statement.                  *)
Commits(step) == step \notin {"copy", "drop", "rename", "events"}

Statement(from, to, db) ==
  /\ mstep = from
  /\ mstep' = to
  /\ work' = db
  /\ disk' = IF Commits(from) THEN db ELSE disk
  /\ UNCHANGED <<migrator, before, bound>>

CreateMerchants == Statement("merchants", "credentials", WithTable(work, "merchants", FALSE))
CreateCredentials ==
  Statement("credentials", "legacy", WithTable(work, "merchant_credentials", FALSE))

(* INSERT OR IGNORE, committed with the block.                             *)
InsertLegacyMerchant ==
  Statement("legacy", "schema", [work EXCEPT !.rows["merchants"] = @ \cup {[id |-> Legacy]}])

(* CREATE TABLE IF NOT EXISTS: a missing table is created with its owner.  *)
CreateMissingTable ==
  LET missing == SelectSeq(STORE_TABLES, LAMBDA t : t \notin work.tables)
  IN  IF missing = <<>> THEN Statement("schema", "payments", work)
      ELSE Statement("schema", "schema",
                     WithTable(work, Head(missing), Head(missing) \in PHASE_K_OWNERSHIP))

AlterPayments == Statement("payments", "keys", WithOwner(work, "payments"))

(* The table of keys is copied, because its primary key changes; there is  *)
(* no IF NOT EXISTS.                                                       *)
CreateKeysCopy ==
  \/ /\ Keys \in work.owned
     /\ Statement("keys", "events", work)
  \/ /\ Keys \notin work.owned /\ KeysCopy \notin work.tables
     /\ Statement("keys", "copy", WithTable(work, KeysCopy, TRUE))
  \/ /\ Keys \notin work.owned /\ KeysCopy \in work.tables
     /\ Statement("keys", "failed", work)

CopyKeys ==
  Statement("copy", "drop",
            [work EXCEPT !.rows[KeysCopy] = OwnedBy(work.rows[Keys], Legacy)])
DropKeys == Statement("drop", "rename", WithoutKeys(work))
RenameCopy == Statement("rename", "events", CopyRenamed(work))
AlterEvents ==
  Statement("events", "endpoints", EventsFollowPayments(WithOwner(work, "events")))

(* The last statements; leaving the block commits them all.                *)
AlterEndpoints == Statement("endpoints", "ready", WithOwner(work, "webhook_endpoints"))

InitializeStep ==
  \/ CreateMerchants \/ CreateCredentials \/ InsertLegacyMerchant
  \/ CreateMissingTable \/ AlterPayments
  \/ CreateKeysCopy \/ CopyKeys \/ DropKeys \/ RenameCopy
  \/ AlterEvents \/ AlterEndpoints

-----------------------------------------------------------------------------
StartService ==
  /\ migrator = "nobody"
  /\ migrator' = "service"
  /\ mstep' = "merchants"
  /\ UNCHANGED <<disk, work, before, bound>>

(* The process ends, at any statement: what was not committed is gone.     *)
Stop ==
  /\ migrator # "nobody"
  /\ migrator' = "nobody"
  /\ mstep' = "off"
  /\ work' = disk
  /\ before' = NoSnapshot
  /\ UNCHANGED <<disk, bound>>

(* The service works: a payment with its key and event.                    *)
NewPayment ==
  /\ migrator = "service" /\ mstep = "ready"
  /\ LET n == Cardinality(disk.rows["payments"]) + 1
     IN /\ n <= MaxPayments
        /\ disk' = [disk EXCEPT
             !.rows["payments"] = @ \cup {[id |-> n, owner |-> Legacy]},
             !.rows[Keys] = @ \cup {[id |-> n, of |-> n, owner |-> Legacy]},
             !.rows["events"] = @ \cup {[id |-> n, of |-> n, owner |-> Legacy]}]
        /\ work' = disk'
        /\ bound' = bound \cup {n}
  /\ UNCHANGED <<mstep, migrator, before>>

-----------------------------------------------------------------------------
(* The migration script.  What it compares leaves the owner out.           *)
Business(r) == [f \in DOMAIN r \ {"owner"} |-> r[f]]
AuthoritySnapshot(db) ==
  [t \in ToSet(STORE_TABLES) |-> { Business(r) : r \in db.rows[t] }]

CanSnapshot(db) == db.intact /\ ToSet(STORE_TABLES) \subseteq db.tables

(* main up to migrate_database, without the backup it asks for.            *)
StartScript ==
  /\ migrator = "nobody"
  /\ CanSnapshot(disk)
  /\ migrator' = "script"
  /\ before' = AuthoritySnapshot(disk)
  /\ mstep' = "merchants"
  /\ UNCHANGED <<disk, work, bound>>

LegacyOwned(db) ==
  \A t \in PHASE_K_OWNERSHIP : \A r \in db.rows[t] : r.owner = Legacy

PostMigrationHolds(db) ==
  /\ ~Refuses(db)
  /\ SchemaPresent(db)
  /\ AuthoritySnapshot(db) = before
  /\ LegacyOwned(db)

(* verify_post_migration; the script ends either way.                      *)
VerifyPostMigration ==
  /\ migrator = "script" /\ mstep = "ready"
  /\ mstep' = IF PostMigrationHolds(disk) THEN "off" ELSE "unverified"
  /\ migrator' = "nobody"
  /\ before' = NoSnapshot
  /\ UNCHANGED <<disk, work, bound>>

-----------------------------------------------------------------------------
(* A start would go through from this database.                            *)
Startable(db) == Keys \in db.owned \/ KeysCopy \notin db.tables

(* No interruption of the migration loses an idempotency key: a retry of a *)
(* create from before it still finds its payment (the copy of the table in *)
(* payment_store.py:328-358).                                              *)
KeysSurvive == bound \subseteq { k.id : k \in disk.rows[Keys] }

(* docs/PHASE_K_MULTI_MERCHANT_ISOLATION.md:167: the migration must be     *)
(* restart-safe.  No start ever fails on what an interrupted one left.     *)
MigrationIsRestartSafe == mstep # "failed"
=============================================================================
