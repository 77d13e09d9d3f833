---------------------------- MODULE PaymentSchema ----------------------------
(***************************************************************************)
(* What the backup scripts read of a payment database file before they     *)
(* trust it: database_summary of scripts/payment_db_backup.py and the copy *)
(* of it in scripts/payment_db_restore_drill.py.                           *)
(*                                                                         *)
(* A database is a record: intact (PRAGMA integrity_check), tables (those  *)
(* that exist), owned (those with a merchant_id column) and rows (of every *)
(* table, as sets of records).  An owned row has an owner, a key or event  *)
(* names its payment, a delivery its event and its endpoint.               *)
(***************************************************************************)
EXTENDS Naturals, FiniteSets

Legacy == "mrc_legacy_v1"

(* The tables in the order in which the store creates them.                *)
STORE_TABLES == <<"payments", "payment_idempotency_keys",
                  "payment_baseline_transactions", "payment_transactions", "events",
                  "webhook_endpoints", "webhook_deliveries", "chain_state">>
REQUIRED_TABLES == {"payments", "payment_transactions", "events",
                    "webhook_endpoints", "webhook_deliveries"}
OPTIONAL_TABLES == {"payment_idempotency_keys"}
PHASE_K_TABLES == {"merchants", "merchant_credentials"}
PHASE_K_OWNERSHIP == {"payments", "payment_idempotency_keys", "events",
                      "webhook_endpoints"}

SchemaPresent(db) ==
  \/ PHASE_K_TABLES \cap db.tables # {}
  \/ PHASE_K_OWNERSHIP \cap db.tables \cap db.owned # {}

SchemaComplete(db) ==
  /\ PHASE_K_TABLES \cup PHASE_K_OWNERSHIP \subseteq db.tables
  /\ PHASE_K_OWNERSHIP \subseteq db.owned

(* The rows of a table whose owner is no merchant.                         *)
Orphans(db, table) ==
  { r \in db.rows[table] : \A m \in db.rows["merchants"] : m.id # r.owner }

(* The rows of a table that belong to another merchant than the row of     *)
(* another table they name.                                                *)
Mismatches(db, table, other) ==
  { r \in db.rows[table] : \E o \in db.rows[other] : o.id = r.of /\ o.owner # r.owner }

MisdirectedDeliveries(db) ==
  { d \in db.rows["webhook_deliveries"] :
      \E e \in db.rows["events"], w \in db.rows["webhook_endpoints"] :
        d.event = e.id /\ d.endpoint = w.id /\ e.owner # w.owner }

OwnershipHolds(db) ==
  /\ \A t \in PHASE_K_OWNERSHIP \cup {"merchant_credentials"} : Orphans(db, t) = {}
  /\ Mismatches(db, "payment_idempotency_keys", "payments") = {}
  /\ Mismatches(db, "events", "payments") = {}
  /\ MisdirectedDeliveries(db) = {}

(* Slip: only what a legacy database can be refused for.                   *)
RefusesDamage(db) == ~db.intact \/ ~(REQUIRED_TABLES \subseteq db.tables)

(* Raises: the script stops.                                               *)
Refuses(db) ==
  \/ ~db.intact
  \/ ~(REQUIRED_TABLES \subseteq db.tables)
  \/ SchemaPresent(db) /\ ~(SchemaComplete(db) /\ OwnershipHolds(db))

Counted(db) ==
  (REQUIRED_TABLES \cup OPTIONAL_TABLES \cup PHASE_K_TABLES) \cap db.tables

BackupSummary(db) ==
  [profile  |-> IF SchemaPresent(db) THEN "phase_k_merchant_v1" ELSE "legacy_payment_v1",
   counts   |-> [t \in Counted(db) |-> Cardinality(db.rows[t])],
   webhooks |-> Cardinality({ w \in db.rows["webhook_endpoints"] : w.enabled })]

(* The restore drill carries its own copies of the same functions.         *)
DrillRefuses(db) == Refuses(db)
DrillSummary(db) == BackupSummary(db)
=============================================================================
