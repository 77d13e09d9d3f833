-------------------------- MODULE OperationsProofs --------------------------
(***************************************************************************)
(* Proofs about Operations: the migration of the database, its backups and *)
(* the copies on the other machine, which may interleave as they like, for *)
(* any number of payments, runs, receivers, transfers, kills and losses    *)
(* and any number of pairs to retain.                                      *)
(***************************************************************************)
EXTENDS Operations, FiniteSetTheorems, WellFoundedInduction, TLAPS

-----------------------------------------------------------------------------
(* The database through the migration.                                     *)

LEMMA TablesOfTheStore ==
  /\ ToSet(STORE_TABLES) =
       { "payments", "payment_idempotency_keys", "payment_baseline_transactions",
         "payment_transactions", "events", "webhook_endpoints", "webhook_deliveries",
         "chain_state" }
  /\ {"payments", Keys, KeysCopy, "events", "webhook_endpoints", "merchants"}
       \subseteq AllTables
<1>1. ToSet(STORE_TABLES) = { STORE_TABLES[i] : i \in 1..8 }
  BY DEF ToSet, STORE_TABLES
<1>2. 1..8 = {1, 2, 3, 4, 5, 6, 7, 8}
  OBVIOUS
<1>3. ToSet(STORE_TABLES) =
       { "payments", "payment_idempotency_keys", "payment_baseline_transactions",
         "payment_transactions", "events", "webhook_endpoints", "webhook_deliveries",
         "chain_state" }
  BY <1>1, <1>2 DEF STORE_TABLES
<1> QED BY <1>3 DEF AllTables, Keys, KeysCopy, PHASE_K_TABLES

KeyIds(rows) == { k.id : k \in rows }

(* The half of a database that the migration of the keys is about.  The    *)
(* copy of the keys is only there after the merchants.                     *)
DatabaseOK(db) ==
  /\ DOMAIN db = {"intact", "tables", "owned", "rows"}
  /\ DOMAIN db.rows = AllTables
  /\ \A k \in db.rows[Keys] \cup db.rows[KeysCopy] : DOMAIN k = {"id", "of", "owner"}
  /\ KeysCopy \in db.tables => "merchants" \in db.tables

(* Between the drop of the table of keys and the rename of its copy the    *)
(* keys are in the copy alone, uncommitted.                                *)
MigrationInv ==
  /\ DatabaseOK(disk)
  /\ DatabaseOK(work)
  /\ bound \subseteq KeyIds(disk.rows[Keys])
  /\ bound \subseteq KeyIds(work.rows[IF mstep \in {"drop", "rename"} THEN KeysCopy ELSE Keys])
  /\ mstep \in {"credentials", "legacy", "schema", "payments", "keys", "copy", "drop",
                "rename", "events", "endpoints"} => "merchants" \in work.tables
  /\ migrator = "nobody" => mstep \in {"off", "unverified"}

LEMMA InitMigration == MigrationInit => MigrationInv
<1> SUFFICES ASSUME MigrationInit PROVE MigrationInv
  OBVIOUS
<1>1. DOMAIN OldRows = AllTables /\ DOMAIN NoRows = AllTables
  BY DEF OldRows, NoRows
<1>2. OldRows[Keys] = {} /\ OldRows[KeysCopy] = {} /\ NoRows[Keys] = {} /\ NoRows[KeysCopy] = {}
  BY TablesOfTheStore DEF OldRows, NoRows, Keys, KeysCopy
<1>3. DatabaseOK(FreshDatabase)
  BY <1>1, <1>2 DEF FreshDatabase, DatabaseOK
<1>4. KeysCopy \notin ToSet(STORE_TABLES)
  BY TablesOfTheStore DEF KeysCopy
<1>5. DatabaseOK(OldDatabase)
  BY <1>1, <1>2, <1>4 DEF OldDatabase, DatabaseOK
<1>6. DatabaseOK(LegacyDatabase)
  <2> DEFINE key == [id |-> 1, of |-> 1, owner |-> ""]
             rows == [OldRows EXCEPT ![Keys] = {key}]
  <2>1. DOMAIN rows = AllTables /\ rows[Keys] = {key} /\ rows[KeysCopy] = {}
    BY <1>1, <1>2, TablesOfTheStore DEF Keys, KeysCopy
  <2>2. DOMAIN key = {"id", "of", "owner"}
    OBVIOUS
  <2> HIDE DEF key, rows
  <2>3. LegacyDatabase = [intact |-> TRUE, tables |-> ToSet(STORE_TABLES), owned |-> {},
                          rows |-> rows]
    BY DEF LegacyDatabase, rows, key
  <2> QED BY <1>4, <2>1, <2>2, <2>3 DEF DatabaseOK
<1> QED BY <1>3, <1>5, <1>6 DEF MigrationInit, MigrationInv, KeyIds

(* What the statements do to the half the invariant is about.              *)
LEMMA TableKeeps ==
  ASSUME NEW db, DatabaseOK(db), NEW t, NEW owned, t = KeysCopy => "merchants" \in db.tables
  PROVE  /\ DatabaseOK(WithTable(db, t, owned))
         /\ WithTable(db, t, owned).rows = db.rows
         /\ db.tables \subseteq WithTable(db, t, owned).tables
         /\ t \in WithTable(db, t, owned).tables
<1> DEFINE c == WithTable(db, t, owned)
<1>1. /\ DOMAIN c = DOMAIN db /\ c.rows = db.rows
      /\ c.tables = db.tables \cup {t}
  BY DEF WithTable, DatabaseOK
<1> HIDE DEF c
<1>2. DatabaseOK(c)
  BY <1>1 DEF DatabaseOK
<1> QED BY <1>1, <1>2 DEF c

(* Anything done to rows of the other tables.                              *)
LEMMA OtherRowsKeep ==
  ASSUME NEW db, DatabaseOK(db), NEW c, DOMAIN c = DOMAIN db, DOMAIN c.rows = DOMAIN db.rows,
         c.rows[Keys] = db.rows[Keys], c.rows[KeysCopy] = db.rows[KeysCopy],
         c.tables = db.tables
  PROVE  DatabaseOK(c)
  BY DEF DatabaseOK

LEMMA OwnerKeeps ==
  ASSUME NEW db, DatabaseOK(db), NEW t \in {"payments", "events", "webhook_endpoints"}
  PROVE  /\ DatabaseOK(WithOwner(db, t))
         /\ WithOwner(db, t).rows[Keys] = db.rows[Keys]
         /\ WithOwner(db, t).tables = db.tables
<1>1. CASE t \in db.owned
  BY <1>1 DEF WithOwner
<1>2. CASE t \notin db.owned
  <2> DEFINE rows == [db.rows EXCEPT ![t] = OwnedBy(db.rows[t], Legacy)]
             owned == db.owned \cup {t}
             c == [db EXCEPT !.owned = owned, !.rows = rows]
  <2>1. WithOwner(db, t) = c
    BY <1>2 DEF WithOwner, DatabaseOK
  <2>2. /\ DOMAIN rows = DOMAIN db.rows
        /\ rows[Keys] = db.rows[Keys] /\ rows[KeysCopy] = db.rows[KeysCopy]
    BY TablesOfTheStore DEF DatabaseOK, Keys, KeysCopy
  <2> HIDE DEF rows, owned
  <2>3. /\ DOMAIN c = DOMAIN db /\ c.rows = rows /\ c.tables = db.tables
    BY DEF DatabaseOK
  <2> HIDE DEF c
  <2>4. DatabaseOK(c)
    BY <2>2, <2>3, OtherRowsKeep
  <2> QED BY <2>1, <2>2, <2>3, <2>4
<1> QED BY <1>1, <1>2

LEMMA StatementKeeps ==
  ASSUME MigrationInv, NEW from, NEW to, NEW db, Statement(from, to, db), DatabaseOK(db),
         from \notin {"off", "unverified"},
         Commits(from) => bound \subseteq KeyIds(db.rows[Keys]),
         bound \subseteq KeyIds(db.rows[IF to \in {"drop", "rename"} THEN KeysCopy ELSE Keys]),
         "merchants" \in db.tables
  PROVE  MigrationInv'
<1>1. /\ mstep = from /\ mstep' = to /\ work' = db /\ bound' = bound /\ migrator' = migrator
      /\ disk' = db \/ disk' = disk
      /\ disk' = db => Commits(from) \/ disk' = disk
  BY DEF Statement
<1>2. DatabaseOK(disk') /\ DatabaseOK(work')
  BY <1>1 DEF MigrationInv
<1>3. bound \subseteq KeyIds(disk'.rows[Keys])
  BY <1>1 DEF MigrationInv
<1> QED BY <1>1, <1>2, <1>3 DEF MigrationInv, KeyIds, DatabaseOK

(* The statements before the table of keys is touched, and the last ones.  *)
LEMMA OtherStatements ==
  ASSUME MigrationInv,
         \/ CreateMerchants \/ CreateCredentials \/ InsertLegacyMerchant
         \/ CreateMissingTable \/ AlterPayments \/ AlterEvents \/ AlterEndpoints
  PROVE  MigrationInv'
<1> USE DEF MigrationInv
<1>1. ASSUME NEW t, NEW owned, NEW from \in {"merchants", "credentials", "schema"},
             NEW to \in {"credentials", "legacy", "schema"},
             Statement(from, to, WithTable(work, t, owned)), mstep = from,
             t = "merchants" \/ "merchants" \in work.tables
      PROVE  MigrationInv'
  <2> DEFINE db == WithTable(work, t, owned)
  <2>1. /\ DatabaseOK(db) /\ db.rows = work.rows /\ "merchants" \in db.tables
    BY <1>1, TableKeeps DEF KeysCopy
  <2> HIDE DEF db
  <2>2. Statement(from, to, db)
    BY <1>1 DEF db
  <2> QED BY <1>1, <2>1, <2>2, StatementKeeps
<1>2. ASSUME NEW t \in {"payments", "webhook_endpoints"},
             NEW from \in {"payments", "endpoints"}, NEW to \in {"keys", "ready"}, Statement(from, to, WithOwner(work, t)),
             mstep = from
      PROVE  MigrationInv'
  <2> DEFINE db == WithOwner(work, t)
  <2>1. DatabaseOK(db) /\ db.rows[Keys] = work.rows[Keys] /\ db.tables = work.tables
    BY OwnerKeeps
  <2> HIDE DEF db
  <2>2. Statement(from, to, db)
    BY <1>2 DEF db
  <2> QED BY <1>2, <2>1, <2>2, StatementKeeps
<1>3. CASE CreateMerchants
  BY <1>1, <1>3 DEF CreateMerchants, Statement
<1>4. CASE CreateCredentials
  BY <1>1, <1>4 DEF CreateCredentials, Statement
<1>5. CASE InsertLegacyMerchant
  <2> DEFINE rows == [work.rows EXCEPT !["merchants"] = @ \cup {[id |-> Legacy]}]
             db == [work EXCEPT !.rows = rows]
  <2>1. mstep = "legacy" /\ Statement("legacy", "schema", db)
    BY <1>5 DEF InsertLegacyMerchant, DatabaseOK, Statement
  <2>2. /\ DOMAIN rows = DOMAIN work.rows
        /\ rows[Keys] = work.rows[Keys] /\ rows[KeysCopy] = work.rows[KeysCopy]
    BY TablesOfTheStore DEF DatabaseOK, Keys, KeysCopy
  <2> HIDE DEF rows
  <2>3. DOMAIN db = DOMAIN work /\ db.rows = rows /\ db.tables = work.tables
    BY DEF DatabaseOK
  <2> HIDE DEF db
  <2>4. DatabaseOK(db)
    BY <2>2, <2>3, OtherRowsKeep
  <2> QED BY <2>1, <2>2, <2>3, <2>4, StatementKeeps
<1>6. CASE CreateMissingTable
  <2> DEFINE missing == SelectSeq(STORE_TABLES, LAMBDA t : t \notin work.tables)
  <2>1. \/ Statement("schema", "payments", work)
        \/ Statement("schema", "schema",
                     WithTable(work, Head(missing), Head(missing) \in PHASE_K_OWNERSHIP))
    BY <1>6 DEF CreateMissingTable
  <2> HIDE DEF missing
  <2>2. mstep = "schema"
    BY <2>1 DEF Statement
  <2>3. CASE Statement("schema", "payments", work)
    BY <2>2, <2>3, StatementKeeps
  <2> QED BY <1>1, <2>1, <2>2, <2>3
<1>7. CASE AlterPayments
  BY <1>2, <1>7 DEF AlterPayments, Statement
<1>8. CASE AlterEndpoints
  BY <1>2, <1>8 DEF AlterEndpoints, Statement
<1>9. CASE AlterEvents
  <2> DEFINE old == WithOwner(work, "events")
             rows == [old.rows EXCEPT !["events"] =
                        { [e EXCEPT !.owner = OwnerOfPayment(old, e.of)] :
                          e \in old.rows["events"] }]
             db == [old EXCEPT !.rows = rows]
  <2>1. /\ DatabaseOK(old) /\ old.rows[Keys] = work.rows[Keys] /\ old.tables = work.tables
    BY OwnerKeeps
  <2>2. mstep = "events" /\ Statement("events", "endpoints", EventsFollowPayments(old))
    BY <1>9 DEF AlterEvents, Statement
  <2> HIDE DEF old
  <2>3. EventsFollowPayments(old) = db
    BY <2>1 DEF EventsFollowPayments, DatabaseOK
  <2>4. /\ DOMAIN rows = DOMAIN old.rows
        /\ rows[Keys] = old.rows[Keys] /\ rows[KeysCopy] = old.rows[KeysCopy]
    BY <2>1, TablesOfTheStore DEF DatabaseOK, Keys, KeysCopy
  <2> HIDE DEF rows
  <2>5. DOMAIN db = DOMAIN old /\ db.rows = rows /\ db.tables = old.tables
    BY <2>1 DEF DatabaseOK
  <2> HIDE DEF db
  <2>6. DatabaseOK(db)
    BY <2>1, <2>4, <2>5, OtherRowsKeep
  <2> QED BY <2>1, <2>2, <2>3, <2>4, <2>5, <2>6, StatementKeeps
<1> QED BY <1>3, <1>4, <1>5, <1>6, <1>7, <1>8, <1>9

(* The replacement of the table of keys.                                   *)
LEMMA KeyStatements ==
  ASSUME MigrationInv, CreateKeysCopy \/ CopyKeys \/ DropKeys \/ RenameCopy
  PROVE  MigrationInv'
<1> USE DEF MigrationInv
<1>1. CASE CreateKeysCopy
  <2>1. mstep = "keys"
    BY <1>1 DEF CreateKeysCopy, Statement
  <2>2. ASSUME NEW to \in {"events", "failed"}, Statement("keys", to, work)
        PROVE  MigrationInv'
    BY <2>1, <2>2, StatementKeeps
  <2>3. CASE Statement("keys", "copy", WithTable(work, KeysCopy, TRUE))
    <3> DEFINE db == WithTable(work, KeysCopy, TRUE)
    <3>1. DatabaseOK(db) /\ db.rows = work.rows /\ "merchants" \in db.tables
      BY <2>1, TableKeeps
    <3> HIDE DEF db
    <3>2. Statement("keys", "copy", db)
      BY <2>3 DEF db
    <3> QED BY <2>1, <3>1, <3>2, StatementKeeps
  <2> QED BY <1>1, <2>2, <2>3 DEF CreateKeysCopy
<1>2. CASE CopyKeys
  <2> DEFINE copied == OwnedBy(work.rows[Keys], Legacy)
             rows == [work.rows EXCEPT ![KeysCopy] = copied]
             db == [work EXCEPT !.rows = rows]
  <2>1. mstep = "copy" /\ Statement("copy", "drop", db)
    BY <1>2 DEF CopyKeys, DatabaseOK, Statement
  <2>2. KeyIds(copied) = KeyIds(work.rows[Keys])
        /\ \A k \in copied : DOMAIN k = {"id", "of", "owner"}
    <3>1. \A k \in work.rows[Keys] : DOMAIN k = {"id", "of", "owner"}
      BY DEF DatabaseOK
    <3> DEFINE legacy(k) == [k EXCEPT !.owner = Legacy]
    <3>2. \A k \in work.rows[Keys] :
            DOMAIN legacy(k) = {"id", "of", "owner"} /\ legacy(k).id = k.id
      <4> SUFFICES ASSUME NEW k \in work.rows[Keys]
                   PROVE  DOMAIN legacy(k) = {"id", "of", "owner"} /\ legacy(k).id = k.id
        OBVIOUS
      <4>1. DOMAIN k = {"id", "of", "owner"}
        BY <3>1
      <4> QED BY <4>1
    <3>3. copied = { legacy(k) : k \in work.rows[Keys] }
      BY DEF OwnedBy
    <3> HIDE DEF legacy, copied
    <3>4. \A i \in KeyIds(copied) : i \in KeyIds(work.rows[Keys])
      BY <3>2, <3>3 DEF KeyIds
    <3>5. \A i \in KeyIds(work.rows[Keys]) : i \in KeyIds(copied)
      BY <3>2, <3>3 DEF KeyIds
    <3> QED BY <3>2, <3>3, <3>4, <3>5
  <2> HIDE DEF copied
  <2>3. /\ DOMAIN rows = DOMAIN work.rows
        /\ rows[Keys] = work.rows[Keys] /\ rows[KeysCopy] = copied
    BY TablesOfTheStore DEF DatabaseOK, Keys, KeysCopy
  <2> HIDE DEF rows
  <2>4. DOMAIN db = DOMAIN work /\ db.rows = rows /\ db.tables = work.tables
    BY DEF DatabaseOK
  <2> HIDE DEF db
  <2>5. DatabaseOK(db)
    BY <2>2, <2>3, <2>4 DEF DatabaseOK
  <2>6. ~Commits("copy")
    BY DEF Commits
  <2> QED BY <2>1, <2>2, <2>3, <2>4, <2>5, <2>6, StatementKeeps
<1>3. CASE DropKeys
  <2> DEFINE rows == [work.rows EXCEPT ![Keys] = {}]
             tables == work.tables \ {Keys}
             owned == work.owned \ {Keys}
             db == [work EXCEPT !.tables = tables, !.owned = owned, !.rows = rows]
  <2>1. mstep = "drop" /\ Statement("drop", "rename", db)
    BY <1>3 DEF DropKeys, WithoutKeys, DatabaseOK, Statement
  <2>2. /\ DOMAIN rows = DOMAIN work.rows
        /\ rows[Keys] = {} /\ rows[KeysCopy] = work.rows[KeysCopy]
    BY TablesOfTheStore DEF DatabaseOK, Keys, KeysCopy
  <2>3. "merchants" \in tables
    BY <2>1 DEF Keys
  <2> HIDE DEF rows, tables, owned
  <2>4. DOMAIN db = DOMAIN work /\ db.rows = rows /\ db.tables = tables
    BY DEF DatabaseOK
  <2> HIDE DEF db
  <2>5. DatabaseOK(db)
    BY <2>2, <2>3, <2>4 DEF DatabaseOK
  <2>6. ~Commits("drop")
    BY DEF Commits
  <2> QED BY <2>1, <2>2, <2>3, <2>4, <2>5, <2>6, StatementKeeps
<1>4. CASE RenameCopy
  <2> DEFINE rows == [work.rows EXCEPT ![Keys] = work.rows[KeysCopy], ![KeysCopy] = {}]
             tables == (work.tables \ {KeysCopy}) \cup {Keys}
             owned == (work.owned \ {KeysCopy}) \cup {Keys}
             db == [work EXCEPT !.tables = tables, !.owned = owned, !.rows = rows]
  <2>1. mstep = "rename" /\ Statement("rename", "events", db)
    BY <1>4 DEF RenameCopy, CopyRenamed, DatabaseOK, Statement
  <2>2. /\ DOMAIN rows = DOMAIN work.rows
        /\ rows[Keys] = work.rows[KeysCopy] /\ rows[KeysCopy] = {}
    BY TablesOfTheStore DEF DatabaseOK, Keys, KeysCopy
  <2>3. "merchants" \in tables
    BY <2>1 DEF Keys, KeysCopy
  <2> HIDE DEF rows, tables, owned
  <2>4. DOMAIN db = DOMAIN work /\ db.rows = rows /\ db.tables = tables
    BY DEF DatabaseOK
  <2> HIDE DEF db
  <2>5. DatabaseOK(db)
    BY <2>2, <2>3, <2>4 DEF DatabaseOK
  <2>6. ~Commits("rename")
    BY DEF Commits
  <2> QED BY <2>1, <2>2, <2>3, <2>4, <2>5, <2>6, StatementKeeps
<1> QED BY <1>1, <1>2, <1>3, <1>4

LEMMA NewPaymentKeepsKeys == ASSUME MigrationInv, NewPayment PROVE MigrationInv'
<1> USE DEF MigrationInv
<1> DEFINE n == Cardinality(disk.rows["payments"]) + 1
           key == [id |-> n, of |-> n, owner |-> Legacy]
           keys == disk.rows[Keys] \cup {key}
           rows == [disk.rows EXCEPT !["payments"] = @ \cup {[id |-> n, owner |-> Legacy]},
                                     ![Keys] = keys,
                                     !["events"] = @ \cup {key}]
           db == [disk EXCEPT !.rows = rows]
<1>1. /\ mstep = "ready" /\ mstep' = mstep /\ migrator' = migrator
      /\ disk' = db /\ work' = disk' /\ bound' = bound \cup {n}
  BY DEF NewPayment, DatabaseOK
<1>2. /\ DOMAIN rows = DOMAIN disk.rows
      /\ rows[Keys] = keys /\ rows[KeysCopy] = disk.rows[KeysCopy]
  BY TablesOfTheStore DEF DatabaseOK, Keys, KeysCopy
<1>3. DOMAIN key = {"id", "of", "owner"} /\ key.id = n
  OBVIOUS
<1> HIDE DEF n, key, rows
<1>4. DOMAIN db = DOMAIN disk /\ db.rows = rows /\ db.tables = disk.tables
  BY DEF DatabaseOK
<1> HIDE DEF db
<1>5. DatabaseOK(db)
  BY <1>2, <1>3, <1>4 DEF DatabaseOK
<1>6. bound' \subseteq KeyIds(db.rows[Keys])
  BY <1>1, <1>2, <1>3, <1>4 DEF KeyIds
<1> QED BY <1>1, <1>5, <1>6 DEF KeyIds, DatabaseOK

LEMMA MigrationStepKeeps == ASSUME MigrationInv, MigrationStep PROVE MigrationInv'
<1>1. CASE InitializeStep
  BY <1>1, OtherStatements, KeyStatements DEF InitializeStep
<1>2. CASE StartService \/ StartMigrationScript
  <2>1. /\ UNCHANGED <<disk, work, bound>> /\ mstep' = "merchants"
        /\ migrator = "nobody" /\ migrator' # "nobody"
    BY <1>2 DEF StartService, StartMigrationScript, StartScript
  <2> QED BY <2>1 DEF MigrationInv, KeyIds, DatabaseOK
<1>3. CASE Stop
  <2>1. UNCHANGED <<disk, bound>> /\ work' = disk /\ mstep' = "off" /\ migrator' = "nobody"
    BY <1>3 DEF Stop
  <2> QED BY <2>1 DEF MigrationInv, KeyIds, DatabaseOK
<1>4. CASE VerifyPostMigration
  <2>1. UNCHANGED <<disk, work, bound>> /\ mstep = "ready" /\ mstep' \in {"off", "unverified"}
    BY <1>4 DEF VerifyPostMigration
  <2> QED BY <2>1 DEF MigrationInv, KeyIds, DatabaseOK
<1> QED BY <1>1, <1>2, <1>3, <1>4, NewPaymentKeepsKeys DEF MigrationStep

-----------------------------------------------------------------------------
(* The backup directory.                                                   *)

(* What of a database decides whether a restored service starts.           *)
CopyAfterMerchants(db) == KeysCopy \in db.tables => "merchants" \in db.tables

EarlySteps == {"reserve", "reserve_manifest", "copy", "place", "place_manifest"}

Steps == {"idle", "drill", "prune", "prune_manifest"} \cup EarlySteps

PairsOK ==
  /\ DOMAIN pairs = Names
  /\ \A n \in Names :
       /\ DOMAIN pairs[n] = {"database", "manifest"}
       /\ pairs[n].database.is = "database" => CopyAfterMerchants(pairs[n].database.db)
       /\ n > lastRun => pairs[n] = NoPair

RunOK ==
  /\ DOMAIN run = {"step", "name", "copy"}
  /\ run.step \in Steps
  /\ lastRun \in 0..MaxBackups
  /\ kills \in Nat
  /\ run.step # "idle" => run.name = lastRun /\ run.name \in Names

(* What a run has written at each of its steps.                            *)
WrittenOK ==
  /\ run.step = "reserve" => pairs[run.name] = NoPair
  /\ run.step = "reserve_manifest" =>
       pairs[run.name].database = Reserved /\ pairs[run.name].manifest = Absent
  /\ run.step = "copy" =>
       pairs[run.name].database = Reserved /\ pairs[run.name].manifest = Reserved
  /\ run.step \in {"place", "place_manifest"} =>
       /\ run.copy = DatabaseFile(run.copy.db)
       /\ ~Refuses(run.copy.db)
       /\ CopyAfterMerchants(run.copy.db)
       /\ pairs[run.name].database = (IF run.step = "place" THEN Reserved ELSE run.copy)
       /\ pairs[run.name].manifest = Reserved
  /\ run.step \in {"drill", "prune", "prune_manifest"} => run.name \in RecoveryPoints(pairs)
  /\ run.step = "prune_manifest" =>
       /\ run.copy.is = "pruned"
       /\ run.copy.of \in Names
       /\ pairs[run.copy.of].database = Absent

(* The pairs that no run is writing any more, and those of them that a     *)
(* killed run has left half written.                                       *)
Settled ==
  Complete(pairs) \ (IF run.step \in {"copy", "place", "place_manifest"} THEN {run.name} ELSE {})

Junk == Settled \ RecoveryPoints(pairs)

Superseded(n) == Cardinality({ o \in Settled : o > n }) >= Keep

(* Retention takes only what Keep newer pairs supersede, and only a killed *)
(* run makes one of those useless.                                         *)
RetentionOK ==
  /\ passed \subseteq 1..lastRun
  /\ Cardinality(Junk) <= kills
  /\ \A n \in passed : n \in RecoveryPoints(pairs) \/ Superseded(n)
  /\ \A n \in passed : \E o \in RecoveryPoints(pairs) : o >= n

BackupsInv == PairsOK /\ RunOK /\ WrittenOK /\ RetentionOK

LEMMA NamesAreFinite ==
  ASSUME NEW S, S \subseteq Names PROVE IsFiniteSet(S) /\ Cardinality(S) \in Nat
<1>1. IsFiniteSet(Names)
  BY BackupsAssumption, FS_Interval DEF Names
<1> QED BY <1>1, FS_Subset, FS_CardinalityType

LEMMA RecoveryPointIs ==
  ASSUME NEW dir, NEW n
  PROVE  n \in RecoveryPoints(dir) <=> n \in DOMAIN dir /\ Verified(n, dir[n])
  BY DEF RecoveryPoints, Complete, DrillPasses, Verified, Absent

(* Whether a pair is complete and whether it restores is up to that pair.  *)
LEMMA OnlyThatPair ==
  ASSUME NEW dir, NEW n \in DOMAIN dir, NEW pair, NEW m, m # n
  PROVE  LET changed == [dir EXCEPT ![n] = pair] IN
         /\ m \in Complete(changed) <=> m \in Complete(dir)
         /\ m \in RecoveryPoints(changed) <=> m \in RecoveryPoints(dir)
  BY RecoveryPointIs DEF Complete

LEMMA ThatPair ==
  ASSUME NEW dir, NEW n \in DOMAIN dir, NEW pair
  PROVE  LET changed == [dir EXCEPT ![n] = pair] IN
         /\ n \in Complete(changed) <=> pair.database # Absent /\ pair.manifest # Absent
         /\ n \in RecoveryPoints(changed) <=> Verified(n, pair)
  BY RecoveryPointIs DEF Complete

LEMMA InitBackups == BackupsInit => BackupsInv
<1> SUFFICES ASSUME BackupsInit PROVE BackupsInv
  OBVIOUS
<1>1. PairsOK /\ RunOK /\ WrittenOK
  BY BackupsAssumption DEF BackupsInit, PairsOK, RunOK, WrittenOK, IdleRun, NoPair, Absent, Steps
<1>2. Junk = {}
  BY DEF Junk, Settled, Complete, BackupsInit, NoPair
<1>3. RetentionOK
  BY <1>2, FS_EmptySet DEF RetentionOK, BackupsInit
<1> QED BY <1>1, <1>3 DEF BackupsInv

LEMMA SetsOfNames ==
  ASSUME BackupsInv
  PROVE  /\ Complete(pairs) \subseteq Names
         /\ Settled \subseteq Complete(pairs)
         /\ RecoveryPoints(pairs) \subseteq Complete(pairs)
         /\ Junk \subseteq Settled
         /\ \A n \in Complete(pairs) : n \in 1..lastRun
<1>1. Complete(pairs) \subseteq Names
  BY DEF BackupsInv, PairsOK, Complete
<1>2. \A n \in Complete(pairs) : n \in 1..lastRun
  <2> SUFFICES ASSUME NEW n \in Complete(pairs) PROVE n \in 1..lastRun
    OBVIOUS
  <2>1. n \in Names /\ pairs[n] # NoPair
    BY <1>1 DEF Complete, NoPair
  <2>2. ~(n > lastRun)
    BY <2>1 DEF BackupsInv, PairsOK
  <2> QED BY <2>1, <2>2, BackupsAssumption DEF BackupsInv, RunOK, Names
<1> QED BY <1>1, <1>2 DEF Settled, RecoveryPoints, Junk

(* A superseded pair stays so while pairs are added, and while superseded  *)
(* pairs are taken away.                                                   *)
LEMMA SupersededAfterAdding ==
  ASSUME NEW S, NEW T \in SUBSET Names, S \subseteq T, NEW n \in Names, NEW keep \in Nat,
         Cardinality({ o \in S : o > n }) >= keep
  PROVE  Cardinality({ o \in T : o > n }) >= keep
<1> DEFINE A == { o \in S : o > n }
           B == { o \in T : o > n }
<1>1. A \subseteq B /\ B \subseteq Names
  OBVIOUS
<1> HIDE DEF A, B
<1>2. IsFiniteSet(B) /\ Cardinality(B) \in Nat /\ Cardinality(A) \in Nat
  BY <1>1, NamesAreFinite
<1>3. Cardinality(A) <= Cardinality(B)
  BY <1>1, <1>2, FS_Subset
<1>4. Cardinality(A) >= keep
  BY DEF A
<1>5. Cardinality(B) >= keep
  BY <1>2, <1>3, <1>4
<1> QED BY <1>5 DEF B

LEMMA SupersededAfterTaking ==
  ASSUME NEW S \in SUBSET Names, NEW g \in Names, NEW n \in Names, NEW keep \in Nat,
         Cardinality({ o \in S : o > g }) >= keep,
         Cardinality({ o \in S : o > n }) >= keep
  PROVE  Cardinality({ o \in S \ {g} : o > n }) >= keep
<1> DEFINE A == { o \in S : o > g }
           B == { o \in S : o > n }
           C == { o \in S \ {g} : o > n }
<1>1. g > n \/ ~(g > n)
  OBVIOUS
<1>2. CASE ~(g > n)
  <2>1. B = C
    BY <1>2
  <2> QED BY <2>1
<1>3. CASE g > n
  <2>1. A \subseteq C /\ C \subseteq Names
    <3>1. \A o \in Names : o \in Nat
      BY BackupsAssumption DEF Names
    <3>2. ASSUME NEW o \in S, o > g PROVE o > n /\ o # g
      BY <1>3, <3>1, <3>2
    <3> QED BY <3>2
  <2> HIDE DEF A, C
  <2>2. IsFiniteSet(C) /\ Cardinality(C) \in Nat /\ Cardinality(A) \in Nat
    BY <2>1, NamesAreFinite
  <2>3. Cardinality(A) <= Cardinality(C)
    BY <2>1, <2>2, FS_Subset
  <2>4. Cardinality(A) >= keep
    BY DEF A
  <2>5. Cardinality(C) >= keep
    BY <2>2, <2>3, <2>4
  <2> QED BY <2>5 DEF C
<1> QED BY <1>2, <1>3

(* Steps that take no pair away.                                           *)
LEMMA RetentionGrows ==
  ASSUME BackupsInv, PairsOK', RunOK', lastRun <= lastRun', UNCHANGED <<passed, kills>>,
         Settled \subseteq Settled', Settled' \subseteq Names,
         RecoveryPoints(pairs) \subseteq RecoveryPoints(pairs'), Junk' \subseteq Junk
  PROVE  RetentionOK'
<1>1. Junk \subseteq Names
  BY SetsOfNames
<1>2. Cardinality(Junk') <= kills'
  <2>1. IsFiniteSet(Junk) /\ Cardinality(Junk) \in Nat /\ Cardinality(Junk') \in Nat
    BY <1>1, NamesAreFinite
  <2>2. Cardinality(Junk') <= Cardinality(Junk)
    BY <2>1, FS_Subset
  <2> QED BY <2>1, <2>2 DEF BackupsInv, RetentionOK, RunOK
<1>3. passed' \subseteq 1..lastRun' /\ passed \subseteq Names
  BY BackupsAssumption DEF BackupsInv, RetentionOK, RunOK, Names
<1>4. ASSUME NEW n \in passed PROVE n \in RecoveryPoints(pairs') \/ Superseded(n)'
  <2>1. CASE Superseded(n)
    <3>1. Cardinality({ o \in Settled : o > n }) >= Keep
      BY <2>1 DEF Superseded
    <3>2. Cardinality({ o \in Settled' : o > n }) >= Keep
      BY <1>3, <3>1, BackupsAssumption, SupersededAfterAdding
    <3> QED BY <3>2 DEF Superseded
  <2> QED BY <2>1 DEF BackupsInv, RetentionOK
<1>5. \A n \in passed : \E o \in RecoveryPoints(pairs') : o >= n
  BY DEF BackupsInv, RetentionOK
<1> QED BY <1>2, <1>3, <1>4, <1>5 DEF RetentionOK

(* A pair's change seen through Complete and RecoveryPoints: only that     *)
(* name is affected.                                                       *)
LEMMA Others ==
  ASSUME BackupsInv, NEW n \in Names, NEW pair, pairs' = [pairs EXCEPT ![n] = pair]
  PROVE  /\ \A m : m # n => (m \in Complete(pairs') <=> m \in Complete(pairs))
         /\ \A m : m # n => (m \in RecoveryPoints(pairs') <=> m \in RecoveryPoints(pairs))
         /\ n \in Complete(pairs') <=> pair.database # Absent /\ pair.manifest # Absent
         /\ n \in RecoveryPoints(pairs') <=> Verified(n, pair)
         /\ DOMAIN pairs' = Names
         /\ pairs'[n] = pair
         /\ \A m \in Names : m # n => pairs'[m] = pairs[m]
<1>1. n \in DOMAIN pairs /\ DOMAIN pairs = Names
  BY DEF BackupsInv, PairsOK
<1> QED BY <1>1, OnlyThatPair, ThatPair

(* A file that is put there.                                               *)
LEMMA PutFile ==
  ASSUME BackupsInv, run.step # "idle", NEW content,
         NEW file \in {"database", "manifest"}, Put(file, content)
  PROVE  LET pair == [pairs[run.name] EXCEPT ![file] = content] IN
         /\ run.name \in Names
         /\ pairs' = [pairs EXCEPT ![run.name] = pair]
         /\ DOMAIN pair = {"database", "manifest"}
         /\ pair.database = IF file = "database" THEN content ELSE pairs[run.name].database
         /\ pair.manifest = IF file = "manifest" THEN content ELSE pairs[run.name].manifest
<1>1. run.name \in Names /\ DOMAIN pairs[run.name] = {"database", "manifest"}
      /\ run.name \in DOMAIN pairs
  BY DEF BackupsInv, RunOK, PairsOK
<1>2. pairs' = [pairs EXCEPT ![run.name][file] = content]
  BY DEF Put
<1>3. pairs' = [pairs EXCEPT ![run.name] = [pairs[run.name] EXCEPT ![file] = content]]
  BY <1>1, <1>2
<1> QED BY <1>1, <1>3

LEMMA RetentionSame ==
  ASSUME BackupsInv, PairsOK', RunOK', lastRun <= lastRun', UNCHANGED <<passed, kills>>,
         Settled' = Settled, RecoveryPoints(pairs') = RecoveryPoints(pairs)
  PROVE  RetentionOK'
<1>1. Settled' \subseteq Names
  BY SetsOfNames
<1>2. Junk' = Junk
  BY DEF Junk
<1> QED BY <1>1, <1>2, RetentionGrows

(* The names, and what the files have in common.                           *)
LEMMA FileKinds ==
  /\ Absent.is = "absent" /\ Reserved.is = "reserved" /\ Reserved # Absent
  /\ NoPair.database = Absent /\ NoPair.manifest = Absent
  /\ DOMAIN NoPair = {"database", "manifest"}
  /\ \A db : DatabaseFile(db).is = "database" /\ DatabaseFile(db).db = db
             /\ DatabaseFile(db) # Absent
  /\ \A n, db : Manifest(n, db).is = "manifest" /\ Manifest(n, db) # Absent
  BY DEF Absent, Reserved, NoPair, DatabaseFile, Manifest

LEMMA BeginBackupKeeps == ASSUME BackupsInv, BeginBackup PROVE BackupsInv'
<1> USE DEF BackupsInv
<1>1. /\ run.step = "idle" /\ lastRun < MaxBackups
      /\ run' = [IdleRun EXCEPT !.step = "reserve", !.name = lastRun + 1]
      /\ lastRun' = lastRun + 1
      /\ UNCHANGED <<pairs, kills, passed>>
  BY DEF BeginBackup, AtStep
<1>2. lastRun \in 0..MaxBackups /\ lastRun' \in 1..MaxBackups /\ lastRun' > lastRun
      /\ lastRun <= lastRun'
  BY <1>1, BackupsAssumption DEF RunOK
<1>3. /\ DOMAIN run' = {"step", "name", "copy"} /\ run'.step = "reserve"
      /\ run'.name = lastRun'
  BY <1>1 DEF IdleRun
<1>4. RunOK'
  BY <1>1, <1>2, <1>3, BackupsAssumption DEF RunOK, Names, Steps, EarlySteps
<1>5. PairsOK'
  <2>1. \A n \in Names : n > lastRun' => n > lastRun
    BY <1>2, BackupsAssumption DEF Names
  <2> QED BY <1>1, <2>1 DEF PairsOK
<1>6. WrittenOK'
  BY <1>1, <1>2, <1>3 DEF WrittenOK, PairsOK, Names
<1>7. RetentionOK'
  <2>1. Settled' = Settled
    BY <1>1, <1>3 DEF Settled
  <2> QED BY <1>1, <1>2, <1>4, <1>5, <2>1, RetentionSame
<1> QED BY <1>4, <1>5, <1>6, <1>7

LEMMA ReserveKeeps ==
  ASSUME BackupsInv, ReserveDatabase \/ ReserveManifest PROVE BackupsInv'
<1> USE DEF BackupsInv
<1> DEFINE file == IF run.step = "reserve" THEN "database" ELSE "manifest"
           next == IF run.step = "reserve" THEN "reserve_manifest" ELSE "copy"
           pair == [pairs[run.name] EXCEPT ![file] = Reserved]
<1>1. /\ run.step \in {"reserve", "reserve_manifest"}
      /\ Put(file, Reserved)
      /\ run' = [run EXCEPT !.step = next]
      /\ UNCHANGED <<lastRun, kills, passed>>
  BY DEF ReserveDatabase, ReserveManifest, AtStep, Goes
<1>2. /\ run.name \in Names
      /\ pairs' = [pairs EXCEPT ![run.name] = pair]
      /\ DOMAIN pair = {"database", "manifest"}
      /\ pair.database = Reserved
      /\ pair.manifest = IF run.step = "reserve" THEN Absent ELSE Reserved
  <2>1. file \in {"database", "manifest"}
    OBVIOUS
  <2>2. /\ run.step = "reserve" => pairs[run.name] = NoPair
        /\ run.step = "reserve_manifest" => pairs[run.name].database = Reserved
    BY DEF WrittenOK
  <2> QED BY <1>1, <2>1, <2>2, PutFile, FileKinds
<1>3. /\ DOMAIN run' = {"step", "name", "copy"} /\ run'.step = next /\ run'.name = run.name
  BY <1>1 DEF RunOK
<1> HIDE DEF pair
<1>4. RunOK'
  BY <1>1, <1>3 DEF RunOK, Steps, EarlySteps
<1>5. /\ \A m : m # run.name => (m \in Complete(pairs') <=> m \in Complete(pairs))
      /\ \A m : m # run.name => (m \in RecoveryPoints(pairs') <=> m \in RecoveryPoints(pairs))
      /\ DOMAIN pairs' = Names /\ pairs'[run.name] = pair
      /\ \A m \in Names : m # run.name => pairs'[m] = pairs[m]
  BY <1>2, Others
<1>6. run.name \notin RecoveryPoints(pairs) /\ run.name \notin RecoveryPoints(pairs')
  <2>1. ~Verified(run.name, pairs[run.name])
    BY <1>1, FileKinds DEF WrittenOK, Verified
  <2>2. ~Verified(run.name, pair)
    BY <1>1, <1>2, FileKinds DEF Verified
  <2> QED BY <1>5, <2>1, <2>2, RecoveryPointIs
<1>7. PairsOK'
  <2>1. ~(run.name > lastRun)
    BY <1>1, BackupsAssumption DEF RunOK
  <2> QED BY <1>1, <1>2, <1>5, <2>1, FileKinds DEF PairsOK
<1>8. WrittenOK'
  BY <1>1, <1>2, <1>3, <1>5, FileKinds DEF WrittenOK
<1>9. RetentionOK'
  <2>1. run.name \notin Settled /\ run.name \notin Settled'
    <3>1. run.name \notin Complete(pairs)
      BY <1>1, FileKinds DEF WrittenOK, Complete
    <3>2. run'.step = "reserve_manifest" => run.name \notin Complete(pairs')
      BY <1>1, <1>2, <1>3, <1>5, FileKinds DEF Complete
    <3> QED BY <1>1, <1>3, <3>1, <3>2 DEF Settled
  <2>2. Settled' = Settled
    BY <1>1, <1>3, <1>5, <2>1 DEF Settled
  <2>3. RecoveryPoints(pairs') = RecoveryPoints(pairs)
    BY <1>5, <1>6
  <2>4. lastRun <= lastRun'
    BY <1>1 DEF RunOK
  <2> QED BY <1>1, <1>4, <1>7, <2>2, <2>3, <2>4, RetentionSame
<1> QED BY <1>4, <1>7, <1>8, <1>9

LEMMA CopyKeeps ==
  ASSUME BackupsInv, MigrationInv, CopyDatabase PROVE BackupsInv'
<1> USE DEF BackupsInv
<1>1. /\ run.step = "copy" /\ ~Refuses(disk)
      /\ run' = [run EXCEPT !.step = "place", !.copy = DatabaseFile(disk)]
      /\ UNCHANGED <<pairs, lastRun, kills, passed>>
  BY DEF CopyDatabase, AtStep
<1>2. /\ DOMAIN run' = {"step", "name", "copy"} /\ run'.step = "place"
      /\ run'.name = run.name /\ run'.copy = DatabaseFile(disk)
  BY <1>1 DEF RunOK
<1>3. RunOK' /\ PairsOK'
  BY <1>1, <1>2 DEF RunOK, PairsOK, Steps, EarlySteps
<1>4. CopyAfterMerchants(disk)
  BY DEF MigrationInv, DatabaseOK, CopyAfterMerchants
<1>5. WrittenOK'
  <2>1. run'.copy.db = disk
    BY <1>2, FileKinds
  <2>2. pairs[run.name].database = Reserved /\ pairs[run.name].manifest = Reserved
    BY <1>1 DEF WrittenOK
  <2> QED BY <1>1, <1>2, <1>4, <2>1, <2>2 DEF WrittenOK
<1>6. Settled' = Settled
  BY <1>1, <1>2 DEF Settled
<1>7. lastRun <= lastRun'
  BY <1>1 DEF RunOK
<1> QED BY <1>1, <1>3, <1>5, <1>6, <1>7, RetentionSame

LEMMA PlaceDatabaseKeeps == ASSUME BackupsInv, PlaceDatabase PROVE BackupsInv'
<1> USE DEF BackupsInv
<1> DEFINE pair == [pairs[run.name] EXCEPT !["database"] = run.copy]
<1>1. /\ run.step = "place"
      /\ Put("database", run.copy)
      /\ run' = [run EXCEPT !.step = "place_manifest"]
      /\ UNCHANGED <<lastRun, kills, passed>>
  BY DEF PlaceDatabase, AtStep, Goes
<1>2. /\ run.copy = DatabaseFile(run.copy.db)
      /\ ~Refuses(run.copy.db)
      /\ CopyAfterMerchants(run.copy.db)
      /\ pairs[run.name].database = Reserved /\ pairs[run.name].manifest = Reserved
  BY <1>1 DEF WrittenOK
<1>3. /\ run.name \in Names
      /\ pairs' = [pairs EXCEPT ![run.name] = pair]
      /\ DOMAIN pair = {"database", "manifest"}
      /\ pair.database = run.copy
      /\ pair.manifest = Reserved
  BY <1>1, <1>2, PutFile
<1>4. /\ DOMAIN run' = {"step", "name", "copy"} /\ run'.step = "place_manifest"
      /\ run'.name = run.name /\ run'.copy = run.copy
  BY <1>1 DEF RunOK
<1> HIDE DEF pair
<1>5. RunOK'
  BY <1>1, <1>4 DEF RunOK, Steps, EarlySteps
<1>6. /\ \A m : m # run.name => (m \in Complete(pairs') <=> m \in Complete(pairs))
      /\ \A m : m # run.name => (m \in RecoveryPoints(pairs') <=> m \in RecoveryPoints(pairs))
      /\ DOMAIN pairs' = Names /\ pairs'[run.name] = pair
      /\ \A m \in Names : m # run.name => pairs'[m] = pairs[m]
  BY <1>3, Others
<1>7. RecoveryPoints(pairs') = RecoveryPoints(pairs)
  <2>1. ~Verified(run.name, pairs[run.name]) /\ ~Verified(run.name, pair)
    BY <1>2, <1>3, FileKinds DEF Verified
  <2>2. run.name \notin RecoveryPoints(pairs) /\ run.name \notin RecoveryPoints(pairs')
    BY <1>6, <2>1, RecoveryPointIs
  <2> QED BY <1>6, <2>2
<1>8. PairsOK'
  <2>1. ~(run.name > lastRun)
    BY <1>1, BackupsAssumption DEF RunOK
  <2> QED BY <1>1, <1>2, <1>3, <1>6, <2>1, FileKinds DEF PairsOK
<1>9. WrittenOK'
  BY <1>2, <1>3, <1>4, <1>6 DEF WrittenOK
<1>10. Settled' = Settled
  BY <1>1, <1>4, <1>6 DEF Settled
<1>11. lastRun <= lastRun'
  BY <1>1 DEF RunOK
<1> QED BY <1>1, <1>5, <1>7, <1>8, <1>9, <1>10, <1>11, RetentionSame

(* What a run has placed is what it copied, and restores.                  *)
LEMMA PlacedIsVerified ==
  ASSUME NEW name, NEW db, ~Refuses(db), NEW pair, pair.database = DatabaseFile(db),
         pair.manifest = Manifest(name, db)
  PROVE  Verified(name, pair)
<1> HIDE DEF Refuses, BackupSummary
<1> QED BY DEF Verified, DatabaseFile, Manifest, DrillRefuses, DrillSummary

LEMMA PlaceManifestKeeps == ASSUME BackupsInv, PlaceManifest PROVE BackupsInv'
<1> USE DEF BackupsInv
<1> DEFINE manifest == Manifest(run.name, run.copy.db)
           pair == [pairs[run.name] EXCEPT !["manifest"] = manifest]
<1>1. /\ run.step = "place_manifest"
      /\ Put("manifest", manifest)
      /\ run' = [run EXCEPT !.step = "drill"]
      /\ UNCHANGED <<lastRun, kills, passed>>
  BY DEF PlaceManifest, AtStep, Goes
<1>2. /\ run.copy = DatabaseFile(run.copy.db)
      /\ ~Refuses(run.copy.db)
      /\ CopyAfterMerchants(run.copy.db)
      /\ pairs[run.name].database = run.copy
  BY <1>1 DEF WrittenOK
<1>3. /\ run.name \in Names
      /\ pairs' = [pairs EXCEPT ![run.name] = pair]
      /\ DOMAIN pair = {"database", "manifest"}
      /\ pair.database = DatabaseFile(run.copy.db)
      /\ pair.manifest = Manifest(run.name, run.copy.db)
  BY <1>1, <1>2, PutFile
<1>4. /\ DOMAIN run' = {"step", "name", "copy"} /\ run'.step = "drill"
      /\ run'.name = run.name
  BY <1>1 DEF RunOK
<1> HIDE DEF pair, manifest
<1>5. RunOK'
  BY <1>1, <1>4 DEF RunOK, Steps, EarlySteps
<1>6. /\ \A m : m # run.name => (m \in Complete(pairs') <=> m \in Complete(pairs))
      /\ \A m : m # run.name => (m \in RecoveryPoints(pairs') <=> m \in RecoveryPoints(pairs))
      /\ DOMAIN pairs' = Names /\ pairs'[run.name] = pair
      /\ \A m \in Names : m # run.name => pairs'[m] = pairs[m]
  BY <1>3, Others
<1>7. run.name \in RecoveryPoints(pairs') /\ run.name \in Complete(pairs')
  <2>1. Verified(run.name, pair)
    BY <1>2, <1>3, PlacedIsVerified
  <2>2. run.name \in RecoveryPoints(pairs')
    BY <1>3, <1>6, <2>1, RecoveryPointIs
  <2> QED BY <2>2 DEF RecoveryPoints
<1>8. PairsOK'
  <2>1. ~(run.name > lastRun)
    BY <1>1, BackupsAssumption DEF RunOK
  <2> QED BY <1>1, <1>2, <1>3, <1>6, <2>1, FileKinds DEF PairsOK
<1>9. WrittenOK'
  BY <1>4, <1>7 DEF WrittenOK
<1>10. RetentionOK'
  <2>1. /\ Settled \subseteq Settled' /\ Junk' \subseteq Junk
        /\ RecoveryPoints(pairs) \subseteq RecoveryPoints(pairs')
    BY <1>1, <1>4, <1>6, <1>7 DEF Settled, Junk
  <2>2. Settled' \subseteq Names
    BY <1>6 DEF Settled, Complete
  <2>3. lastRun <= lastRun'
    BY <1>1 DEF RunOK
  <2> QED BY <1>1, <1>5, <1>8, <2>1, <2>2, <2>3, RetentionGrows
<1> QED BY <1>5, <1>8, <1>9, <1>10

LEMMA DrillKeeps == ASSUME BackupsInv, Drill PROVE BackupsInv'
<1> USE DEF BackupsInv
<1>1. /\ run.step = "drill"
      /\ run' = [run EXCEPT !.step = "prune"]
      /\ UNCHANGED <<pairs, lastRun, kills, passed>>
  BY DEF Drill, AtStep, Goes
<1>2. /\ DOMAIN run' = {"step", "name", "copy"} /\ run'.step = "prune"
      /\ run'.name = run.name
  BY <1>1 DEF RunOK
<1>3. RunOK' /\ PairsOK'
  BY <1>1, <1>2 DEF RunOK, PairsOK, Steps, EarlySteps
<1>4. WrittenOK'
  BY <1>1, <1>2 DEF WrittenOK
<1>5. Settled' = Settled
  BY <1>1, <1>2 DEF Settled
<1>6. lastRun <= lastRun'
  BY <1>1 DEF RunOK
<1> QED BY <1>1, <1>3, <1>4, <1>5, <1>6, RetentionSame

LEMMA PruneDatabaseKeeps ==
  ASSUME BackupsInv, PruneDatabase
  PROVE  BackupsInv' /\ run.name \in RecoveryPoints(pairs')
<1> USE DEF BackupsInv
<1>1. PICK n \in Surplus(pairs, Keep) :
        /\ pairs' = [pairs EXCEPT ![n].database = Absent]
        /\ run' = [run EXCEPT !.step = "prune_manifest", !.copy = [is |-> "pruned", of |-> n]]
  BY DEF PruneDatabase
<1>2. run.step = "prune" /\ UNCHANGED <<lastRun, kills, passed>>
  BY DEF PruneDatabase, AtStep
<1>3. /\ n \in Complete(pairs)
      /\ n \in Names
      /\ Cardinality({ o \in Complete(pairs) : o > n }) >= Keep
  BY <1>1, SetsOfNames DEF Surplus
<1>4. Settled = Complete(pairs)
  BY <1>2 DEF Settled
<1>5. n # run.name
  <2> DEFINE newer == { o \in Complete(pairs) : o > n }
  <2>1. newer # {}
    <3> HIDE DEF newer
    <3> SUFFICES ASSUME newer = {} PROVE FALSE
      OBVIOUS
    <3>1. Cardinality(newer) = 0
      BY FS_EmptySet
    <3> QED BY <1>3, <3>1, BackupsAssumption DEF newer
  <2>2. PICK o \in Complete(pairs) : o > n
    BY <2>1
  <2>3. o \in 1..lastRun /\ run.name = lastRun
    BY <1>2, <2>2, SetsOfNames DEF RunOK
  <2> QED BY <1>3, <2>2, <2>3, BackupsAssumption DEF RunOK, Names
<1> DEFINE pair == [pairs[n] EXCEPT !.database = Absent]
<1>6. pairs' = [pairs EXCEPT ![n] = pair]
  BY <1>1, <1>3 DEF PairsOK
<1>7. /\ DOMAIN pair = {"database", "manifest"}
      /\ pair.database = Absent
  BY <1>3 DEF PairsOK
<1> HIDE DEF pair
<1>8. /\ \A m : m # n => (m \in Complete(pairs') <=> m \in Complete(pairs))
      /\ \A m : m # n => (m \in RecoveryPoints(pairs') <=> m \in RecoveryPoints(pairs))
      /\ n \notin Complete(pairs')
      /\ DOMAIN pairs' = Names /\ pairs'[n] = pair
      /\ \A m \in Names : m # n => pairs'[m] = pairs[m]
  BY <1>3, <1>6, <1>7, Others
<1>9. n \notin RecoveryPoints(pairs')
  BY <1>8 DEF RecoveryPoints
<1>10. /\ DOMAIN run' = {"step", "name", "copy"} /\ run'.step = "prune_manifest"
       /\ run'.name = run.name /\ run'.copy.is = "pruned" /\ run'.copy.of = n
  BY <1>1 DEF RunOK
<1>11. RunOK'
  BY <1>2, <1>10 DEF RunOK, Steps, EarlySteps
<1>12. run.name \in RecoveryPoints(pairs')
  BY <1>2, <1>5, <1>8 DEF WrittenOK
<1>13. PairsOK'
  <2>1. ~(n > lastRun)
    BY <1>3, SetsOfNames DEF RunOK
  <2> QED BY <1>2, <1>7, <1>8, <2>1, FileKinds DEF PairsOK
<1>14. WrittenOK'
  BY <1>3, <1>7, <1>8, <1>10, <1>12 DEF WrittenOK
<1>15. RetentionOK'
  <2>1. Settled' = Settled \ {n} /\ Settled \in SUBSET Names
    BY <1>4, <1>8, <1>10, SetsOfNames DEF Settled
  <2>2. Cardinality(Junk') <= kills'
    <3>1. Junk' \subseteq Junk /\ Junk \subseteq Names
      BY <1>8, <1>9, <2>1, SetsOfNames DEF Junk
    <3>2. IsFiniteSet(Junk) /\ Cardinality(Junk) \in Nat /\ Cardinality(Junk') \in Nat
      BY <3>1, NamesAreFinite
    <3>3. Cardinality(Junk') <= Cardinality(Junk)
      BY <3>1, <3>2, FS_Subset
    <3> QED BY <1>2, <3>2, <3>3 DEF RetentionOK, RunOK
  <2>3. passed \subseteq 1..lastRun /\ passed \subseteq Names
    BY BackupsAssumption DEF RetentionOK, RunOK, Names
  <2>4. ASSUME NEW m \in passed PROVE m \in RecoveryPoints(pairs') \/ Superseded(m)'
    <3>1. CASE m \in RecoveryPoints(pairs) /\ m # n
      BY <1>8, <3>1
    <3>2. CASE m = n \/ Superseded(m)
      <4>1. Cardinality({ o \in Settled : o > m }) >= Keep
        BY <1>3, <1>4, <3>2 DEF Superseded
      <4>2. Cardinality({ o \in Settled : o > n }) >= Keep
        BY <1>3, <1>4
      <4>3. Cardinality({ o \in Settled \ {n} : o > m }) >= Keep
        BY <1>3, <2>1, <2>3, <4>1, <4>2, BackupsAssumption, SupersededAfterTaking
      <4> QED BY <2>1, <4>3 DEF Superseded
    <3> QED BY <3>1, <3>2 DEF RetentionOK
  <2>5. \A m \in passed : run.name >= m
    BY <1>2, <2>3 DEF RunOK
  <2> QED BY <1>2, <1>12, <2>2, <2>3, <2>4, <2>5 DEF RetentionOK
<1> QED BY <1>11, <1>12, <1>13, <1>14, <1>15

LEMMA PruneManifestKeeps == ASSUME BackupsInv, PruneManifest PROVE BackupsInv'
<1> USE DEF BackupsInv
<1> DEFINE n == run.copy.of
           pair == [pairs[n] EXCEPT !.manifest = Absent]
<1>1. /\ run.step = "prune_manifest"
      /\ pairs' = [pairs EXCEPT ![n].manifest = Absent]
      /\ run' = [run EXCEPT !.step = "prune"]
      /\ UNCHANGED <<lastRun, kills, passed>>
  BY DEF PruneManifest, AtStep, Goes
<1>2. /\ n \in Names /\ pairs[n].database = Absent
      /\ run.name \in RecoveryPoints(pairs)
  BY <1>1 DEF WrittenOK
<1> HIDE DEF n
<1>3. pairs' = [pairs EXCEPT ![n] = pair]
  BY <1>1, <1>2 DEF PairsOK
<1>4. /\ DOMAIN pair = {"database", "manifest"}
      /\ pair.database = Absent /\ pair.manifest = Absent
  BY <1>2 DEF PairsOK
<1> HIDE DEF pair
<1>5. /\ \A m : m # n => (m \in Complete(pairs') <=> m \in Complete(pairs))
      /\ \A m : m # n => (m \in RecoveryPoints(pairs') <=> m \in RecoveryPoints(pairs))
      /\ n \notin Complete(pairs')
      /\ DOMAIN pairs' = Names /\ pairs'[n] = pair
      /\ \A m \in Names : m # n => pairs'[m] = pairs[m]
  BY <1>2, <1>3, <1>4, Others
<1>6. n \notin Complete(pairs)
  BY <1>2 DEF Complete
<1>7. RecoveryPoints(pairs') = RecoveryPoints(pairs) /\ Complete(pairs') = Complete(pairs)
  BY <1>5, <1>6 DEF RecoveryPoints
<1>8. /\ DOMAIN run' = {"step", "name", "copy"} /\ run'.step = "prune"
      /\ run'.name = run.name
  BY <1>1 DEF RunOK
<1>9. RunOK'
  BY <1>1, <1>8 DEF RunOK, Steps, EarlySteps
<1>10. PairsOK'
  <2>1. n > lastRun => pair = NoPair
    <3>1. n > lastRun => pairs[n] = NoPair
      BY <1>2 DEF PairsOK
    <3> QED BY <3>1, FileKinds DEF pair, NoPair
  <2> QED BY <1>1, <1>4, <1>5, <2>1, FileKinds DEF PairsOK
<1>11. WrittenOK'
  BY <1>2, <1>7, <1>8 DEF WrittenOK
<1>12. Settled' = Settled
  BY <1>1, <1>7, <1>8 DEF Settled
<1>13. lastRun <= lastRun'
  BY <1>1 DEF RunOK
<1> QED BY <1>1, <1>7, <1>9, <1>10, <1>11, <1>12, <1>13, RetentionSame

LEMMA IdleIsARun ==
  /\ DOMAIN IdleRun = {"step", "name", "copy"} /\ IdleRun.step = "idle"
  BY DEF IdleRun

LEMMA PassKeeps == ASSUME BackupsInv, PassBackup PROVE BackupsInv'
<1> USE DEF BackupsInv
<1>1. /\ run.step = "prune" /\ run' = IdleRun /\ passed' = passed \cup {run.name}
      /\ UNCHANGED <<pairs, lastRun, kills>>
  BY DEF PassBackup, AtStep
<1>2. RunOK' /\ PairsOK' /\ WrittenOK'
  BY <1>1, IdleIsARun DEF RunOK, PairsOK, WrittenOK, Steps
<1>3. Settled' = Settled
  BY <1>1, IdleIsARun DEF Settled
<1>4. run.name \in RecoveryPoints(pairs) /\ run.name = lastRun /\ run.name \in 1..lastRun
  BY <1>1, BackupsAssumption DEF WrittenOK, RunOK, Names
<1>5. \A n \in passed : n \in RecoveryPoints(pairs) \/ Superseded(n)'
  BY <1>3 DEF RetentionOK, Superseded
<1>6. Cardinality(Junk') <= kills'
  BY <1>1, <1>3 DEF RetentionOK, Junk
<1>7. run.name >= run.name
  BY <1>4 DEF RunOK
<1>8. RetentionOK'
  BY <1>1, <1>4, <1>5, <1>6, <1>7 DEF RetentionOK
<1> QED BY <1>2, <1>8

LEMMA FailsKeeps == ASSUME BackupsInv, RunFails PROVE BackupsInv'
<1> USE DEF BackupsInv
<1>1. /\ run.step # "idle" /\ run' = IdleRun
      /\ UNCHANGED <<lastRun, kills, passed>>
  BY DEF RunFails
<1>2. RunOK' /\ lastRun <= lastRun' /\ run.name \in Names
  BY <1>1, IdleIsARun DEF RunOK, Steps
<1>3. WrittenOK'
  BY <1>1, IdleIsARun DEF WrittenOK
<1>4. CASE run.step \notin EarlySteps
  <2>1. pairs' = pairs
    BY <1>4 DEF RunFails, EarlySteps
  <2>2. PairsOK'
    BY <1>1, <2>1 DEF PairsOK
  <2>3. Settled' = Settled
    BY <1>1, <1>4, <2>1, IdleIsARun DEF Settled, EarlySteps
  <2> QED BY <1>1, <1>2, <1>3, <2>1, <2>2, <2>3, RetentionSame
<1>5. CASE run.step \in EarlySteps
  <2>1. pairs' = [pairs EXCEPT ![run.name] = NoPair]
    BY <1>5 DEF RunFails, EarlySteps, Cleanup
  <2>2. /\ \A m : m # run.name => (m \in Complete(pairs') <=> m \in Complete(pairs))
        /\ \A m : m # run.name => (m \in RecoveryPoints(pairs') <=> m \in RecoveryPoints(pairs))
        /\ run.name \notin Complete(pairs')
        /\ DOMAIN pairs' = Names /\ pairs'[run.name] = NoPair
        /\ \A m \in Names : m # run.name => pairs'[m] = pairs[m]
    BY <1>2, <2>1, Others, FileKinds
  <2>3. PairsOK'
    BY <1>1, <2>2, FileKinds DEF PairsOK
  <2>4. pairs[run.name].manifest.is # "manifest"
    BY <1>5, FileKinds DEF WrittenOK, EarlySteps
  <2>5. RecoveryPoints(pairs') = RecoveryPoints(pairs)
    <3>1. run.name \notin RecoveryPoints(pairs)
      BY <2>4, RecoveryPointIs DEF Verified
    <3> QED BY <2>2, <3>1 DEF RecoveryPoints
  <2>6. run.name \notin Settled
    BY <1>5, FileKinds DEF Settled, Complete, WrittenOK, EarlySteps
  <2>7. Settled' = Settled
    BY <1>1, <2>2, <2>6, IdleIsARun DEF Settled
  <2> QED BY <1>1, <1>2, <1>3, <2>3, <2>5, <2>7, RetentionSame
<1> QED BY <1>4, <1>5

LEMMA KilledKeeps == ASSUME BackupsInv, RunKilled PROVE BackupsInv'
<1> USE DEF BackupsInv
<1>1. /\ run.step # "idle" /\ run' = IdleRun /\ kills' = kills + 1
      /\ UNCHANGED <<pairs, lastRun, passed>>
  BY DEF RunKilled
<1>2. RunOK' /\ PairsOK' /\ WrittenOK' /\ kills \in Nat
  BY <1>1, IdleIsARun DEF RunOK, PairsOK, WrittenOK, Steps
<1>3. /\ Settled \subseteq Settled' /\ Settled' \subseteq Settled \cup {run.name}
      /\ Settled' \subseteq Names
  <2>1. Settled' = Complete(pairs)
    BY <1>1, IdleIsARun DEF Settled
  <2> QED BY <2>1, SetsOfNames DEF Settled
<1>4. Cardinality(Junk') <= kills'
  <2>1. IsFiniteSet(Junk) /\ Cardinality(Junk) \in Nat
    <3>1. Junk \subseteq Names
      BY SetsOfNames
    <3> QED BY <3>1, NamesAreFinite
  <2>2. /\ IsFiniteSet(Junk \cup {run.name})
        /\ Cardinality(Junk \cup {run.name}) <= Cardinality(Junk) + 1
    BY <2>1, FS_AddElement
  <2>3. Junk' \subseteq Junk \cup {run.name}
    BY <1>1, <1>3 DEF Junk
  <2>4. /\ Cardinality(Junk') <= Cardinality(Junk \cup {run.name})
        /\ IsFiniteSet(Junk')
    BY <2>2, <2>3, FS_Subset
  <2>5. Cardinality(Junk') \in Nat /\ Cardinality(Junk \cup {run.name}) \in Nat
    BY <2>2, <2>4, FS_CardinalityType
  <2>6. Cardinality(Junk) <= kills
    BY DEF RetentionOK
  <2> QED BY <1>1, <1>2, <2>1, <2>2, <2>4, <2>5, <2>6
<1>5. \A n \in passed : n \in RecoveryPoints(pairs) \/ Superseded(n)'
  <2> SUFFICES ASSUME NEW n \in passed, Superseded(n) PROVE Superseded(n)'
    BY DEF RetentionOK
  <2>1. n \in Names
    BY BackupsAssumption DEF RetentionOK, RunOK, Names
  <2>2. Cardinality({ o \in Settled : o > n }) >= Keep
    BY DEF Superseded
  <2>3. Cardinality({ o \in Settled' : o > n }) >= Keep
    BY <1>3, <2>1, <2>2, BackupsAssumption, SupersededAfterAdding
  <2> QED BY <2>3 DEF Superseded
<1>6. RetentionOK'
  BY <1>1, <1>4, <1>5 DEF RetentionOK
<1> QED BY <1>2, <1>6

LEMMA BackupStepKeeps == ASSUME BackupsInv, MigrationInv, BackupStep PROVE BackupsInv'
  BY BeginBackupKeeps, ReserveKeeps, CopyKeeps, PlaceDatabaseKeeps, PlaceManifestKeeps,
     DrillKeeps, PruneDatabaseKeeps, PruneManifestKeeps, PassKeeps, FailsKeeps, KilledKeeps
     DEF BackupStep

LEMMA BackupsAlone == ASSUME BackupsInv, UNCHANGED backupVars PROVE BackupsInv'
  BY DEF BackupsInv, backupVars, PairsOK, RunOK, WrittenOK, RetentionOK, Superseded, Junk, Settled

LEMMA MigrationAlone == ASSUME MigrationInv, UNCHANGED migrationVars PROVE MigrationInv'
  BY DEF MigrationInv, migrationVars, DatabaseOK, KeyIds

-----------------------------------------------------------------------------
(* The script has a backup to go back to.                                  *)

LEMMA LeastNatural ==
  ASSUME NEW S \in SUBSET Nat, S # {} PROVE \E x \in S : \A y \in S : x <= y
<1>1. PICK x \in S : \A y \in S : ~(<<y, x>> \in OpToRel(<, Nat))
  BY WFMin, NatLessThanWellFounded
<1>2. \A y \in S : ~(y < x)
  BY <1>1 DEF OpToRel
<1> QED BY <1>2

LEMMA NewestIs ==
  ASSUME NEW dir, DOMAIN dir = Names, Complete(dir) # {}
  PROVE  Newest(dir) \in Complete(dir) /\ \A o \in Complete(dir) : o <= Newest(dir)
<1> DEFINE back == { MaxBackups - n : n \in Complete(dir) }
<1>1. \A n \in Complete(dir) : n \in Nat /\ MaxBackups - n \in Nat
  BY BackupsAssumption DEF Complete, Names
<1>2. back \in SUBSET Nat /\ back # {}
  BY <1>1
<1>3. PICK least \in back : \A y \in back : least <= y
  <2> HIDE DEF back
  <2> QED BY <1>2, LeastNatural
<1>4. PICK n \in Complete(dir) : least = MaxBackups - n
  BY <1>3
<1>5. \A o \in Complete(dir) : o <= n
  <2> SUFFICES ASSUME NEW o \in Complete(dir) PROVE o <= n
    OBVIOUS
  <2>1. MaxBackups - n <= MaxBackups - o
    BY <1>3, <1>4
  <2> QED BY <1>1, <2>1, BackupsAssumption
<1> QED BY <1>5 DEF Newest

LEMMA RecoveryPointsStay ==
  ASSUME BackupsInv, BackupStep, RecoveryPoints(pairs) # {}
  PROVE  RecoveryPoints(pairs') # {}
<1> USE DEF BackupsInv
<1>1. run.step \in EarlySteps =>
        run.name \in Names /\ pairs[run.name].manifest.is # "manifest"
  BY FileKinds DEF WrittenOK, RunOK, EarlySteps
<1>2. ASSUME NEW n \in Names, n \notin RecoveryPoints(pairs),
             NEW pair, pairs' = [pairs EXCEPT ![n] = pair]
      PROVE  RecoveryPoints(pairs') # {}
  BY <1>2, Others
<1>3. CASE run.step \in EarlySteps /\ \E file \in {"database", "manifest"} : \E c : Put(file, c)
  <2>1. PICK file \in {"database", "manifest"} : \E c : Put(file, c)
    BY <1>3
  <2>2. run.name \notin RecoveryPoints(pairs)
    BY <1>1, <1>3, RecoveryPointIs DEF Verified
  <2>3. run.step # "idle"
    BY <1>3 DEF EarlySteps
  <2> QED BY <1>2, <2>1, <2>2, <2>3, PutFile
<1>4. CASE ReserveDatabase \/ ReserveManifest \/ PlaceDatabase \/ PlaceManifest
  BY <1>3, <1>4
     DEF ReserveDatabase, ReserveManifest, PlaceDatabase, PlaceManifest, AtStep, EarlySteps
<1>5. CASE PruneManifest
  <2> DEFINE n == run.copy.of
  <2>1. /\ n \in Names /\ pairs[n].database = Absent
        /\ pairs' = [pairs EXCEPT ![n].manifest = Absent]
    BY <1>5 DEF PruneManifest, AtStep, WrittenOK
  <2>2. n \notin RecoveryPoints(pairs)
    BY <2>1 DEF RecoveryPoints, Complete
  <2> HIDE DEF n
  <2>3. pairs' = [pairs EXCEPT ![n] = [pairs[n] EXCEPT !.manifest = Absent]]
    BY <2>1 DEF PairsOK
  <2> QED BY <1>2, <2>1, <2>2, <2>3
<1>6. CASE RunFails
  <2>1. CASE run.step \in EarlySteps
    <3>1. pairs' = [pairs EXCEPT ![run.name] = NoPair]
      BY <1>6, <2>1 DEF RunFails, EarlySteps, Cleanup
    <3>2. run.name \in Names /\ run.name \notin RecoveryPoints(pairs)
      BY <1>1, <2>1, RecoveryPointIs DEF Verified
    <3> QED BY <1>2, <3>1, <3>2
  <2>2. CASE run.step \notin EarlySteps
    BY <1>6, <2>2 DEF RunFails, EarlySteps
  <2> QED BY <2>1, <2>2
<1>7. CASE BeginBackup \/ CopyDatabase \/ Drill \/ PassBackup \/ RunKilled
  BY <1>7 DEF BeginBackup, CopyDatabase, Drill, PassBackup, RunKilled
<1>8. CASE PruneDatabase
  BY <1>8, PruneDatabaseKeeps
<1> QED BY <1>4, <1>5, <1>6, <1>7, <1>8 DEF BackupStep

LEMMA ScriptStep ==
  ASSUME BackupsInv, MigrationHasRecoveryPoint, [OperationsNext]_operationVars
  PROVE  MigrationHasRecoveryPoint'
<1>1. CASE MigrationStep /\ UNCHANGED <<backupVars, offhostVars>>
  <2>1. pairs' = pairs
    BY <1>1 DEF backupVars
  <2>2. CASE StartMigrationScript
    <3>1. Newest(pairs) \in RecoveryPoints(pairs)
      <4>1. DOMAIN pairs = Names
        BY DEF BackupsInv, PairsOK
      <4> QED BY <2>2, <4>1, NewestIs DEF StartMigrationScript, LatestPairGood, RecoveryPoints
    <3> QED BY <2>1, <3>1 DEF MigrationHasRecoveryPoint
  <2>3. CASE InitializeStep \/ NewPayment
    <3>1. migrator' = migrator
      BY <2>3 DEF InitializeStep, CreateMerchants, CreateCredentials, InsertLegacyMerchant,
           CreateMissingTable, AlterPayments, CreateKeysCopy, CopyKeys, DropKeys, RenameCopy,
           AlterEvents, AlterEndpoints, Statement, NewPayment
    <3> QED BY <2>1, <3>1 DEF MigrationHasRecoveryPoint
  <2>4. CASE StartService \/ Stop \/ VerifyPostMigration
    BY <2>4 DEF StartService, Stop, VerifyPostMigration, MigrationHasRecoveryPoint
  <2> QED BY <1>1, <2>2, <2>3, <2>4 DEF MigrationStep
<1>2. CASE BackupStep /\ UNCHANGED <<migrationVars, offhostVars>>
  <2>1. migrator' = migrator
    BY <1>2 DEF migrationVars
  <2> QED BY <1>2, <2>1, RecoveryPointsStay DEF MigrationHasRecoveryPoint
<1>3. CASE UNCHANGED <<migrationVars, backupVars>>
  BY <1>3 DEF migrationVars, backupVars, MigrationHasRecoveryPoint
<1> QED BY <1>1, <1>2, <1>3 DEF OperationsNext, operationVars

-----------------------------------------------------------------------------
(* The copies on the other machine.                                        *)

AtWork == {"header", "stage", "link_database", "link_manifest", "prune", "prune_manifest"}

OffhostTyped ==
  /\ DOMAIN remote = Names
  /\ \A n \in Names : DOMAIN remote[n] = {"database", "manifest"}
  /\ DOMAIN receivers = Receivers
  /\ \A r \in Receivers :
       /\ DOMAIN receivers[r] = {"step", "name", "arrived", "doomed"}
       /\ receivers[r].step \in AtWork \cup {"idle", "pass", "fail"}
       /\ receivers[r].name \in Names \cup {0}
       /\ receivers[r].step \in AtWork \cup {"pass"} => receivers[r].name \in Names
       /\ receivers[r].doomed \subseteq Names
  /\ DOMAIN sender = {"step", "name", "via"}
  /\ sender.step \in {"idle", "send", "wait"}
  /\ sender.step # "idle" => sender.name \in Names
  /\ sender.step = "wait" =>
       /\ sender.via \in Receivers
       /\ receivers[sender.via].step = "fail" \/ receivers[sender.via].name = sender.name

(* Nothing of a backup has left the machine.                               *)
Unsent(n) ==
  /\ remote[n].database = Absent /\ remote[n].manifest = Absent
  /\ \A r \in Receivers : receivers[r].name # n

(* Whatever there is of a backup, here, on its way or on the other machine *)
(* is of the same database, and what gets linked there has been drilled.   *)
SameDatabase(n, db) ==
  /\ pairs[n].database \in {Absent, Reserved, DatabaseFile(db)}
  /\ pairs[n].manifest \in {Absent, Reserved, Manifest(n, db)}
  /\ remote[n].database \in {Absent, DatabaseFile(db)}
  /\ remote[n].manifest \in {Absent, Manifest(n, db)}
  /\ remote[n].database # Absent \/ remote[n].manifest # Absent => ~DrillRefuses(db)
  /\ \A r \in Receivers :
       receivers[r].name = n =>
         /\ receivers[r].arrived.database \in {Truncated, DatabaseFile(db)}
         /\ receivers[r].arrived.manifest = Manifest(n, db)
         /\ receivers[r].step \in {"link_database", "link_manifest"} =>
              receivers[r].arrived.database # Truncated /\ ~DrillRefuses(db)

ContentsOK ==
  \A n \in Names :
    /\ \E db : SameDatabase(n, db)
    /\ n > lastRun \/ (n = run.name /\ run.step \in EarlySteps) => Unsent(n)

(* As many newer copies are there as are to be retained.                   *)
Supplanted(n) == Cardinality({ o \in Complete(remote) : o > n }) >= RemoteKeep

Linking(r, n) == receivers[r].step = "link_manifest" /\ receivers[r].name = n

(* A receiver takes away nothing but what newer copies supplant, even when *)
(* two of them are at the same name.                                       *)
HalfPairs ==
  /\ \A n \in Names :
       remote[n].manifest # Absent /\ remote[n].database = Absent => Supplanted(n)
  /\ \A r \in Receivers : \A n \in receivers[r].doomed : Supplanted(n)
  /\ \A r \in Receivers : \A n \in Names :
       /\ Linking(r, n) /\ (remote[n].database = Absent \/ remote[n].manifest # Absent)
            => Supplanted(n)
       /\ \A q \in Receivers \ {r} : Linking(r, n) /\ Linking(q, n) => Supplanted(n)

KeptOK ==
  /\ \A r \in Receivers : \A n \in Names :
       receivers[r].name = n /\ receivers[r].step \in {"prune", "prune_manifest", "pass"} =>
         n \in Complete(remote) \/ Supplanted(n)
  /\ reported \subseteq Names
  /\ \A n \in reported : n \in Complete(remote) \/ Supplanted(n)

OffhostInv == OffhostTyped /\ ContentsOK /\ HalfPairs /\ KeptOK

LEMMA InitOffhost == BackupsInit /\ OffhostInit => OffhostInv
<1> SUFFICES ASSUME BackupsInit, OffhostInit PROVE OffhostInv
  OBVIOUS
<1>1. /\ DOMAIN IdleReceiver = {"step", "name", "arrived", "doomed"}
      /\ IdleReceiver.step = "idle" /\ IdleReceiver.name = 0 /\ IdleReceiver.doomed = {}
  BY DEF IdleReceiver
<1>2. \A r \in Receivers : receivers[r] = IdleReceiver
  BY DEF OffhostInit
<1>3. \A n \in Names : remote[n] = NoPair /\ pairs[n] = NoPair /\ n # 0
  BY BackupsAssumption DEF OffhostInit, BackupsInit, Names
<1>4. OffhostTyped
  <2>1. DOMAIN sender = {"step", "name", "via"} /\ sender.step = "idle"
    BY DEF OffhostInit, IdleSender
  <2>2. DOMAIN remote = Names /\ DOMAIN receivers = Receivers
    BY DEF OffhostInit
  <2> QED BY <1>1, <1>2, <1>3, <2>1, <2>2, FileKinds DEF OffhostTyped, AtWork
<1>5. ContentsOK
  <2>1. \A n \in Names : Unsent(n)
    BY <1>1, <1>2, <1>3, FileKinds DEF Unsent
  <2>2. \A n \in Names : SameDatabase(n, disk)
    BY <1>1, <1>2, <1>3, FileKinds DEF SameDatabase
  <2> QED BY <2>1, <2>2 DEF ContentsOK
<1>6. HalfPairs /\ KeptOK
  BY <1>1, <1>2, <1>3, FileKinds DEF HalfPairs, KeptOK, Linking, OffhostInit
<1> QED BY <1>4, <1>5, <1>6 DEF OffhostInv

(* What the backups do meanwhile: a run writes only where nothing has left *)
(* the machine.                                                            *)
LEMMA ContentsBehindBackups ==
  ASSUME BackupsInv, MigrationInv, ContentsOK, BackupStep, UNCHANGED offhostVars
  PROVE  ContentsOK'
<1> USE DEF BackupsInv
<1>1. UNCHANGED <<remote, receivers>>
  BY DEF offhostVars
<1>2. \A n : Unsent(n)' <=> Unsent(n)
  BY <1>1 DEF Unsent
<1>3. ASSUME NEW n \in Names, n > lastRun' \/ (n = run'.name /\ run'.step \in EarlySteps)
      PROVE  Unsent(n)'
  <2>1. CASE BeginBackup
    <3>1. run'.name = lastRun + 1 /\ lastRun' = lastRun + 1 /\ lastRun \in Nat
      BY <2>1, BackupsAssumption DEF BeginBackup, IdleRun, RunOK
    <3>2. n > lastRun
      BY <1>3, <3>1, BackupsAssumption DEF Names
    <3> QED BY <1>2, <3>2 DEF ContentsOK
  <2>2. CASE UNCHANGED lastRun /\ (run' = IdleRun
              \/ (run'.name = run.name /\ (run'.step \in EarlySteps => run.step \in EarlySteps)))
    <3>1. IdleRun.step \notin EarlySteps
      BY DEF IdleRun, EarlySteps
    <3> QED BY <1>2, <1>3, <2>2, <3>1 DEF ContentsOK
  <2>3. BackupStep /\ ~BeginBackup =>
          UNCHANGED lastRun /\ (run' = IdleRun
              \/ (run'.name = run.name /\ (run'.step \in EarlySteps => run.step \in EarlySteps)))
    BY DEF BackupStep, ReserveDatabase, ReserveManifest, CopyDatabase, PlaceDatabase,
           PlaceManifest, Drill, PruneDatabase, PruneManifest, PassBackup, RunFails, RunKilled,
           AtStep, Goes, RunOK, EarlySteps
  <2> QED BY <2>1, <2>2, <2>3
<1>4. ASSUME NEW n \in Names PROVE \E db : SameDatabase(n, db)'
  <2>1. PICK db : SameDatabase(n, db)
    BY DEF ContentsOK
  <2>2. ASSUME /\ pairs'[n].database \in {Absent, Reserved, pairs[n].database}
               /\ pairs'[n].manifest \in {Absent, Reserved, pairs[n].manifest}
        PROVE  SameDatabase(n, db)'
    BY <1>1, <2>1, <2>2 DEF SameDatabase
  <2>3. ASSUME NEW g \in Names, NEW pair, pairs' = [pairs EXCEPT ![g] = pair],
               pair.database \in {Absent, Reserved, pairs[g].database},
               pair.manifest \in {Absent, Reserved, pairs[g].manifest}
        PROVE  SameDatabase(n, db)'
    BY <2>2, <2>3 DEF PairsOK
  <2>4. CASE BeginBackup \/ CopyDatabase \/ Drill \/ PassBackup \/ RunKilled
    BY <2>2, <2>4 DEF BeginBackup, CopyDatabase, Drill, PassBackup, RunKilled
  <2>5. CASE ReserveDatabase \/ ReserveManifest
    <3>1. PICK file \in {"database", "manifest"} : Put(file, Reserved)
      BY <2>5 DEF ReserveDatabase, ReserveManifest
    <3>2. run.step # "idle"
      BY <2>5 DEF ReserveDatabase, ReserveManifest, AtStep
    <3> DEFINE pair == [pairs[run.name] EXCEPT ![file] = Reserved]
    <3>3. /\ run.name \in Names /\ pairs' = [pairs EXCEPT ![run.name] = pair]
          /\ pair.database \in {Reserved, pairs[run.name].database}
          /\ pair.manifest \in {Reserved, pairs[run.name].manifest}
      BY <3>1, <3>2, PutFile
    <3> HIDE DEF pair
    <3> QED BY <2>3, <3>3
  <2>6. CASE PlaceDatabase \/ PlaceManifest
    <3>1. /\ run.step \in {"place", "place_manifest"}
          /\ run.copy = DatabaseFile(run.copy.db) /\ pairs[run.name].manifest = Reserved
          /\ pairs[run.name].database \in {Reserved, run.copy}
          /\ run.name \in Names
      BY <2>6 DEF PlaceDatabase, PlaceManifest, AtStep, WrittenOK, RunOK
    <3>2. Put("database", run.copy) \/ Put("manifest", Manifest(run.name, run.copy.db))
      BY <2>6 DEF PlaceDatabase, PlaceManifest
    <3>3. /\ pairs'[run.name].database \in {Reserved, run.copy}
          /\ pairs'[run.name].manifest \in {Reserved, Manifest(run.name, run.copy.db)}
          /\ \A m \in Names : m # run.name => pairs'[m] = pairs[m]
      <4>1. ASSUME NEW file \in {"database", "manifest"}, NEW c, Put(file, c)
            PROVE  LET pair == [pairs[run.name] EXCEPT ![file] = c] IN
                   /\ pairs'[run.name] = pair
                   /\ pair.database = IF file = "database" THEN c ELSE pairs[run.name].database
                   /\ pair.manifest = IF file = "manifest" THEN c ELSE pairs[run.name].manifest
                   /\ \A m \in Names : m # run.name => pairs'[m] = pairs[m]
        <5> DEFINE pair == [pairs[run.name] EXCEPT ![file] = c]
        <5>1. run.step # "idle"
          BY <3>1
        <5>2. /\ pairs' = [pairs EXCEPT ![run.name] = pair]
              /\ pair.database = IF file = "database" THEN c ELSE pairs[run.name].database
              /\ pair.manifest = IF file = "manifest" THEN c ELSE pairs[run.name].manifest
          BY <4>1, <5>1, PutFile
        <5> HIDE DEF pair
        <5>3. pairs'[run.name] = pair /\ \A m \in Names : m # run.name => pairs'[m] = pairs[m]
          BY <3>1, <5>2, Others
        <5> QED BY <5>2, <5>3 DEF pair
      <4>2. CASE Put("database", run.copy)
        BY <3>1, <4>1, <4>2
      <4>3. CASE Put("manifest", Manifest(run.name, run.copy.db))
        BY <3>1, <4>1, <4>3
      <4> QED BY <3>2, <4>2, <4>3
    <3>4. CASE n # run.name
      BY <2>2, <3>3, <3>4
    <3>5. CASE n = run.name
      <4>1. Unsent(n)
        BY <3>1, <3>5 DEF ContentsOK, EarlySteps
      <4>2. n # 0 /\ \A r \in Receivers : receivers[r].name # n
        BY <4>1, BackupsAssumption DEF Unsent, Names
      <4> DEFINE made == run.copy.db
      <4>3. /\ pairs'[n].database \in {Reserved, DatabaseFile(made)}
            /\ pairs'[n].manifest \in {Reserved, Manifest(n, made)}
        BY <3>1, <3>3, <3>5
      <4>4. /\ remote'[n].database = Absent /\ remote'[n].manifest = Absent
            /\ \A r \in Receivers : receivers'[r].name # n
        BY <1>1, <4>1, <4>2 DEF Unsent
      <4> HIDE DEF made
      <4>5. PICK db2 : db2 = made
        OBVIOUS
      <4>6. SameDatabase(n, db2)'
        BY <4>3, <4>4, <4>5 DEF SameDatabase
      <4> QED BY <4>6
    <3> QED BY <3>4, <3>5
  <2>7. CASE PruneDatabase
    <3>1. PICK g \in Surplus(pairs, Keep) : pairs' = [pairs EXCEPT ![g].database = Absent]
      BY <2>7 DEF PruneDatabase
    <3>2. g \in Names
      BY <3>1, SetsOfNames DEF Surplus
    <3>3. pairs' = [pairs EXCEPT ![g] = [pairs[g] EXCEPT !.database = Absent]]
      BY <3>1, <3>2 DEF PairsOK
    <3>4. DOMAIN pairs[g] = {"database", "manifest"}
      BY <3>2 DEF PairsOK
    <3> QED BY <2>3, <3>2, <3>3, <3>4
  <2>8. CASE PruneManifest
    <3> DEFINE g == run.copy.of
    <3>1. g \in Names /\ pairs' = [pairs EXCEPT ![g].manifest = Absent]
      BY <2>8 DEF PruneManifest, AtStep, WrittenOK
    <3> HIDE DEF g
    <3>2. pairs' = [pairs EXCEPT ![g] = [pairs[g] EXCEPT !.manifest = Absent]]
      BY <3>1 DEF PairsOK
    <3>3. DOMAIN pairs[g] = {"database", "manifest"}
      BY <3>1 DEF PairsOK
    <3> QED BY <2>3, <3>1, <3>2, <3>3
  <2>9. CASE RunFails
    <3>1. run.step # "idle"
          /\ (pairs' = pairs \/ pairs' = [pairs EXCEPT ![run.name] = NoPair])
      BY <2>9 DEF RunFails, Cleanup
    <3>2. run.name \in Names
      BY <3>1 DEF RunOK
    <3> QED BY <2>2, <2>3, <3>1, <3>2, FileKinds
  <2> QED BY <2>4, <2>5, <2>6, <2>7, <2>8, <2>9 DEF BackupStep
<1> QED BY <1>3, <1>4 DEF ContentsOK

(* What a step of the copying may change without touching what the copies  *)
(* hold: files go, receivers link what they have drilled, or forget.       *)
LEMMA ContentsKept ==
  ASSUME OffhostInv, UNCHANGED backupVars,
         \A n \in Names :
           /\ \/ remote'[n].database \in {Absent, remote[n].database}
              \/ \E r \in Receivers :
                   /\ receivers[r].name = n
                   /\ receivers[r].step \in {"link_database", "link_manifest"}
                   /\ remote'[n].database = receivers[r].arrived.database
           /\ \/ remote'[n].manifest \in {Absent, remote[n].manifest}
              \/ \E r \in Receivers :
                   /\ receivers[r].name = n
                   /\ receivers[r].step \in {"link_database", "link_manifest"}
                   /\ remote'[n].manifest = receivers[r].arrived.manifest,
         \A r \in Receivers :
           \/ receivers'[r].name = 0
           \/ /\ receivers'[r].name = receivers[r].name
              /\ receivers'[r].arrived = receivers[r].arrived
              /\ receivers'[r].step \in {"link_database", "link_manifest"} =>
                   \/ receivers[r].step \in {"link_database", "link_manifest"}
                   \/ Accepts(receivers[r].name, receivers[r].arrived)
  PROVE  ContentsOK'
<1> SUFFICES ASSUME NEW n \in Names
             PROVE  /\ \E db : SameDatabase(n, db)'
                    /\ n > lastRun \/ (n = run.name /\ run.step \in EarlySteps) => Unsent(n)'
  BY DEF ContentsOK, backupVars
<1>1. n # 0
  BY BackupsAssumption DEF Names
<1>2. ContentsOK
  BY DEF OffhostInv
<1>3. Unsent(n) => Unsent(n)'
  BY <1>1 DEF Unsent
<1>4. PICK db : SameDatabase(n, db)
  BY <1>2 DEF ContentsOK
<1>5. \A r \in Receivers :
        receivers[r].name = n /\ receivers[r].step \in {"link_database", "link_manifest"} =>
          /\ receivers[r].arrived.database = DatabaseFile(db)
          /\ receivers[r].arrived.manifest = Manifest(n, db)
          /\ ~DrillRefuses(db)
  BY <1>4 DEF SameDatabase
<1>6. /\ remote'[n].database \in {Absent, DatabaseFile(db)}
      /\ remote'[n].manifest \in {Absent, Manifest(n, db)}
      /\ remote'[n].database # Absent \/ remote'[n].manifest # Absent => ~DrillRefuses(db)
  BY <1>4, <1>5 DEF SameDatabase
<1>7. \A r \in Receivers :
        receivers'[r].name = n =>
          /\ receivers'[r].arrived.database \in {Truncated, DatabaseFile(db)}
          /\ receivers'[r].arrived.manifest = Manifest(n, db)
          /\ receivers'[r].step \in {"link_database", "link_manifest"} =>
               receivers'[r].arrived.database # Truncated /\ ~DrillRefuses(db)
  <2> SUFFICES ASSUME NEW r \in Receivers, receivers'[r].name = n
               PROVE  /\ receivers'[r].arrived.database \in {Truncated, DatabaseFile(db)}
                      /\ receivers'[r].arrived.manifest = Manifest(n, db)
                      /\ receivers'[r].step \in {"link_database", "link_manifest"} =>
                           receivers'[r].arrived.database # Truncated /\ ~DrillRefuses(db)
    OBVIOUS
  <2>1. /\ receivers[r].name = n
        /\ receivers'[r].arrived = receivers[r].arrived
        /\ receivers'[r].step \in {"link_database", "link_manifest"} =>
             \/ receivers[r].step \in {"link_database", "link_manifest"}
             \/ Accepts(n, receivers[r].arrived)
    BY <1>1
  <2>2. /\ receivers[r].arrived.database \in {Truncated, DatabaseFile(db)}
        /\ receivers[r].arrived.manifest = Manifest(n, db)
        /\ receivers[r].step \in {"link_database", "link_manifest"} =>
             receivers[r].arrived.database # Truncated /\ ~DrillRefuses(db)
    BY <1>4, <2>1 DEF SameDatabase
  <2>3. Accepts(n, receivers[r].arrived) =>
          receivers[r].arrived.database # Truncated /\ ~DrillRefuses(db)
    BY <2>2, FileKinds DEF Accepts, DrillPasses, Verified
  <2> QED BY <2>1, <2>2, <2>3
<1>8. SameDatabase(n, db)'
  BY <1>4, <1>6, <1>7 DEF SameDatabase, backupVars
<1> QED BY <1>2, <1>3, <1>8 DEF ContentsOK

(* Steps that leave the directory of the other machine alone.              *)
LEMMA DirectoryAlone ==
  ASSUME OffhostInv, DOMAIN remote' = DOMAIN remote,
         \A n \in Names : remote'[n] = remote[n],
         \A r \in Receivers :
           /\ receivers'[r].doomed \subseteq receivers[r].doomed
           /\ receivers'[r].step = "link_manifest" =>
                receivers[r].step = "link_manifest" /\ receivers'[r].name = receivers[r].name
           /\ receivers'[r].step \in {"prune", "prune_manifest", "pass"} =>
                /\ receivers[r].step \in {"prune", "prune_manifest", "pass"}
                /\ receivers'[r].name = receivers[r].name,
         \A n \in reported' :
           \/ n \in reported
           \/ \E r \in Receivers : receivers[r].step = "pass" /\ receivers[r].name = n
  PROVE  HalfPairs' /\ KeptOK'
<1>1. /\ Complete(remote') = Complete(remote)
      /\ \A n : Supplanted(n)' <=> Supplanted(n)
  <2>1. Complete(remote') = Complete(remote)
    BY DEF OffhostInv, OffhostTyped, Complete
  <2> QED BY <2>1 DEF Supplanted
<1>2. HalfPairs'
  <2>1. \A r \in Receivers : \A n : Linking(r, n)' => Linking(r, n)
    BY DEF Linking
  <2> QED BY <1>1, <2>1 DEF HalfPairs, OffhostInv
<1>3. KeptOK'
  BY <1>1 DEF KeptOK, OffhostInv, OffhostTyped
<1> QED BY <1>2, <1>3

(* One pair of the directory changes, and is only spoilt when supplanted.  *)
LEMMA SupplantedStays ==
  ASSUME OffhostTyped, DOMAIN remote' = Names, NEW g \in Names,
         \A m \in Names : m # g => remote'[m] = remote[m],
         g \in Complete(remote) => g \in Complete(remote') \/ Supplanted(g)
  PROVE  \A n \in Names :
           /\ Supplanted(n) => Supplanted(n)'
           /\ n \in Complete(remote) => n \in Complete(remote') \/ Supplanted(n)'
<1>1. DOMAIN remote = Names
  BY DEF OffhostTyped
<1>2. \A m \in Names : m # g => (m \in Complete(remote') <=> m \in Complete(remote))
  BY <1>1 DEF Complete
<1>3. Complete(remote) \subseteq Names /\ Complete(remote') \subseteq Names
  BY <1>1 DEF Complete
<1>4. RemoteKeep \in Nat
  BY RemoteKeepAssumption
<1>5. ASSUME NEW n \in Names, Supplanted(n) PROVE Supplanted(n)'
  <2>1. Cardinality({ o \in Complete(remote) : o > n }) >= RemoteKeep
    BY <1>5 DEF Supplanted
  <2>2. CASE Complete(remote) \subseteq Complete(remote')
    <3>1. Cardinality({ o \in Complete(remote') : o > n }) >= RemoteKeep
      BY <1>3, <1>4, <2>1, <2>2, SupersededAfterAdding
    <3> QED BY <3>1 DEF Supplanted
  <2>3. CASE ~(Complete(remote) \subseteq Complete(remote'))
    <3>1. g \in Complete(remote) /\ g \notin Complete(remote')
      BY <1>2, <1>3, <2>3
    <3>2. Complete(remote') = Complete(remote) \ {g}
      BY <1>2, <1>3, <3>1
    <3>3. Cardinality({ o \in Complete(remote) : o > g }) >= RemoteKeep
      BY <3>1 DEF Supplanted
    <3>4. Cardinality({ o \in Complete(remote) \ {g} : o > n }) >= RemoteKeep
      <4> DEFINE S == Complete(remote)
      <4>1. /\ S \in SUBSET Names
            /\ Cardinality({ o \in S : o > g }) >= RemoteKeep
            /\ Cardinality({ o \in S : o > n }) >= RemoteKeep
        BY <1>3, <2>1, <3>3
      <4> HIDE DEF S
      <4>2. Cardinality({ o \in S \ {g} : o > n }) >= RemoteKeep
        BY <1>4, <4>1, SupersededAfterTaking
      <4> QED BY <4>2 DEF S
    <3> QED BY <3>2, <3>4 DEF Supplanted
  <2> QED BY <2>2, <2>3
<1> QED BY <1>2, <1>5

(* One file of the directory.                                              *)
LEMMA RemoteDatabase ==
  ASSUME OffhostTyped, NEW g \in Names, NEW c, remote' = [remote EXCEPT ![g].database = c]
  PROVE  /\ DOMAIN remote' = Names
         /\ \A m \in Names : m # g => remote'[m] = remote[m]
         /\ DOMAIN remote'[g] = {"database", "manifest"}
         /\ remote'[g].database = c /\ remote'[g].manifest = remote[g].manifest
<1>1. DOMAIN remote = Names /\ DOMAIN remote[g] = {"database", "manifest"}
  BY DEF OffhostTyped
<1>2. remote' = [remote EXCEPT ![g] = [remote[g] EXCEPT !.database = c]]
  BY <1>1
<1> QED BY <1>1, <1>2

LEMMA RemoteManifest ==
  ASSUME OffhostTyped, NEW g \in Names, NEW c, remote' = [remote EXCEPT ![g].manifest = c]
  PROVE  /\ DOMAIN remote' = Names
         /\ \A m \in Names : m # g => remote'[m] = remote[m]
         /\ DOMAIN remote'[g] = {"database", "manifest"}
         /\ remote'[g].manifest = c /\ remote'[g].database = remote[g].database
<1>1. DOMAIN remote = Names /\ DOMAIN remote[g] = {"database", "manifest"}
  BY DEF OffhostTyped
<1>2. remote' = [remote EXCEPT ![g] = [remote[g] EXCEPT !.manifest = c]]
  BY <1>1
<1> QED BY <1>1, <1>2

(* A receiver that goes on with what it has.                               *)
LEMMA ReceiverGoes ==
  ASSUME OffhostTyped, NEW r \in Receivers, NEW to,
         receivers' = [receivers EXCEPT ![r].step = to]
  PROVE  /\ DOMAIN receivers' = Receivers
         /\ \A q \in Receivers : q # r => receivers'[q] = receivers[q]
         /\ DOMAIN receivers'[r] = {"step", "name", "arrived", "doomed"}
         /\ receivers'[r].step = to /\ receivers'[r].name = receivers[r].name
         /\ receivers'[r].arrived = receivers[r].arrived
         /\ receivers'[r].doomed = receivers[r].doomed
<1>1. DOMAIN receivers = Receivers /\ DOMAIN receivers[r] = {"step", "name", "arrived", "doomed"}
  BY DEF OffhostTyped
<1>2. receivers' = [receivers EXCEPT ![r] = [receivers[r] EXCEPT !.step = to]]
  BY <1>1
<1> QED BY <1>1, <1>2

LEMMA GoesTyped ==
  ASSUME OffhostTyped, NEW r \in Receivers, NEW to \in AtWork \cup {"pass", "fail"},
         receivers[r].step \in AtWork,
         receivers' = [receivers EXCEPT ![r].step = to], UNCHANGED sender,
         DOMAIN remote' = Names,
         \A n \in Names : DOMAIN remote'[n] = {"database", "manifest"}
  PROVE  OffhostTyped'
<1>1. /\ DOMAIN receivers' = Receivers
      /\ \A q \in Receivers : q # r => receivers'[q] = receivers[q]
      /\ DOMAIN receivers'[r] = {"step", "name", "arrived", "doomed"}
      /\ receivers'[r].step = to /\ receivers'[r].name = receivers[r].name
      /\ receivers'[r].doomed = receivers[r].doomed
  BY ReceiverGoes
<1>2. sender.step = "wait" /\ sender.via = r => receivers[r].name = sender.name
  BY DEF OffhostTyped, AtWork
<1> QED BY <1>1, <1>2 DEF OffhostTyped, AtWork

LEMMA IdleReceiverIs ==
  /\ DOMAIN IdleReceiver = {"step", "name", "arrived", "doomed"}
  /\ IdleReceiver.step = "idle" /\ IdleReceiver.name = 0 /\ IdleReceiver.doomed = {}
  /\ DOMAIN IdleSender = {"step", "name", "via"} /\ IdleSender.step = "idle"
  BY DEF IdleReceiver, IdleSender

LEMMA SenderKeeps ==
  ASSUME BackupsInv, OffhostInv, UNCHANGED backupVars, SelectPair \/ SendFails \/ GiveUp
  PROVE  OffhostInv'
<1> USE DEF OffhostInv
<1>1. UNCHANGED <<remote, receivers, reported>>
  BY DEF SelectPair, SendFails, GiveUp
<1>2. /\ DOMAIN sender' = {"step", "name", "via"}
      /\ \/ sender'.step = "idle"
         \/ sender'.step = "send" /\ sender'.name \in Names
  <2>1. CASE SelectPair
    <3>1. sender' = [IdleSender EXCEPT !.step = "send", !.name = Newest(pairs)]
          /\ Complete(pairs) # {}
      BY <2>1 DEF SelectPair, LatestPairGood
    <3>2. Newest(pairs) \in Names
      BY <3>1, NewestIs, SetsOfNames DEF BackupsInv, PairsOK
    <3> QED BY <3>1, <3>2, IdleReceiverIs DEF IdleSender
  <2> QED BY <2>1, IdleReceiverIs DEF SendFails, GiveUp
<1>3. OffhostTyped'
  BY <1>1, <1>2 DEF OffhostTyped
<1>4. ContentsOK'
  BY <1>1, ContentsKept
<1>5. HalfPairs' /\ KeptOK'
  BY <1>1, DirectoryAlone
<1> QED BY <1>3, <1>4, <1>5

(* What is sent is the pair of that name, whole or cut off.                *)
LEMMA StreamKeeps ==
  ASSUME BackupsInv, OffhostInv, UNCHANGED backupVars,
         NEW r \in Receivers, SendStream(r) \/ LoseStream(r)
  PROVE  OffhostInv'
<1> USE DEF OffhostInv
<1> DEFINE s == sender.name
           arriving == receivers'[r].arrived
<1>1. /\ sender.step = "send" /\ receivers[r].step = "idle"
      /\ DrillPasses(s, pairs[s])
      /\ UNCHANGED <<remote, reported>>
      /\ DOMAIN receivers = Receivers
      /\ s \in Names
  BY DEF SendStream, LoseStream, OffhostTyped
<1>2. /\ DOMAIN receivers' = Receivers
      /\ \A q \in Receivers : q # r => receivers'[q] = receivers[q]
      /\ DOMAIN receivers'[r] = {"step", "name", "arrived", "doomed"}
      /\ receivers'[r].step = "header" /\ receivers'[r].name = s
      /\ receivers'[r].doomed = {}
      /\ \/ arriving = pairs[s]
         \/ arriving = [pairs[s] EXCEPT !.database = Truncated]
  <2>1. PICK c : /\ receivers' = [receivers EXCEPT ![r] =
                        [IdleReceiver EXCEPT !.step = "header", !.name = s, !.arrived = c]]
                 /\ c \in {pairs[s], [pairs[s] EXCEPT !.database = Truncated]}
    BY DEF SendStream, LoseStream
  <2> DEFINE new == [IdleReceiver EXCEPT !.step = "header", !.name = s, !.arrived = c]
  <2>2. /\ DOMAIN new = {"step", "name", "arrived", "doomed"}
        /\ new.step = "header" /\ new.name = s /\ new.arrived = c /\ new.doomed = {}
    BY DEF IdleReceiver
  <2> HIDE DEF new, s
  <2>3. receivers' = [receivers EXCEPT ![r] = new]
    BY <2>1 DEF new
  <2> QED BY <1>1, <2>1, <2>2, <2>3
<1>3. \/ sender' = IdleSender
      \/ /\ DOMAIN sender' = {"step", "name", "via"}
         /\ sender'.step = "wait" /\ sender'.name = s /\ sender'.via = r
  BY DEF SendStream, LoseStream, OffhostTyped
<1>4. /\ arriving.database \in {Truncated, pairs[s].database}
      /\ arriving.manifest = pairs[s].manifest
  <2>1. DOMAIN pairs[s] = {"database", "manifest"}
    BY <1>1 DEF BackupsInv, PairsOK
  <2> QED BY <1>2, <2>1
<1>5. /\ pairs[s].database.is = "database" /\ pairs[s].manifest.is = "manifest"
  BY <1>1 DEF DrillPasses, Verified
<1> HIDE DEF arriving
<1>6. OffhostTyped'
  BY <1>1, <1>2, <1>3, IdleReceiverIs DEF OffhostTyped, AtWork
<1>7. HalfPairs' /\ KeptOK'
  BY <1>1, <1>2, DirectoryAlone
<1>8. ContentsOK'
  <2> SUFFICES ASSUME NEW n \in Names
               PROVE  /\ \E db : SameDatabase(n, db)'
                      /\ n > lastRun \/ (n = run.name /\ run.step \in EarlySteps) => Unsent(n)'
    BY DEF ContentsOK, backupVars
  <2>1. PICK db : SameDatabase(n, db)
    BY DEF ContentsOK
  <2>2. n = s => pairs[n].database = DatabaseFile(db) /\ pairs[n].manifest = Manifest(n, db)
    BY <1>5, <2>1, FileKinds DEF SameDatabase
  <2>3. SameDatabase(n, db)'
    BY <1>1, <1>2, <1>4, <2>1, <2>2 DEF SameDatabase, backupVars, arriving
  <2>4. ASSUME n > lastRun \/ (n = run.name /\ run.step \in EarlySteps) PROVE Unsent(n)'
    <3>1. Unsent(n)
      BY <2>4 DEF ContentsOK
    <3>2. pairs[n].manifest.is # "manifest"
      BY <2>4, FileKinds DEF BackupsInv, PairsOK, WrittenOK, EarlySteps
    <3>3. n # s
      BY <1>5, <3>2
    <3> QED BY <1>1, <1>2, <3>1, <3>3 DEF Unsent
  <2> QED BY <2>3, <2>4
<1> QED BY <1>6, <1>7, <1>8

(* A receiver that is done with, or killed.                                *)
LEMMA ReceiverEnds ==
  ASSUME OffhostInv, UNCHANGED backupVars,
         ReadReply \/ \E r \in Receivers : Unheard(r) \/ ReceiverKilled(r)
  PROVE  OffhostInv'
<1> USE DEF OffhostInv
<1>1. remote' = remote
  BY DEF ReadReply, Unheard, ReceiverKilled
<1>2. PICK r \in Receivers, to \in {"idle", "fail"} :
        /\ receivers' = [receivers EXCEPT ![r] = [IdleReceiver EXCEPT !.step = to]]
        /\ \/ to = "fail" /\ UNCHANGED sender
           \/ sender' = IdleSender
           \/ UNCHANGED sender /\ ~(sender.step = "wait" /\ sender.via = r)
        /\ \/ UNCHANGED reported
           \/ /\ receivers[r].step = "pass" /\ reported' = reported \cup {receivers[r].name}
  <2>1. IdleReceiver = [IdleReceiver EXCEPT !.step = "idle"]
    BY DEF IdleReceiver
  <2>2. CASE ReadReply
    <3>1. sender.step = "wait" /\ sender.via \in Receivers
      BY <2>2 DEF ReadReply, OffhostTyped
    <3>2. receivers[sender.via].step = "pass" => receivers[sender.via].name = sender.name
      BY <3>1 DEF OffhostTyped
    <3> QED BY <2>1, <2>2, <3>1, <3>2 DEF ReadReply
  <2>3. CASE \E r \in Receivers : Unheard(r)
    BY <2>1, <2>3 DEF Unheard
  <2>4. CASE \E r \in Receivers : ReceiverKilled(r)
    BY <2>4 DEF ReceiverKilled
  <2> QED BY <2>2, <2>3, <2>4
<1> DEFINE new == [IdleReceiver EXCEPT !.step = to]
<1>3. /\ DOMAIN new = {"step", "name", "arrived", "doomed"}
      /\ new.step = to /\ new.name = 0 /\ new.doomed = {}
  BY DEF IdleReceiver
<1>4. receivers' = [receivers EXCEPT ![r] = new] /\ DOMAIN receivers = Receivers
  BY <1>2 DEF OffhostTyped
<1> HIDE DEF new
<1>5. /\ DOMAIN receivers' = Receivers /\ receivers'[r] = new
      /\ \A q \in Receivers : q # r => receivers'[q] = receivers[q]
  BY <1>4
<1>6. OffhostTyped'
  BY <1>1, <1>2, <1>3, <1>5, IdleReceiverIs DEF OffhostTyped, AtWork
<1>7. ContentsOK'
  BY <1>1, <1>3, <1>5, ContentsKept
<1>8. HalfPairs' /\ KeptOK'
  BY <1>1, <1>2, <1>3, <1>5, DirectoryAlone
<1> QED BY <1>6, <1>7, <1>8

(* Steps of a receiver that only decide what it does next.                 *)
LEMMA DecisionKeeps ==
  ASSUME OffhostInv, UNCHANGED backupVars, UNCHANGED <<sender, reported>>,
         NEW r \in Receivers, receivers[r].step \in AtWork,
         NEW to \in {"stage", "link_database", "pass", "fail"},
         receivers' = [receivers EXCEPT ![r].step = to],
         to = "pass" => receivers[r].step = "prune",
         to = "link_database" => Accepts(receivers[r].name, receivers[r].arrived),
         DOMAIN remote' = Names, \A n \in Names : remote'[n] = remote[n]
  PROVE  OffhostInv'
<1> USE DEF OffhostInv
<1>1. /\ \A q \in Receivers : q # r => receivers'[q] = receivers[q]
      /\ receivers'[r].step = to /\ receivers'[r].name = receivers[r].name
      /\ receivers'[r].arrived = receivers[r].arrived
      /\ receivers'[r].doomed = receivers[r].doomed
  BY ReceiverGoes
<1>2. OffhostTyped'
  <2>1. \A n \in Names : DOMAIN remote'[n] = {"database", "manifest"}
    BY DEF OffhostTyped
  <2>2. to \in AtWork \cup {"pass", "fail"}
    BY DEF AtWork
  <2> QED BY <2>1, <2>2, GoesTyped
<1>3. ContentsOK'
  BY <1>1, ContentsKept
<1>4. HalfPairs' /\ KeptOK'
  <2>1. DOMAIN remote' = DOMAIN remote
    BY DEF OffhostTyped
  <2> QED BY <1>1, <2>1, DirectoryAlone
<1> QED BY <1>2, <1>3, <1>4

LEMMA KeptAfter ==
  ASSUME OffhostInv, UNCHANGED reported,
         \A n \in Names :
           /\ Supplanted(n) => Supplanted(n)'
           /\ n \in Complete(remote) => n \in Complete(remote') \/ Supplanted(n)',
         \A r \in Receivers : \A n \in Names :
           receivers'[r].name = n /\ receivers'[r].step \in {"prune", "prune_manifest", "pass"} =>
             \/ /\ receivers[r].name = n
                /\ receivers[r].step \in {"prune", "prune_manifest", "pass"}
             \/ n \in Complete(remote') \/ Supplanted(n)'
  PROVE  KeptOK'
  BY DEF OffhostInv, KeptOK

LEMMA LinkDatabaseKeeps ==
  ASSUME OffhostInv, UNCHANGED backupVars, NEW r \in Receivers, LinkDatabase(r)
  PROVE  OffhostInv'
<1> USE DEF OffhostInv
<1>0. PICK n \in Names : n = receivers[r].name
  BY DEF LinkDatabase, At, OffhostTyped, AtWork
<1>1. /\ receivers[r].step = "link_database" /\ receivers[r].step \in AtWork
      /\ n = receivers[r].name /\ UNCHANGED <<sender, reported>>
  BY <1>0 DEF LinkDatabase, At, Reply, AtWork
<1>2. CASE Reply(r, "fail") /\ remote' = [remote EXCEPT ![n] = TakeBack(@, FALSE)]
  <2>1. receivers' = [receivers EXCEPT ![r].step = "fail"]
    BY <1>2 DEF Reply
  <2>2. DOMAIN remote' = Names /\ \A m \in Names : remote'[m] = remote[m]
    <3>1. remote' = [remote EXCEPT ![n] = remote[n]]
      BY <1>2 DEF TakeBack
    <3> QED BY <1>0, <3>1 DEF OffhostTyped
  <2> QED BY <1>1, <2>1, <2>2, DecisionKeeps
<1>3. CASE /\ remote[n].database = Absent
           /\ Reply(r, "link_manifest")
           /\ remote' = [remote EXCEPT ![n].database = receivers[r].arrived.database]
  <2>1. /\ DOMAIN receivers' = Receivers
        /\ \A q \in Receivers : q # r => receivers'[q] = receivers[q]
        /\ receivers'[r].step = "link_manifest" /\ receivers'[r].name = n
        /\ receivers'[r].arrived = receivers[r].arrived
        /\ receivers'[r].doomed = receivers[r].doomed
        /\ receivers' = [receivers EXCEPT ![r].step = "link_manifest"]
    BY <1>1, <1>3, ReceiverGoes DEF Reply
  <2>2. /\ DOMAIN remote' = Names
        /\ \A m \in Names : m # n => remote'[m] = remote[m]
        /\ DOMAIN remote'[n] = {"database", "manifest"}
        /\ remote'[n].database = receivers[r].arrived.database
        /\ remote'[n].manifest = remote[n].manifest
    <3> DEFINE c == receivers[r].arrived.database
    <3>1. remote' = [remote EXCEPT ![n].database = c]
      BY <1>3
    <3> HIDE DEF c
    <3>2. /\ DOMAIN remote' = Names
          /\ \A m \in Names : m # n => remote'[m] = remote[m]
          /\ DOMAIN remote'[n] = {"database", "manifest"}
          /\ remote'[n].database = c /\ remote'[n].manifest = remote[n].manifest
      BY <1>0, <3>1, RemoteDatabase
    <3> QED BY <3>2 DEF c
  <2>3. remote'[n].database # Absent
    <3>1. PICK db : SameDatabase(n, db)
      BY <1>1 DEF ContentsOK
    <3>2. Truncated # Absent
      BY DEF Truncated, Absent
    <3> QED BY <1>1, <2>2, <3>1, <3>2, FileKinds DEF SameDatabase
  <2>4. OffhostTyped'
    <3>1. \A m \in Names : DOMAIN remote'[m] = {"database", "manifest"}
      BY <2>2 DEF OffhostTyped
    <3>2. "link_manifest" \in AtWork
      BY DEF AtWork
    <3> QED BY <1>1, <2>1, <2>2, <3>1, <3>2, GoesTyped
  <2>5. ContentsOK'
    <3>1. \A m \in Names :
            /\ \/ remote'[m].database = remote[m].database
               \/ m = n /\ remote'[m].database = receivers[r].arrived.database
            /\ remote'[m].manifest = remote[m].manifest
      BY <2>2
    <3>2. \A q \in Receivers :
            /\ receivers'[q].name = receivers[q].name
            /\ receivers'[q].arrived = receivers[q].arrived
            /\ receivers'[q].step \in {"link_database", "link_manifest"} =>
                 receivers[q].step \in {"link_database", "link_manifest"}
      BY <1>1, <2>1
    <3> QED BY <1>1, <3>1, <3>2, ContentsKept
  <2>6. \A m \in Names :
          /\ Supplanted(m) => Supplanted(m)'
          /\ m \in Complete(remote) => m \in Complete(remote') \/ Supplanted(m)'
    <3>1. n \notin Complete(remote)
      BY <1>3 DEF Complete
    <3> QED BY <1>1, <2>2, <3>1, SupplantedStays
  <2>7. KeptOK'
    BY <1>1, <2>1, <2>6, KeptAfter
  <2>8. HalfPairs'
    <3>1. \A m \in Names : remote'[m].manifest # Absent /\ remote'[m].database = Absent =>
                             Supplanted(m)'
      BY <2>2, <2>3, <2>6 DEF HalfPairs
    <3>2. \A q \in Receivers : \A m \in receivers'[q].doomed : m \in Names /\ Supplanted(m)'
      BY <2>1, <2>6 DEF HalfPairs, OffhostTyped
    <3>3. \A q \in Receivers : \A m :
            Linking(q, m)' <=> IF q = r THEN m = n ELSE Linking(q, m)
      BY <2>1 DEF Linking
    <3>4. \A q \in Receivers \ {r} : \A m \in Names : Linking(q, m) =>
            /\ (remote'[m].database = Absent \/ remote'[m].manifest # Absent) => Supplanted(m)'
            /\ m = n => Supplanted(n)'
            /\ \A p \in Receivers \ {q} : Linking(p, m) => Supplanted(m)'
      BY <1>1, <1>3, <2>2, <2>3, <2>6 DEF HalfPairs, Linking
    <3>5. remote'[n].database = Absent \/ remote'[n].manifest # Absent => Supplanted(n)'
      BY <1>1, <1>3, <2>2, <2>3, <2>6 DEF HalfPairs, Linking
    <3>6. ASSUME NEW q \in Receivers, NEW m \in Names, Linking(q, m)'
          PROVE  /\ (remote'[m].database = Absent \/ remote'[m].manifest # Absent)
                      => Supplanted(m)'
                 /\ \A p \in Receivers \ {q} : Linking(p, m)' => Supplanted(m)'
      BY <3>3, <3>4, <3>5, <3>6
    <3> QED BY <3>1, <3>2, <3>6 DEF HalfPairs
  <2> QED BY <2>4, <2>5, <2>7, <2>8
<1> QED BY <1>1, <1>2, <1>3 DEF LinkDatabase

(* A file that goes: only of a supplanted pair, or one that nobody else    *)
(* has begun.                                                              *)
LEMMA TakenAway ==
  ASSUME OffhostInv, UNCHANGED reported, DOMAIN remote' = Names, NEW g \in Names,
         \A m \in Names : m # g => remote'[m] = remote[m],
         \/ Supplanted(g)
         \/ /\ remote[g].manifest = Absent /\ remote'[g].manifest = Absent
            /\ \A q \in Receivers : ~Linking(q, g)',
         \A q \in Receivers :
           /\ receivers'[q].doomed \subseteq receivers[q].doomed
           /\ receivers'[q].step = "link_manifest" =>
                receivers[q].step = "link_manifest" /\ receivers'[q].name = receivers[q].name
           /\ receivers'[q].step \in {"prune", "prune_manifest", "pass"} =>
                /\ receivers[q].step \in {"prune", "prune_manifest", "pass"}
                /\ receivers'[q].name = receivers[q].name
  PROVE  HalfPairs' /\ KeptOK'
<1> USE DEF OffhostInv
<1>1. \A n \in Names :
        /\ Supplanted(n) => Supplanted(n)'
        /\ n \in Complete(remote) => n \in Complete(remote') \/ Supplanted(n)'
  <2>1. g \in Complete(remote) => Supplanted(g)
    BY DEF Complete
  <2> QED BY <2>1, SupplantedStays
<1>2. KeptOK'
  BY <1>1, KeptAfter
<1>3. \A q \in Receivers : \A m : Linking(q, m)' => Linking(q, m)
  BY DEF Linking
<1>4. \A m \in Names : remote'[m].manifest # Absent /\ remote'[m].database = Absent =>
                         Supplanted(m)'
  BY <1>1 DEF HalfPairs
<1>5. \A q \in Receivers : \A m \in receivers'[q].doomed : Supplanted(m)'
  BY <1>1 DEF HalfPairs, OffhostTyped
<1>6. \A q \in Receivers : \A m \in Names :
        /\ Linking(q, m)' /\ (remote'[m].database = Absent \/ remote'[m].manifest # Absent)
             => Supplanted(m)'
        /\ \A p \in Receivers \ {q} : Linking(q, m)' /\ Linking(p, m)' => Supplanted(m)'
  BY <1>1, <1>3 DEF HalfPairs
<1> QED BY <1>2, <1>4, <1>5, <1>6 DEF HalfPairs

LEMMA ReceiverPrunes ==
  ASSUME OffhostTyped, NEW r \in Receivers, NEW to, NEW d,
         receivers' = [receivers EXCEPT ![r].step = to, ![r].doomed = d]
  PROVE  /\ DOMAIN receivers' = Receivers
         /\ \A q \in Receivers : q # r => receivers'[q] = receivers[q]
         /\ DOMAIN receivers'[r] = {"step", "name", "arrived", "doomed"}
         /\ receivers'[r].step = to /\ receivers'[r].name = receivers[r].name
         /\ receivers'[r].arrived = receivers[r].arrived
         /\ receivers'[r].doomed = d
<1>1. DOMAIN receivers = Receivers /\ DOMAIN receivers[r] = {"step", "name", "arrived", "doomed"}
  BY DEF OffhostTyped
<1>2. receivers' = [receivers EXCEPT ![r] = [receivers[r] EXCEPT !.step = to, !.doomed = d]]
  BY <1>1
<1> QED BY <1>1, <1>2

LEMMA PrunesTyped ==
  ASSUME OffhostTyped, NEW r \in Receivers, NEW d \in SUBSET Names,
         receivers[r].step \in AtWork,
         receivers' = [receivers EXCEPT ![r].step = "prune", ![r].doomed = d], UNCHANGED sender,
         DOMAIN remote' = Names,
         \A n \in Names : DOMAIN remote'[n] = {"database", "manifest"}
  PROVE  OffhostTyped'
<1>1. /\ DOMAIN receivers' = Receivers
      /\ \A q \in Receivers : q # r => receivers'[q] = receivers[q]
      /\ DOMAIN receivers'[r] = {"step", "name", "arrived", "doomed"}
      /\ receivers'[r].step = "prune" /\ receivers'[r].name = receivers[r].name
      /\ receivers'[r].doomed = d
  BY ReceiverPrunes
<1>2. sender.step = "wait" /\ sender.via = r => receivers[r].name = sender.name
  BY DEF OffhostTyped, AtWork
<1> QED BY <1>1, <1>2 DEF OffhostTyped, AtWork

LEMMA LinkManifestKeeps ==
  ASSUME OffhostInv, UNCHANGED backupVars, NEW r \in Receivers, LinkManifest(r)
  PROVE  OffhostInv'
<1> USE DEF OffhostInv
<1>0. PICK n \in Names : n = receivers[r].name
  BY DEF LinkManifest, At, OffhostTyped, AtWork
<1>1. /\ receivers[r].step = "link_manifest" /\ receivers[r].step \in AtWork
      /\ n = receivers[r].name /\ UNCHANGED <<sender, reported>>
      /\ Linking(r, n)
  BY <1>0 DEF LinkManifest, At, Reply, AtWork, Linking
<1>2. CASE Reply(r, "fail") /\ remote' = [remote EXCEPT ![n] = TakeBack(@, TRUE)]
  <2>1. remote' = [remote EXCEPT ![n].database = Absent]
    BY <1>2 DEF TakeBack
  <2>2. /\ DOMAIN remote' = Names
        /\ \A m \in Names : m # n => remote'[m] = remote[m]
        /\ DOMAIN remote'[n] = {"database", "manifest"}
        /\ remote'[n].database = Absent /\ remote'[n].manifest = remote[n].manifest
    BY <1>0, <2>1, RemoteDatabase
  <2>3. receivers' = [receivers EXCEPT ![r].step = "fail"]
    BY <1>2 DEF Reply
  <2>4. /\ \A q \in Receivers : q # r => receivers'[q] = receivers[q]
        /\ receivers'[r].step = "fail" /\ receivers'[r].name = receivers[r].name
        /\ receivers'[r].arrived = receivers[r].arrived
        /\ receivers'[r].doomed = receivers[r].doomed
    BY <2>3, ReceiverGoes
  <2>5. OffhostTyped'
    <3>1. \A m \in Names : DOMAIN remote'[m] = {"database", "manifest"}
      BY <2>2 DEF OffhostTyped
    <3> QED BY <1>1, <2>2, <2>3, <3>1, GoesTyped
  <2>6. ContentsOK'
    <3>1. \A m \in Names : remote'[m].database \in {Absent, remote[m].database}
                           /\ remote'[m].manifest = remote[m].manifest
      BY <2>2
    <3> QED BY <2>4, <3>1, ContentsKept
  <2>7. \/ Supplanted(n)
        \/ /\ remote[n].manifest = Absent /\ remote'[n].manifest = Absent
           /\ \A q \in Receivers : ~Linking(q, n)'
    <3>1. remote[n].manifest # Absent => Supplanted(n)
      BY <1>0, <1>1 DEF HalfPairs
    <3>2. \A q \in Receivers : Linking(q, n)' => q # r /\ Linking(q, n)
      BY <2>4 DEF Linking
    <3>3. \A q \in Receivers : Linking(q, n)' => Supplanted(n)
      BY <1>0, <1>1, <3>2 DEF HalfPairs
    <3> QED BY <2>2, <3>1, <3>3
  <2>8. HalfPairs' /\ KeptOK'
    BY <1>0, <1>1, <2>2, <2>4, <2>7, TakenAway
  <2> QED BY <2>5, <2>6, <2>8
<1>3. CASE /\ remote[n].manifest = Absent
           /\ remote' = [remote EXCEPT ![n].manifest = receivers[r].arrived.manifest]
           /\ receivers' = [receivers EXCEPT
                ![r].step = "prune", ![r].doomed = Surplus(remote', RemoteKeep)]
  <2>1. PICK c : c = receivers[r].arrived.manifest
    OBVIOUS
  <2>2. /\ DOMAIN remote' = Names
        /\ \A m \in Names : m # n => remote'[m] = remote[m]
        /\ DOMAIN remote'[n] = {"database", "manifest"}
        /\ remote'[n].manifest = c /\ remote'[n].database = remote[n].database
    BY <1>0, <1>3, <2>1, RemoteManifest
  <2>3. PICK d : d = Surplus(remote', RemoteKeep)
    OBVIOUS
  <2>4. /\ receivers' = [receivers EXCEPT ![r].step = "prune", ![r].doomed = d]
        /\ \A q \in Receivers : q # r => receivers'[q] = receivers[q]
        /\ receivers'[r].step = "prune" /\ receivers'[r].name = n
        /\ receivers'[r].arrived = receivers[r].arrived
        /\ receivers'[r].doomed = d
    BY <1>1, <1>3, <2>3, ReceiverPrunes
  <2>5. d \subseteq Names /\ \A m \in d : Supplanted(m)'
    BY <2>2, <2>3 DEF Surplus, Complete, Supplanted
  <2>6. c # Absent
    <3>1. PICK db : SameDatabase(n, db)
      BY <1>0 DEF ContentsOK
    <3> QED BY <1>1, <2>1, <3>1, FileKinds DEF SameDatabase
  <2>7. OffhostTyped'
    <3>1. \A m \in Names : DOMAIN remote'[m] = {"database", "manifest"}
      BY <2>2 DEF OffhostTyped
    <3> QED BY <1>1, <2>2, <2>4, <2>5, <3>1, PrunesTyped
  <2>8. ContentsOK'
    <3>1. \A m \in Names :
            /\ \/ remote'[m].manifest = remote[m].manifest
               \/ m = n /\ remote'[m].manifest = receivers[r].arrived.manifest
            /\ remote'[m].database = remote[m].database
      BY <2>1, <2>2
    <3>2. \A q \in Receivers :
            /\ receivers'[q].name = receivers[q].name
            /\ receivers'[q].arrived = receivers[q].arrived
            /\ receivers'[q].step \in {"link_database", "link_manifest"} =>
                 receivers[q].step \in {"link_database", "link_manifest"}
      BY <1>1, <2>4
    <3> QED BY <1>1, <3>1, <3>2, ContentsKept
  <2>9. \A m \in Names :
          /\ Supplanted(m) => Supplanted(m)'
          /\ m \in Complete(remote) => m \in Complete(remote') \/ Supplanted(m)'
    <3>1. n \notin Complete(remote)
      BY <1>3 DEF Complete
    <3> QED BY <1>0, <2>2, <3>1, SupplantedStays
  <2>10. remote'[n].database = Absent => Supplanted(n)'
    BY <1>0, <1>1, <2>2, <2>9 DEF HalfPairs
  <2>11. KeptOK'
    <3>1. n \in Complete(remote') \/ Supplanted(n)'
      BY <1>0, <2>2, <2>6, <2>10 DEF Complete
    <3> QED BY <1>1, <2>4, <2>9, <3>1, KeptAfter
  <2>12. HalfPairs'
    <3>1. \A m \in Names : remote'[m].manifest # Absent /\ remote'[m].database = Absent =>
                             Supplanted(m)'
      BY <2>2, <2>9, <2>10 DEF HalfPairs
    <3>2. \A q \in Receivers : \A m \in receivers'[q].doomed : Supplanted(m)'
      BY <2>4, <2>5, <2>9 DEF HalfPairs, OffhostTyped
    <3>3. \A q \in Receivers : \A m : Linking(q, m)' => q # r /\ Linking(q, m)
      BY <2>4 DEF Linking
    <3>4. \A q \in Receivers : Linking(q, n)' => Supplanted(n)'
      BY <1>0, <1>1, <2>9, <3>3 DEF HalfPairs
    <3>5. \A q \in Receivers : \A m \in Names :
            /\ Linking(q, m)' /\ (remote'[m].database = Absent \/ remote'[m].manifest # Absent)
                 => Supplanted(m)'
            /\ \A p \in Receivers \ {q} : Linking(q, m)' /\ Linking(p, m)' => Supplanted(m)'
      BY <2>2, <2>9, <3>3, <3>4 DEF HalfPairs
    <3> QED BY <3>1, <3>2, <3>5 DEF HalfPairs
  <2> QED BY <2>7, <2>8, <2>11, <2>12
<1> QED BY <1>1, <1>2, <1>3 DEF LinkManifest

LEMMA PruneRemoteKeeps ==
  ASSUME OffhostInv, UNCHANGED backupVars, NEW r \in Receivers, PruneRemote(r)
  PROVE  OffhostInv'
<1> USE DEF OffhostInv
<1>1. PICK g \in receivers[r].doomed :
        IF remote[g].database = Absent
        THEN Reply(r, "fail") /\ UNCHANGED remote
        ELSE Reply(r, "prune_manifest") /\ remote' = [remote EXCEPT ![g].database = Absent]
  BY DEF PruneRemote
<1>2. /\ receivers[r].step = "prune" /\ receivers[r].step \in AtWork
      /\ UNCHANGED <<sender, reported>>
  BY DEF PruneRemote, At, Reply, AtWork
<1>3. g \in Names /\ Supplanted(g)
  BY <1>1 DEF OffhostTyped, HalfPairs
<1>4. CASE Reply(r, "fail") /\ UNCHANGED remote
  <2>1. DOMAIN remote' = Names /\ \A m \in Names : remote'[m] = remote[m]
    BY <1>4 DEF OffhostTyped
  <2> QED BY <1>2, <1>4, <2>1, DecisionKeeps DEF Reply
<1>5. CASE Reply(r, "prune_manifest") /\ remote' = [remote EXCEPT ![g].database = Absent]
  <2>1. receivers' = [receivers EXCEPT ![r].step = "prune_manifest"]
    BY <1>5 DEF Reply
  <2>2. /\ \A q \in Receivers : q # r => receivers'[q] = receivers[q]
        /\ receivers'[r].step = "prune_manifest" /\ receivers'[r].name = receivers[r].name
        /\ receivers'[r].arrived = receivers[r].arrived
        /\ receivers'[r].doomed = receivers[r].doomed
    BY <2>1, ReceiverGoes
  <2>3. /\ DOMAIN remote' = Names
        /\ \A m \in Names : m # g => remote'[m] = remote[m]
        /\ DOMAIN remote'[g] = {"database", "manifest"}
        /\ remote'[g].database = Absent /\ remote'[g].manifest = remote[g].manifest
    BY <1>3, <1>5, RemoteDatabase
  <2>4. OffhostTyped'
    <3>1. \A m \in Names : DOMAIN remote'[m] = {"database", "manifest"}
      BY <2>3 DEF OffhostTyped
    <3>2. "prune_manifest" \in AtWork
      BY DEF AtWork
    <3> QED BY <1>2, <2>1, <2>3, <3>1, <3>2, GoesTyped
  <2>5. ContentsOK'
    <3>1. \A m \in Names : remote'[m].database \in {Absent, remote[m].database}
                           /\ remote'[m].manifest = remote[m].manifest
      BY <2>3
    <3> QED BY <2>2, <3>1, ContentsKept
  <2>6. HalfPairs' /\ KeptOK'
    BY <1>2, <1>3, <2>2, <2>3, TakenAway
  <2> QED BY <2>4, <2>5, <2>6
<1> QED BY <1>1, <1>4, <1>5

LEMMA PruneRemoteManifestKeeps ==
  ASSUME OffhostInv, UNCHANGED backupVars, NEW r \in Receivers, PruneRemoteManifest(r)
  PROVE  OffhostInv'
<1> USE DEF OffhostInv
<1>1. PICK g \in receivers[r].doomed :
        /\ receivers' = [receivers EXCEPT ![r].step = "prune", ![r].doomed = @ \ {g}]
        /\ remote' = [remote EXCEPT ![g].manifest = Absent]
  BY DEF PruneRemoteManifest
<1>2. /\ receivers[r].step = "prune_manifest" /\ receivers[r].step \in AtWork
      /\ UNCHANGED <<sender, reported>>
  BY DEF PruneRemoteManifest, At, AtWork
<1>3. g \in Names /\ Supplanted(g) /\ receivers[r].doomed \subseteq Names
  BY <1>1 DEF OffhostTyped, HalfPairs
<1>4. PICK d : d = receivers[r].doomed \ {g}
  OBVIOUS
<1>5. /\ receivers' = [receivers EXCEPT ![r].step = "prune", ![r].doomed = d]
      /\ \A q \in Receivers : q # r => receivers'[q] = receivers[q]
      /\ receivers'[r].step = "prune" /\ receivers'[r].name = receivers[r].name
      /\ receivers'[r].arrived = receivers[r].arrived
      /\ receivers'[r].doomed = d
  <2>1. DOMAIN receivers = Receivers /\ DOMAIN receivers[r] = {"step", "name", "arrived", "doomed"}
    BY DEF OffhostTyped
  <2>2. receivers' = [receivers EXCEPT ![r].step = "prune", ![r].doomed = d]
    BY <1>1, <1>4, <2>1
  <2> QED BY <2>2, ReceiverPrunes
<1>6. /\ DOMAIN remote' = Names
      /\ \A m \in Names : m # g => remote'[m] = remote[m]
      /\ DOMAIN remote'[g] = {"database", "manifest"}
      /\ remote'[g].manifest = Absent /\ remote'[g].database = remote[g].database
  BY <1>1, <1>3, RemoteManifest
<1>7. OffhostTyped'
  <2>1. \A m \in Names : DOMAIN remote'[m] = {"database", "manifest"}
    BY <1>6 DEF OffhostTyped
  <2> QED BY <1>2, <1>3, <1>4, <1>5, <1>6, <2>1, PrunesTyped
<1>8. ContentsOK'
  <2>1. \A m \in Names : remote'[m].manifest \in {Absent, remote[m].manifest}
                         /\ remote'[m].database = remote[m].database
    BY <1>6
  <2> QED BY <1>5, <2>1, ContentsKept
<1>9. HalfPairs' /\ KeptOK'
  BY <1>2, <1>3, <1>4, <1>5, <1>6, TakenAway
<1> QED BY <1>7, <1>8, <1>9

LEMMA OffhostStepKeeps ==
  ASSUME BackupsInv, OffhostInv, UNCHANGED backupVars, OffhostStep PROVE OffhostInv'
<1>1. CASE \E r \in Receivers : CheckDestination(r) \/ Stage(r) \/ Pass(r)
  <2>1. PICK r \in Receivers : CheckDestination(r) \/ Stage(r) \/ Pass(r)
    BY <1>1
  <2>2. PICK to \in {"stage", "link_database", "pass", "fail"} :
          /\ receivers' = [receivers EXCEPT ![r].step = to]
          /\ to = "pass" => receivers[r].step = "prune"
          /\ to = "link_database" => Accepts(receivers[r].name, receivers[r].arrived)
    BY <2>1 DEF CheckDestination, Stage, Pass, Reply, At
  <2>3. /\ receivers[r].step \in AtWork
        /\ UNCHANGED <<sender, reported, remote>>
    BY <2>1 DEF CheckDestination, Stage, Pass, Reply, At, AtWork
  <2>4. DOMAIN remote' = Names /\ \A n \in Names : remote'[n] = remote[n]
    BY <2>3 DEF OffhostInv, OffhostTyped
  <2> QED BY <2>2, <2>3, <2>4, DecisionKeeps
<1> QED
  BY <1>1, SenderKeeps, StreamKeeps, ReceiverEnds, LinkDatabaseKeeps, LinkManifestKeeps,
     PruneRemoteKeeps, PruneRemoteManifestKeeps DEF OffhostStep, ReceiverStep

LEMMA DirectoryUntouched ==
  ASSUME OffhostInv, UNCHANGED offhostVars PROVE OffhostTyped' /\ HalfPairs' /\ KeptOK'
<1>1. UNCHANGED <<remote, sender, receivers, reported>>
  BY DEF offhostVars
<1>2. OffhostTyped'
  BY <1>1 DEF OffhostInv, OffhostTyped
<1>3. HalfPairs' /\ KeptOK'
  BY <1>1, DirectoryAlone DEF OffhostInv
<1> QED BY <1>2, <1>3

LEMMA OffhostAlone ==
  ASSUME OffhostInv, UNCHANGED <<backupVars, offhostVars>> PROVE OffhostInv'
<1>1. ContentsOK'
  BY DEF OffhostInv, backupVars, offhostVars, ContentsOK, SameDatabase, Unsent
<1> QED BY <1>1, DirectoryUntouched DEF OffhostInv

-----------------------------------------------------------------------------
(* What holds of the specification.                                        *)

LEMMA RetentionPays ==
  ASSUME BackupsInv
  PROVE  Cardinality(RecoveryPoints(pairs)) >= Least(Keep, Cardinality(passed)) - kills
<1> USE DEF BackupsInv
<1> DEFINE points == RecoveryPoints(pairs)
<1>1. points \subseteq Names /\ Junk \subseteq Names /\ passed \subseteq Names
  BY SetsOfNames, BackupsAssumption DEF RetentionOK, RunOK, Names
<1>2. /\ IsFiniteSet(points) /\ Cardinality(points) \in Nat
      /\ IsFiniteSet(Junk) /\ Cardinality(Junk) \in Nat
      /\ IsFiniteSet(passed) /\ Cardinality(passed) \in Nat
  BY <1>1, NamesAreFinite
<1>3. Cardinality(Junk) <= kills /\ kills \in Nat /\ Keep \in Nat
  BY BackupsAssumption DEF RetentionOK, RunOK
<1>4. Settled \subseteq points \cup Junk
  BY DEF Junk
<1> HIDE DEF points
<1>5. CASE passed \subseteq points
  <2>1. Cardinality(passed) <= Cardinality(points)
    BY <1>2, <1>5, FS_Subset
  <2> QED BY <1>2, <1>3, <2>1 DEF Least, points
<1>6. CASE ~(passed \subseteq points)
  <2>1. PICK n \in passed : n \notin points
    BY <1>6
  <2> DEFINE newer == { o \in Settled : o > n }
  <2>2. newer \subseteq points \cup Junk
    BY <1>4
  <2>3. Cardinality(newer) >= Keep
    BY <2>1 DEF RetentionOK, Superseded, points
  <2> HIDE DEF newer
  <2>4. /\ points \cup Junk \subseteq Names
        /\ newer \subseteq Names
    BY <1>1, <2>2
  <2>5. /\ IsFiniteSet(points \cup Junk) /\ Cardinality(points \cup Junk) \in Nat
        /\ Cardinality(newer) \in Nat
    BY <2>4, NamesAreFinite
  <2>6. Cardinality(newer) <= Cardinality(points \cup Junk)
    BY <2>2, <2>5, FS_Subset
  <2>7. points \cap Junk = {}
    BY DEF points, Junk
  <2>8. Cardinality(points \cup Junk) <= Cardinality(points) + Cardinality(Junk)
    <3>1. Cardinality(points \cap Junk) = 0
      BY <2>7, FS_EmptySet
    <3>2. Cardinality(points \cup Junk) =
            Cardinality(points) + Cardinality(Junk) - Cardinality(points \cap Junk)
      BY <1>2, FS_Union
    <3> QED BY <1>2, <3>1, <3>2
  <2> QED BY <1>2, <1>3, <2>3, <2>5, <2>6, <2>8 DEF Least, points
<1> QED BY <1>5, <1>6

LEMMA RestoredStarts ==
  ASSUME NEW db, ~DrillRefuses(db), CopyAfterMerchants(db) PROVE Startable(db)
<1> SUFFICES ASSUME KeysCopy \in db.tables PROVE Keys \in db.owned
  BY DEF Startable
<1>1. SchemaPresent(db)
  BY DEF CopyAfterMerchants, SchemaPresent, PHASE_K_TABLES
<1>2. SchemaComplete(db)
  BY <1>1 DEF DrillRefuses, Refuses
<1> QED BY <1>2 DEF SchemaComplete, PHASE_K_OWNERSHIP, Keys

OperationsInv == MigrationInv /\ BackupsInv /\ OffhostInv /\ MigrationHasRecoveryPoint

LEMMA InvariantsHold == OperationsSpec => []OperationsInv
<1>1. OperationsInit => OperationsInv
  BY InitMigration, InitBackups, InitOffhost
     DEF OperationsInit, MigrationInit, MigrationHasRecoveryPoint, OperationsInv
<1>2. OperationsInv /\ [OperationsNext]_operationVars => OperationsInv'
  <2> SUFFICES ASSUME OperationsInv, [OperationsNext]_operationVars
               PROVE  MigrationInv' /\ BackupsInv' /\ OffhostInv' /\ MigrationHasRecoveryPoint'
    BY DEF OperationsInv
  <2> USE DEF OperationsInv
  <2>1. MigrationHasRecoveryPoint'
    BY ScriptStep
  <2>2. CASE MigrationStep /\ UNCHANGED <<backupVars, offhostVars>>
    BY <2>1, <2>2, MigrationStepKeeps, BackupsAlone, OffhostAlone
  <2>3. CASE BackupStep /\ UNCHANGED <<migrationVars, offhostVars>>
    <3>1. OffhostInv'
      BY <2>3, ContentsBehindBackups, DirectoryUntouched DEF OffhostInv
    <3> QED BY <2>1, <2>3, <3>1, BackupStepKeeps, MigrationAlone
  <2>4. CASE OffhostStep /\ UNCHANGED <<migrationVars, backupVars>>
    BY <2>1, <2>4, OffhostStepKeeps, MigrationAlone, BackupsAlone
  <2>5. CASE UNCHANGED operationVars
    BY <2>1, <2>5, MigrationAlone, BackupsAlone, OffhostAlone DEF operationVars
  <2> QED BY <2>2, <2>3, <2>4, <2>5 DEF OperationsNext
<1> QED BY <1>1, <1>2, PTL DEF OperationsSpec

(* No interruption of the migration, at any statement, loses an            *)
(* idempotency key that was bound to a payment before it                   *)
(* (payment_store.py:328-358).                                             *)
THEOREM InterruptionsKeepTheKeys == OperationsSpec => []KeysSurvive
<1>1. OperationsInv => KeysSurvive
  BY DEF OperationsInv, MigrationInv, KeysSurvive, KeyIds
<1> QED BY <1>1, InvariantsHold, PTL

(* While the migration script changes the database there is a backup that  *)
(* restores, whatever the backup timer starts, prunes or is killed at      *)
(* meanwhile (phase_k_production_migration.py:326-333).                    *)
THEOREM ScriptHasARecoveryPoint == OperationsSpec => []MigrationHasRecoveryPoint
<1>1. OperationsInv => MigrationHasRecoveryPoint
  BY DEF OperationsInv
<1> QED BY <1>1, InvariantsHold, PTL

(* Of every backup that passed, that one or a newer one restores, and as   *)
(* many restore as are to be retained, less one for each run that was      *)
(* killed (payment_db_backup_maintenance.py:20-41).                        *)
THEOREM RetentionKeepsRecoveryPoints == OperationsSpec => []RecoveryPointsKept
<1>1. OperationsInv => RecoveryPointsKept
  BY RetentionPays DEF OperationsInv, BackupsInv, RetentionOK, RecoveryPointsKept
<1> QED BY <1>1, InvariantsHold, PTL

(* No backup the drill accepts holds a database that a restored service    *)
(* could not start from, even one copied within a migration                *)
(* (payment_db_backup.py, payment_store.py:328-358).                       *)
THEOREM RestoredServicesStart == OperationsSpec => []BackupsStart
<1>1. OperationsInv => BackupsStart
  <2> SUFFICES ASSUME BackupsInv, NEW n \in RecoveryPoints(pairs)
               PROVE  Startable(pairs[n].database.db)
    BY DEF BackupsStart, OperationsInv
  <2>1. n \in Names /\ Verified(n, pairs[n])
    BY SetsOfNames, RecoveryPointIs
  <2>2. ~DrillRefuses(pairs[n].database.db) /\ pairs[n].database.is = "database"
    BY <2>1 DEF Verified
  <2>3. CopyAfterMerchants(pairs[n].database.db)
    BY <2>1, <2>2 DEF BackupsInv, PairsOK
  <2> QED BY <2>2, <2>3, RestoredStarts
<1> QED BY <1>1, InvariantsHold, PTL

LEMMA CompletePairsRestore == ASSUME OffhostInv PROVE RemotePairsRestore
<1> SUFFICES ASSUME NEW n \in Complete(remote) PROVE n \in RecoveryPoints(remote)
  BY DEF RemotePairsRestore
<1>1. n \in Names /\ remote[n].database # Absent /\ remote[n].manifest # Absent
      /\ DOMAIN remote = Names
  BY DEF Complete, OffhostInv, OffhostTyped
<1>2. PICK db : SameDatabase(n, db)
  BY <1>1 DEF OffhostInv, ContentsOK
<1>3. /\ remote[n].database = DatabaseFile(db) /\ remote[n].manifest = Manifest(n, db)
      /\ ~Refuses(db)
  BY <1>1, <1>2 DEF SameDatabase, DrillRefuses
<1>4. Verified(n, remote[n])
  BY <1>3, PlacedIsVerified
<1> QED BY <1>1, <1>4, RecoveryPointIs

(* On the other machine every pair that looks complete restores, whatever  *)
(* was cut off or killed on the way, and with any number of receivers at   *)
(* work (docs/PHASE_J1_OFFHOST_BACKUP.md:140-146).                         *)
THEOREM RemoteCopiesRestore == OperationsSpec => []RemotePairsRestore
<1>1. OperationsInv => RemotePairsRestore
  BY CompletePairsRestore DEF OperationsInv
<1> QED BY <1>1, InvariantsHold, PTL

(* A copy that was reported a success stays until as many newer ones as    *)
(* are to be retained are there, even while two receivers that know        *)
(* nothing of each other link, take back and prune in the same directory   *)
(* (payment_db_offhost_receiver.py:40-53, 103-117).                        *)
THEOREM ReportedCopiesStay == OperationsSpec => []ReportedCopiesKept
<1>1. OperationsInv => ReportedCopiesKept
  <2> SUFFICES ASSUME OffhostInv PROVE ReportedCopiesKept
    BY DEF OperationsInv
  <2>1. Complete(remote) = RecoveryPoints(remote)
    BY CompletePairsRestore DEF RemotePairsRestore, RecoveryPoints
  <2>2. \A n \in reported : n \in Complete(remote) \/ Supplanted(n)
    BY DEF OffhostInv, KeptOK
  <2> QED BY <2>1, <2>2 DEF ReportedCopiesKept, Supplanted
<1> QED BY <1>1, InvariantsHold, PTL
=============================================================================
