# The payment platform in TLA+

A specification of the PEPEPOW payment service: the code under
`backend/app` that opens payments, follows the chain through ElectrumX and
tells merchants what became of their orders, under `backend/examples` that
receives it, and under `backend/scripts` that migrates, backs up and copies the
database and hands out credentials. The modules are translated from the source;
TLC checks them on small instances and TLAPS proves the theorems of the eight
`*Proofs.tla` modules for every instance. `PROJECT.json` names, for each
definition that models code, the lines it stands for.

Paths below are relative to `src/`.

## 1. The system

| Component | Source | State | Operations |
|---|---|---|---|
| State evaluator | `backend/app/services/payment_state.py` | none (pure) | match outputs, scope, deduplicate, confirmations, sums, status |
| Payment store | `backend/app/services/payment_store.py` | SQLite: payments, idempotency keys, baselines, transactions, chain tip, events, endpoints, deliveries, merchants | one transaction per method |
| Gateway | `backend/app/services/payment_gateway_service.py` | locals of each request | create, status read, list |
| Watcher | `backend/app/services/payment_watcher.py` | connection, `_subscribed`, notification queue, `_needs_full_reconcile` | connect, subscribe, reconcile, apply header, recover |
| Subscription client | `backend/app/electrumx/subscription_client.py` | socket, table of pending requests | request, read loop, close |
| One-shot client | `backend/app/electrumx/client.py` | none between calls | one call, one connection |
| Webhook worker | `backend/app/services/webhook_worker.py` | the batch in hand | list due, attempt, record, back off |
| Webhook transport | `webhook_http.py`, `webhook_security.py`, `webhook_signing.py` | none | resolve, sign, send |
| Webhook management | `backend/app/services/webhook_service.py` | rows of the store | create, list, disable endpoints |
| Merchants and authentication | `merchant_store.py`, `payment_auth.py` | rows of the store | issue, disable, look up credentials |
| Legacy payment monitor | `payment_service.py`, `cache_service.py` | TTL cache, map of lookups in flight | check a payment by balance |
| Address, transaction, wallet reads | `address_service.py`, `tx_service.py`, `api/wallet.py` | TTL caches per address | summary, outputs, history, transaction, broadcast |
| Price, network, market, status | the `*_service.py` of that name | TTL caches | read-through lookups |
| HTTP API and lifecycle | `main.py`, `api/payment_v1.py` | task handles | start and stop the watcher and the worker, routing |
| Reference merchant | `backend/examples/reference_merchant.py` | SQLite: orders, consumed events | reserve, bind, consume an event |
| Schema and migration | `initialize` of the two stores, `scripts/phase_k_production_migration.py` | the database file, an open transaction | create tables, add merchants to them, verify |
| Backups | `scripts/payment_db_backup*.py`, `payment_db_restore_drill.py` | a directory of database and manifest files | back up, drill, retain |
| Off-host copies | `scripts/payment_db_offhost_sender.py`, `payment_db_offhost_receiver.py` | the directory of the other machine | send, stage, link, retain |
| Credential scripts | `scripts/merchant_credential_admin.py`, `configure_phase_k_scoped_auth.py` | rows of the store, secret files, the env file | issue, disable, switch the gate |
| Acceptance scripts, deployment, templates, front end | other files of `scripts/`, `deploy/`, `backend/app/templates/` | none | none |

How they interact. A create request checks the store three times, takes a
snapshot from ElectrumX in two calls, writes the tip and inserts the payment:
six awaits between which anything else may run. The watcher is a coroutine of
the same process on the same database; each of its reconciliations is a history
call followed by one transaction per output, one that deletes what is gone, and
one that evaluates. A status read is a third writer: it refreshes the payment.
Only `refresh_payment` and `create_payment` change a payment, and each adds the
event, and the event its deliveries, in its own transaction. The webhook worker
reads the deliveries of the store and writes their outcomes back. All of them
start again from the database alone when the process restarts.

What is hard, and what makes each part correct:

* evaluator: heights at the boundary, an output seen several times, the order
  of the status tests; it must count an output once, never call unconfirmed
  money confirmed, and a clock or a block may only move a status one way;
* store and gateway: creates that pass their early checks together, retries
  that overlap, restarts between snapshot and insert; one payment per key and
  per reference, disjoint windows on an address, a baseline without a gap, an
  event for every version;
* watcher: notifications that arrive during a reconciliation, a full queue, a
  lost connection, a subscription cap on a protocol that cannot unsubscribe,
  tips written by two parties; what is stored must be what is on the chain once
  the watcher is quiet, and in the end for good;
* webhooks and merchant: at-least-once delivery, lost answers, events out of
  order, endpoints disabled in mid-batch; delivered means consumed, applied at
  most once, the newest version wins, nothing due is left;
* subscription client: answers that come after their request has given up, a
  reader that fails, a close while others wait; an answer goes to the one who
  asked, and nobody waits for a reader that has gone;
* reads: caches, one lookup shared by many waiters, waiters that are cancelled;
  fresh means fresh, one lookup at a time, what is reported never gets older;
* access: credentials issued, undelivered, disabled while requests run with
  them; nothing of one merchant is changed or shown for another, no enabled
  credential is left that nobody holds;
* listing: pages taken while payments appear and change; every payment once;
* database file: a migration whose statements are committed one by one, a
  backup that runs next to it, retention, transfers cut off, kills anywhere; no
  idempotency key is lost, what looks like a recovery point is one, and the
  promised number of them stays.

`PROJECT.json` lists the hazards one by one at their lines, with the properties
that cover them or the reason none does.

## 2. The modules

```
PaymentState          the evaluator, operators only           <- PaymentStateProofs
  PaymentRows         rows of payment_transactions and their evaluation
    PaymentEvaluation   streams of observations               -> Components
      PaymentEvaluationProofs (+ PaymentStateProofs)
    PaymentStore        tables and transactions
      PaymentGateway      (+ ElectrumXChain)                  <- MCPaymentGateway
        PaymentGatewayProofs
        PaymentWatcher      the whole platform in one process <- MCPaymentWatcher
          PaymentWatcherProofs (+ PaymentGatewayProofs, PaymentStateProofs)
      WebhookWorker
        MerchantIntegration (+ ReferenceMerchant)             <- MCMerchantIntegration
          MerchantIntegrationProofs
PaymentLedger         the abstract books the store implements

PaymentSchema         what a database file must look like
  PaymentMigration      how it gets its tables and merchants
    PaymentBackups        the maintenance run
      OffhostCopies         sender and receivers
        Operations            all of them on one database     -> Components
          OperationsProofs
ElectrumXRequests     the subscription client                 -> Components
AddressReads          caches and shared lookups               -> Components
  ElectrumXProofs       about these two
MerchantAccess        credentials and tenants                 -> Components
PaymentListing        the walk with a cursor                  -> Components
  MerchantApiProofs     about these two
Components            those that share no state               <- MCComponents
```

**PaymentState** has one operator per function and per block of
`evaluate_payment_observations`. An observation is a record of transaction,
output index, value, height and first-seen time. Times and heights are
integers, `None` is -1. Amounts are small integers; parsing is not modelled.

**PaymentRows** is the upsert and the deletion of `payment_transactions` and
the evaluation of what is left. **PaymentEvaluation** runs the evaluator and the
rows side by side under a stream of observations, a tip that moves both ways
and a clock.

**PaymentStore** has one action operator per store method that changes
something: each method is one SQLite transaction. A table is a set of records
or a function from its key. Columns no method reads back are left out. An
address stands for its scripthash too.

**ElectrumXChain** is external: a tip and the position of each transaction
(unknown, in the mempool, or a height), with broadcast, mining, a reorg of one
block and eviction. Two histories, `lowest` (the lowest tip a disconnected block
has left) and `evicted`, let each property exclude only the disturbances the
code makes no promise about.

**PaymentGateway** has the create request as a program counter, one action per
await of `create_persisted_payment`: `CheckReplay`, `CheckReference`,
`CheckAddress`, `SnapshotTip`, `SnapshotHistory` (or `SnapshotFails`), `SaveTip`,
`Insert`. A status read is `BeginGet`, which takes the time, and `FinishGet`,
which refreshes. `Restart` loses every request in progress. A request is named
by the payment id it would draw; a retry is another request with the same
arguments.

**PaymentWatcher** is the coroutine: `w.stage` says which step is next and
`w.mode` which caller it returns to. `Connect`, `ApplyTip`, `ListRefreshable`,
`RefreshListed`, `Sync`, `Subscribe`, `ReadHistory`, `LoadPayments`, `Upsert`,
`Delete`, `Evaluate`, `TakeNotification`, `Timeout` are the code between two
awaits or one transaction. `Disconnect`, `CycleFails` and `ServiceRestart` are
its faults. A queued notification of a script carries no status hash, because
the code does not use one. The read loop of the socket is folded into the
server: what is notified to a connected session is queued at once. That a
request is answered with its own answer or fails with its session is what
`ElectrumXRequests` is about. `missed` is a history variable, no part of the
code: the subscribed addresses that have lost a notification while a full
reconciliation ran (`Dropped`) or got a payment after their subscription
(`OpenedLate`), until their history is read again. It exists to say exactly when
a quiet watcher shows the chain, and no step of the code depends on it.

**WebhookWorker** keeps the batch as it was listed and the attempt in hand:
`ListDue`, `BeginAttempt`, `Answer` or `NoAnswer` for each address of the target,
`Record`, and `Abandon` for whatever ends a batch early. Deliveries due at the
same time come in any order. **ReferenceMerchant** is one order of the example
store. **MerchantIntegration** composes them: the merchant asks, may lose the
response, asks again or binds it; the payment changes; the worker delivers. The
create is one step there, its insert transaction, since `PaymentGateway` has the
others. The answer of the receiver may be lost after it consumed the event.

**PaymentLedger** is what the store promises, in two actions: open a payment
that is compatible with all earlier ones, and append one event to a history.
`Books` in `PaymentGateway` is the refinement mapping from the tables.

**ElectrumXRequests** is the client by itself, for any callers: the write lock,
the drain, the table of pending requests, the future, the reader, `close` and
the requests of `connect`. A question is a number of the model's own, so that an
answer to another question can be told from one's own; the code knows only
`_request_id`. Asking, the server's reply and reading it are three steps, so a
reply may come after its caller has left and the number has gone from the table.

**MerchantAccess** has the merchant rows, the credentials with their state, the
scripts as runs of two or three transactions and a file, the gate in the env
file next to the one the running service has read, and requests that are let in
in one step and served in another. A token is the credential it belongs to; who
a key stands for is `MerchantOf`, and `TenantsApart` compares it with the rows a
request changes and shows.

**AddressReads** is one address: what the server holds of it is a version
number. A request has the list of lookups its route still makes. The shared
observation is a task with a number, `inflight` is the entry of the table, and
`Woken` keeps everybody who waits for one task in the same turn of the event
loop: no answer of the server is read between two of them.

**PaymentListing** is a walk through pages while rows are inserted (with a
creation second that may lie one back, as it is read before the commit) and
change their status.

**PaymentSchema** is `database_summary` with its checks. **PaymentMigration** runs
the statements of the two `initialize` methods one by one, with `disk` (what is
committed) and `work` (what the connection sees); `Commits` says where Python's
`sqlite3` leaves nothing open. **PaymentBackups** is one run of the maintenance
script file by file, **OffhostCopies** a sender and several receivers, because a
receiver outlives a sender that has given up. A database file holds a database
record, a manifest the checksum as the content it was made of. **Operations**
puts them on one database: a backup copies whatever the migration has committed
so far, the migration script asks for the newest backup, the sender takes it.

**Components** puts evaluator, operations, requests, access, listing and reads
side by side: `part` says which of them moves, and the variables of the others
keep one initial state. They share no variable, so a behaviour of one of them
and a behaviour of `Components` with that `part` are the same but for variables
no property of it mentions; nothing is lost by not interleaving them.
`Operations` and `AddressReads` are split once more. With `part = "database"`
migrations and backups move; with `"offhost"` backups and copies do, from one
committed database: no step of a copy reads the database or the migration, it
reads the backup directory. With `"monitor"` the reads are those of the payment
monitor, with `"wallet"` those of the other routes: observations have a cache
and a table of their own.

Operators marked *Slip* are forms a mistake could give to the operator next to
them; no specification uses them. Each property is violated when the slip named
in `PROJECT.json` takes the place of the code.

## 3. The runs

| Run | Bounds | What it shows |
|---|---|---|
| `components` | evaluator: two outputs, three observations, tip 0..2, policy 0 or 2, deadline 2 of clock 1..3. Database: two payments, two backups, one kept, one kill. Copies: two receivers, two transfers, one loss. Client: two callers, three requests. Access: one merchant and the legacy one, two credentials, one endpoint, one script, one request, one kill. Listing: three rows, pages of one, three seconds. Reads: two requests, two lookups, one transaction, one cancellation | the policy counts what enough blocks bury, no block early, rows and stream agree, repetition is harmless, clock and blocks move statuses one way; keys survive a migration, recovery points are kept, restore and start, here and on the other machine; answers are one's own; credentials are delivered, tenants apart; a walk is complete; fresh is fresh, one lookup, never older |
| `gateway` | four creates (an order, its retry, another merchant with the same strings, the key and reference reused for another address), a reader, clock 0..2, windows of length one, one chain event, restarts | one payment per key and per reference, disjoint windows |
| `watcher_recovery` | one order of two atoms paid in two transactions, four chain events with reorg and eviction, a queue of two, one fault, a reader | the three moments of the creation snapshot leave no gap; a quiet watcher shows the chain, overflows of the queue included, except for what was dropped during a full reconciliation; events match versions and deliveries match events; paid stays paid without eviction and without a reorg below its creation |
| `watcher_capped` | two addresses, one subscription, a queue of one, a chain of at most one block over its start, three chain events with reorg and eviction, one fault | queue and cap hold; watched payments are eventually reconciled for good, except for what was dropped during a full reconciliation |
| `watcher_windows` | one address in two windows, clock 0..2, two chain events, a reorg among them | money counts for the payment in whose window it arrived, and for one only; the tables implement `PaymentLedger` while two payments compete for the address, are paid, taken back, confirmed and expire |
| `merchant_webhooks` | one order, one endpoint, two versions, two addresses, two attempts, batches of two, clock 0..2, one interruption | delivered is consumed, applied at most once, the newest event wins, a disabled endpoint is left alone, nothing due is left |
| `gateway_retry`, `watcher_overflow`, `watcher_reuse`, `watcher_stale_tip`, `merchant_bind`, `migration_restart` | see below | six statements of the documentation that the code does not keep |

Why the bounds are enough. Conflicts of creates are between two requests over
one key, reference or address; four requests give every pair and a third party
that sees the result. On a clock of three values a window that closes at its
second 1 is open, is refused in that very second, and is used again in the next;
a payment expires when the clock shows 2, and the reader then gives it its second
version. The books of the ledger are compared in `watcher_windows`, where blocks,
a reorg and the deadline give a payment several versions. The chain
events are enough for broadcast, block, reorg and eviction of
one transaction in any order, and one fault in any place is enough for a
recovery; a second fault starts from the same state a restart leaves. A queue of
one is full after one notification, and one of two overflows before and during a
full reconciliation. Two versions are delivered in both orders
because the first may back off while the second is new.

Of the components: two callers are one who is late and one who asks meanwhile,
and a third request is one more that a late answer might meet. Two backups with
one kept are the least at which something is pruned, and one kill at any step
includes the one between the two unlinks of a pair; that an unusable pair may be
counted in the place of a good one takes more of both, and is
`RetentionKeepsRecoveryPoints` for any number. Two receivers are a
forgotten one and its successor. Three rows on pages of one give a first, a
middle and a last page, all in one second if need be. Two readers are a waiter
and one who joins or comes late, with a second lookup after a cancellation. Every
invariant and action property of the passing runs is proved besides, for any
sizes (section 4).

Larger instances were run once and pass: three backups (1.1 million states),
three chain events in `watcher_windows` (6.4 million).

`watcher_capped` has the three chain events it takes to drop a notification
during a full reconciliation (a broadcast, a block and a reorg): without its
exception for `missed` addresses `EventuallyReconciled` is violated on these
bounds, as finding 1 has it. Heights matter only in relation to each other, so
its chain starts at 0.

What the bounds do leave out: the LIMIT of a batch is never reached with two deliveries; the limit of
the refresh list is never reached with two payments.

The two transactions of `watcher_recovery` pay the same to the same address, the
order and its retry in `gateway` ask for the same, and no definition chooses
among transactions or requests, so TLC treats them as symmetric.

`CHECK_DEADLOCK FALSE` is set wherever the bounded clock, chain and requests
run out.

### Fairness

`FairWatcherSpec` has weak fairness of `WatcherStep` only, and
`MerchantIntegration` of `WorkerStep` only. Both are loops that an event loop
resumes whenever they can run: every await of theirs is a queue with a timeout,
a request with a timeout, a store call or a sleep. The chain, the clients, the
clock, the receiver and the faults are under no obligation; faults, chain
events and the clock are bounded, so the liveness properties say what happens
once the disturbances end. The receiver is free to refuse or lose every attempt:
`DueIsAttempted` then follows from the number of attempts and the backoff.

### Findings

1. `watcher_overflow`: a notification that does not fit while the full
   reconciliation runs sets `_needs_full_reconcile`, and the end of that
   reconciliation clears it (`payment_watcher.py:348`). The comment at line 260
   rests the dropping of notifications on a full reconciliation that follows;
   `QuietMeansAllReconciled` is what would hold then. The payment stays as it is
   until its address is notified again or the session ends, which is why
   `EventuallyReconciled` has the exception too.
2. `watcher_reuse`: a payment created on an address that is already subscribed
   is not reconciled (`payment_watcher.py:378`), though the comment at line 385
   asks for it. That these two are the only ways to miss something is
   `QuietMeansReconciled`, which `watcher_recovery` checks and
   `QuietShowsTheChain` proves.
3. `watcher_stale_tip`: a create writes the tip of its snapshot over the
   watcher's newer one (`payment_gateway_service.py:279`), and the next refresh
   takes a confirmed payment back without a reorg.
4. `gateway_retry`: a retry that overlaps the create it repeats is refused with
   409 (`payment_gateway_service.py:267`) though its key is bound by then.
5. `migration_restart`: a migration that ends right after it has created the
   copy of the key table leaves the copy behind, and every later start fails on
   the `CREATE TABLE` without `IF NOT EXISTS` (`payment_store.py:329`), which the
   `executescript` has committed by itself. `KeysSurvive` shows that no key is
   lost in any of these states. A statement that fails in between, on a
   locked database say, leaves the same state without any process ending.
6. `merchant_bind`: `bind_payment` writes an older version over a newer one
   (`reference_merchant.py:441`), for good, because the newer event is consumed.

## 4. What is proved

No theorem assumes more than the named assumptions of its modules on the
constants, which the runs evaluate: bounds and lengths are natural numbers
(positive where a size of zero would mean nothing), requests and outputs have
natural amounts, two outputs of the evaluator's stream are not the same output
with different values, initial endpoints are a finite set of endpoint rows, the
legacy merchant and keys are none of the others. Sets of requests, merchants,
readers, transactions, receivers and so on are arbitrary, infinite ones
included unless the code counts them.

| Theorem | Statement |
|---|---|
| `PaymentGatewayProofs` | |
| `TypeCorrect` | `Spec => []TypeOK` |
| `WindowsNeverOverlap` | `Spec => []WindowsDisjoint` |
| `ReferencesNameOnePayment` | `Spec => []OnePaymentPerReference` |
| `KeysOpenOnePayment` | `Spec => []OnePaymentPerKey` |
| `EveryVersionHasItsEvent` | `Spec => []EventsMatchVersions` |
| `EveryEventIsOwedOnce` | `Spec => []DeliveriesMatchEvents` |
| `SnapshotsHaveNoGap` | `Spec => []SnapshotHasNoGap` |
| `StoreImplementsLedger` | `Spec => KeepsTheLedger` (refinement of `PaymentLedger`) |
| `PaymentWatcherProofs` | |
| `WatcherTyped` | `WatcherSpec => []WatcherTypeOK` |
| `SessionStaysWithinTheCap` | `WatcherSpec => []SubscriptionsCapped` |
| `StorePromisesHoldOnThePlatform` | the gateway's windows, references, events and deliveries under `WatcherSpec` |
| `KeysOpenOnePaymentOnThePlatform` | `WatcherSpec => []OnePaymentPerKey` |
| `SnapshotsHaveNoGapOnThePlatform` | `WatcherSpec => []SnapshotHasNoGap` |
| `PlatformImplementsLedger` | `WatcherSpec => KeepsTheLedger` |
| `OnlyMoneyInTheWindowCounts` | `WatcherSpec => []CountedMoneyArrivedInWindow` |
| `NoOutputCountsTwice` | `WatcherSpec => []CountedOnce` |
| `PaidIsForGood` | `WatcherSpec => PaidStaysPaid` |
| `QuietShowsTheChain` | `WatcherSpec => []QuietMeansReconciled` |
| `PaymentEvaluationProofs` | |
| `ConfirmedStatusIsConfirmed` | `Spec => []PolicyWithinConfirmed` |
| `RowsAreTheStream` | `Spec => []RowsEvaluateLikeTheStream` |
| `ClockTakesNothingBack` | `Spec => ClockNeverUnpays` |
| `BlocksConfirm` | `Spec => NewBlockNeverUnconfirms` |
| `RepetitionIsHarmless` | `Spec => RepeatedObservationIsHarmless` |
| `MerchantIntegrationProofs` | |
| `IntegrationTyped` | `Spec => []TypeOK` |
| `DeliveredIsConsumed` | `Spec => []DeliveredMeansConsumed` |
| `EventsActOnce` | `Spec => []AppliedOnce` |
| `WebhooksConverge` | `Spec => []NewestEventWins` |
| `DisabledStaysQuiet` | `Spec => DisabledIsLeftAlone` |
| `ElectrumXProofs` | |
| `EveryAnswerIsOwn` | `RequestsSpec => []OwnAnswer` |
| `NobodyIsLeftWaiting` | `RequestsSpec => []NoOneWaitsOnDeadSession` |
| `FreshIsFresh` | `ReadsSpec => []FreshReadsAreFresh` |
| `OneLookupAtATime` | `ReadsSpec => []SingleFlight` |
| `MonitorIsMonotone` | `ReadsSpec => MonitorNeverGoesBack` |
| `MerchantApiProofs` | |
| `CredentialsAreDelivered` | `AccessSpec => []NoUndeliveredCredential` |
| `MerchantsAreIsolated` | `AccessSpec => TenantsApart` |
| `WalksAreComplete` | `ListingSpec => []WalkIsComplete` |
| `OperationsProofs` | |
| `InterruptionsKeepTheKeys` | `OperationsSpec => []KeysSurvive` |
| `ScriptHasARecoveryPoint` | `OperationsSpec => []MigrationHasRecoveryPoint` |
| `RetentionKeepsRecoveryPoints` | `OperationsSpec => []RecoveryPointsKept` |
| `RestoredServicesStart` | `OperationsSpec => []BackupsStart` |
| `RemoteCopiesRestore` | `OperationsSpec => []RemotePairsRestore` |
| `ReportedCopiesStay` | `OperationsSpec => []ReportedCopiesKept` |

### The gateway

The safety properties are not inductive: nothing in them says whose payment a
row is, or that an id drawn by a request that is still running is not in use.
`IInv` is the conjunction of the types, `WindowsDisjoint`,
`OnePaymentPerReference` and

* `OpenedByReturn`: a payment's request has returned, and the row has that
  request's merchant and reference;
* `KeysBound`: the key rows are exactly the rows of the payments whose request
  had a key;
* `KeysUnique`: two payments of one merchant were not opened under one key;
* `AnswersBound`: who was answered with a payment was given an existing one,
  its own or one opened with the same merchant, key and request hash.

A refresh keeps merchant, address, amount, reference and window of every payment
(`RefreshKeepsIdentity`), a create adds one row (`CreateAddsOnePayment`) and
only under the checks repeated inside its transaction; the other steps leave the
tables alone. The early checks of the coroutine appear nowhere in the argument:
they are for the client's benefit, and the transaction carries the safety.

What a step does to the tables is stated once (`StepEffects`: nothing, one
payment opened, or one new version with its event) and of `PlatformStep`, which
is any step of the gateway or any one transaction of the watcher. Each invariant
below is preserved by every `PlatformStep`, and a step of the watcher is shown
to be one (`WatcherNextIsAPlatformStep`). That is how one proof serves the
gateway by itself and the whole platform.

* `EventsInv` adds `EventsMatchVersions` and `DeliveriesOwed`, which reads
  `DeliveriesMatchEvents` row by row.
* `KeepsTheLedger` is proved step by step: under `EventsInv` each platform step
  is a step of `PaymentLedger` on `Books`, or leaves the books as they are.
* `SnapshotInv` relates the locals of each request, and later the row of its
  payment, to the chain. By the time of the snapshot the height was taken
  before the history and the time before both, so every transaction the snapshot
  does not know arrived no earlier than the time, and if it is in a block, then
  above the height, unless blocks were disconnected below that height
  (`Snapshot`, `Arrivals`).

### The watcher

`WatcherInv` has the types of the coroutine and counts a pass of subscriptions
with those it has still to make (`SessionOK`): the cap holds because a pass is
only begun with a list that contains the session.

`RowsInv` is about rows and about the observations the coroutine still carries
in its locals from reads made several awaits ago. Each is `Traced`: it is of an
output to the payment's address and outside the baseline, and unless a
transaction was evicted, the server had it by the row's first-seen time
(`Observed`). With `SnapshotInv` this puts the arrival of counted money inside
the window, and with `WindowsDisjoint` no output inside two windows.

`PaidInv` is why a paid payment stays paid. It says that what a paid status
rests on, the sum of the rows in scope, is still in the table (`PaidCovered`),
and, of the history in the coroutine's hands:

* `HistoryAbove`: a height in it is above the creation height of every payment
  of the address whose snapshot lacks the transaction. The payment may have been
  opened after the history was read, and the snapshot may still be the locals
  of a create request: a snapshot taken later has the transaction in it, one
  taken before is below the block;
* `HistoryCovers`: it has every transaction of which any payment of the address
  has a row, so that removing the others removes nothing;
* `InHand`: an upsert is stamped with a time that is not before the creation of
  the payment it is for.

An upsert then moves nothing that counts out of scope (`UpsertKeepsCounted`),
and an evaluation at any clock and tip gives a paid status exactly if the sum
reaches the amount (`PaidIsReceived`). The two exceptions the property makes are
where the argument needs them: `HistoryCovers` fails after an eviction,
`HistoryAbove` after a reorg below the creation height.

`QuietInv` is why a quiet watcher shows the chain. Between a block and the last
evaluation it leads to lie many steps of several actors, so what is invariant is
where each address stands (`AddressOK`). A subscribed address that is not
`missed` is in one of three places:

* due (`DueFor`): something makes the coroutine read its history later on. Its
  notification is queued, a full reconciliation is owed or has it still to come,
  the coroutine is about to read it, or the session is lost, and its
  subscriptions will be with it;
* being reconciled (`BeingReconciled`): the history in the coroutine's hands is
  still that of the server, and each payment of the address waits for its turn,
  is at a point of the loop that leaves it what the history has (`ProgressOf`),
  or is reconciled (`Underway`);
* at rest (`AtRest`): its rows are those of the chain and the amounts those of
  the rows.

A step of the server that changes the history of an address makes it due
(`ServerTells`, `ServerStepOK`): the notification is queued or the flag is set,
and only during a full reconciliation may that not be enough, which is
`Dropped`. What is due stays due until it is read (`StepDue`), and a reading
starts a reconciliation with the server's history (`ReadGoesOn`). Upserts,
removals and evaluations of one address go on towards it and leave the others
alone (`LoadGoesOn`, `UpsertGoesOn`, `DeleteGoesOn`, `EvaluateGoesOn`,
`OthersRest`); `Traced` and `InHand` above are what shows that the removal
leaves nothing that is not owed and that an upsert is for the address in hand. A
status read or a refresh at another clock and tip changes no amount that is
right (`PaymentRowsMove`). When the watcher waits, with a session, an empty queue
and no flag, nothing is due and nothing under way; `SessionKept` says that a
waiting coroutine is in no full reconciliation. TLC checked `QuietInv` (without
the second half of `SessionKept`) on the bounds of `watcher_recovery`,
`watcher_overflow` and `watcher_reuse` before it was proved.

### The evaluator

`EvaluationInv` says that the rows are `Deduplicate` of all observations so far,
though only the evaluator deduplicates and the store never looks back.
`OneMoreIsAnUpsert` is the reason: collapsing one more observation does to what
is kept exactly what the upsert does to the rows. The evaluator leaves out what
is out of scope before it collapses, the rows afterwards; `KeptBelongs` shows
that this makes no difference when all observations are in scope. A sum over a set is counted as the
number of its atoms (`SumCountsAtoms`), pairs of an output and a number up to
its value, so that facts about sums follow from facts about cardinalities, and
no induction over data is needed. That the policy counts what N blocks bury
(`PolicyIsBuried`) compares the subtraction of the code with the number of
blocks from the output's own to the tip.

### Webhooks and merchant

`IntegrationInv`: the batch in the worker's hands names rows of the table
though it may be old (`WorkerOK`), an acceptance in hand means the merchant has
the event, and what is applied was seen, and once (`ConsumedOK`).
`DeliveredMeansConsumed` and `NewestEventWins` are inductive next to these.
`DelayIsNatural` shows that the capped exponential backoff is a number of
seconds after any number of attempts.

### The subscription client

For any set of callers and any number of requests. `RequestsInv` adds that no
number in use is above the counter (`NumbersUsed`), that two callers never share
one (`NumbersDiffer`), that who waits is in the table under its number
(`WaitersArePending`), and that a question or answer with the number of a waiting
caller is that caller's (`NumbersIdentify`). The argument is that a number is
never used twice: the table is searched by number alone, and a late answer would
otherwise meet a younger request.

### Access and listing

For any merchants, credentials, endpoints, scripts and requests. `AccessInv` adds
that a script that has inserted a credential knows which (`ScriptsKnowTheirs`),
and that the merchant of a running request is the one its key was issued to, if
the key is not the legacy one (`KeysNameMerchants`). The latter is what a
credential disabled in mid-request leaves intact: a row is disabled, never
deleted or given to somebody else.

`ListingInv` says that a payment due to a walk is either seen or still behind
its cursor. A page is a prefix of what is behind the cursor in the order of the
query, which is total because the id breaks ties, so a full page moves the
cursor over nothing but the page, and a short one over nothing at all.

### Reads

For any readers, lookups and transactions. `FreshAges` relates what a fresh
request holds to its arrival. For the monitor `ReadsInv` adds that who waits,
waits for a started observation (`AskersAskOthers`, `WaitersHaveTasks`), that a
finished one has an answer (`TasksHaveAnswers`), that while nobody is cancelled
only the one in the table runs (`OnlyTheTableRuns`), that all who are woken are
woken by the same one and no other has asked the server by then
(`WokenTogether`), and that no answer on its way is older than what has been
reported or kept (`AnswersAreNoOlder`). The hypothesis `cancels = 0` cannot be
dropped: a cancelled waiter takes the entry out while its lookup goes on, a
second one is started, and the first may be answered later with older data.

### The database file

`OperationsInv` is the conjunction of three invariants over any number of
backups, kills, receivers and transfers.

* `MigrationInv`: every bound key is in the key table both on disk and in the
  open transaction, except that between the drop and the rename the open
  transaction has it in the copy.
* `BackupsInv`: what each step of a run has written so far (`WrittenOK`), that
  only a killed run leaves a useless pair (no more of them than kills), and
  that a pair that once passed is a recovery point or has `Keep` newer pairs
  (`RetentionOK`). Retention counts pairs, not usable ones, so the number of
  kills appears in the argument as it does in the property.
* `OffhostInv`: one database accounts for all that exists under a name on both
  machines and in transit (`ContentsOK`); what a receiver has marked to be
  removed, and half of a pair, is supplanted by enough newer copies even when
  two receivers work on one name (`HalfPairs`); a name that was reported is
  complete or supplanted (`KeptOK`).

### Model-checked only

* `EventuallyReconciled` (with its exception) and `DueIsAttempted` are liveness under fairness, which
  the proof system cannot treat.
* The findings are counterexamples of TLC. What they leave standing is proved for
  the watcher's two misses (`QuietShowsTheChain`) and, as to the loss of a key,
  for the interrupted migration (`InterruptionsKeepTheKeys`).

## 5. What is not modelled

* the price, network, market and status services: read-through caches whose
  answers no other part relies on, with the cache that `AddressReads` has;
* the acceptance and snapshot scripts, and those that edit other settings: they
  drive a deployment from outside and compare it with what the properties here
  say, and keep no state of their own;
* the length of the watcher's backoff (time between reconnections is up to the
  scheduler) and its health counters;
* a delivery that raises at every attempt and so holds up the queue for ever:
  batches that end early are bounded;
* the rows and amounts a wallet page shows, and the monitor's classification of
  an amount;
* two `connect` calls of one subscription client at once (the watcher has one
  caller), and two migrations at once: the service has up to three
  `PaymentStore` objects, each with a lock of its own;
* a power cut during a local backup, whose files are not synced to disk; the
  kills are those of processes;
* the refresh list at its limit, and a batch of deliveries at its limit;
* parsing, formatting, HTTP, TLS, HMAC, address rules, ssh, file modes, hashes,
  deployment, templates, front end: pure functions of bytes or I/O, which the
  properties do not tell apart.

## 6. Plan

Done: the payment path (evaluator, store, gateway, watcher, webhooks,
merchant), the client, the reads, access, listing, and the database file; the
proofs of every safety and action property that the runs check and that holds
for all constants, and the refinement of the ledger. What is left, in this
order:

1. `ConfirmedStaysConfirmed` as far as it holds: a payment is only taken back
   from confirmed by an evaluation at a tip below the one it was confirmed at
   (finding 3).

Runs keep to one question each; where two bounds coincide a new property joins
an existing run.
