---------------------------- MODULE PaymentStore ----------------------------
(***************************************************************************)
(* The SQLite tables of services/payment_store.py and the transactions on  *)
(* them.  Every method of PaymentStore runs in one connection and commits  *)
(* or rolls back as a whole, so each is one action operator here; what     *)
(* happens between two of them is the business of the modules that use     *)
(* this one.  A row is a record, a table a set of rows or a function from  *)
(* the primary key.  Columns that no method reads back (labels, tip hash,  *)
(* per-row update times) are left out.  An address stands for its          *)
(* scripthash too: the one is computed from the other.                     *)
(***************************************************************************)
EXTENDS PaymentRows

CONSTANTS
  PaymentIds,       \* the random ids that create requests draw
  Pays              \* Pays[t]: the outputs of t, a sequence of [address, value]

(* The Python None of an optional string: no key, no reference.            *)
Absent == "absent"

Tx == DOMAIN Pays

VARIABLES
  payments,         \* payments: payment id -> row
  idempotencyKeys,  \* payment_idempotency_keys: [merchant, key, hash, payment]
  baseline,         \* payment_baseline_transactions: payment id -> txids
  transactions,     \* payment_transactions: payment id -> observations
  chainTip,         \* chain_state.tip_height, None before the first one
  events,           \* events: [payment, version, type]
  endpoints,        \* webhook_endpoints: [id, merchant, types, enabled]
  deliveries        \* webhook_deliveries: [event, endpoint, status, attempts, due]

storeVars == <<payments, idempotencyKeys, baseline, transactions, chainTip,
               events, endpoints, deliveries>>

StoreInit(initialEndpoints) ==
  /\ payments = [p \in {} |-> Absent]
  /\ idempotencyKeys = {}
  /\ baseline = [p \in PaymentIds |-> {}]
  /\ transactions = [p \in PaymentIds |-> {}]
  /\ chainTip = None
  /\ events = {}
  /\ endpoints = initialEndpoints
  /\ deliveries = {}

-----------------------------------------------------------------------------
(* Events and the webhook deliveries they fan out to.                      *)

EventType(status) == "payment." \o status

Event(p, version, type) == [payment |-> p, version |-> version, type |-> type]

(* Slip: the endpoints of every merchant.                                  *)
DeliveriesOfAnyMerchant(e, merchant, at) ==
  { [event |-> e, endpoint |-> w.id, status |-> "pending", attempts |-> 0, due |-> at] :
    w \in { v \in endpoints : v.enabled /\ e.type \in v.types } }

(* The deliveries of an event: one to each enabled endpoint of the         *)
(* merchant whose filter names the type.                                   *)
DeliveriesOf(e, merchant, at) ==
  { [event |-> e, endpoint |-> w.id, status |-> "pending", attempts |-> 0, due |-> at] :
    w \in { v \in endpoints : v.enabled /\ v.merchant = merchant /\ e.type \in v.types } }

(* Slip: an early return when no endpoint listens, before the INSERT.      *)
InsertEventForListeners(e, merchant, at) ==
  LET owed == DeliveriesOf(e, merchant, at)
  IN  /\ events' = IF owed = {} THEN events ELSE events \cup {e}
      /\ deliveries' = deliveries \cup owed

(* _insert_event: INSERT OR IGNORE; only a new event gets deliveries.      *)
InsertEvent(e, merchant, at) ==
  /\ events' = events \cup {e}
  /\ deliveries' = IF e \in events THEN deliveries
                   ELSE deliveries \cup DeliveriesOf(e, merchant, at)

-----------------------------------------------------------------------------
(* Creation.  A request q is a record of the merchant, its Idempotency-Key *)
(* and the parameters of the create call.                                  *)

(* _payment_create_request_hash, SHA-256 taken as injective: the merchant  *)
(* and the key are not part of it.                                         *)
RequestHash(q) ==
  [address |-> q.address, amount |-> q.amount, confirmations |-> q.confirmations,
   expires_in |-> q.expires_in, reference |-> q.reference]

KeyRows(q) == { k \in idempotencyKeys : k.merchant = q.merchant /\ k.key = q.key }

(* The payment a known key maps to; every row of the key has the hash the  *)
(* first create of it stored.                                              *)
ReplayedPayment(q) == (CHOOSE k \in KeyRows(q) : TRUE).payment

KeyConflict(q) == \E k \in KeyRows(q) : k.hash # RequestHash(q)

ReferenceTaken(q) ==
  /\ q.reference # Absent
  /\ \E p \in DOMAIN payments : /\ payments[p].merchant = q.merchant
                                /\ payments[p].reference = q.reference

(* Slip: the deadline is exclusive.                                        *)
AddressInUseBefore(q, created_at) ==
  \E p \in DOMAIN payments : /\ payments[p].address = q.address
                             /\ payments[p].expires_at > created_at

(* get_overlapping_address_payment: any merchant, any status, and the      *)
(* deadline is inclusive.                                                  *)
AddressInUse(q, created_at) ==
  \E p \in DOMAIN payments : /\ payments[p].address = q.address
                             /\ payments[p].expires_at >= created_at

(* Slip: the checks made before the snapshot trusted at the insert.        *)
TrustEarlyChecks(q, created_at) ==
  IF AddressInUse(q, created_at) THEN "address_in_use" ELSE "created"

(* The order of the checks of create_payment.                              *)
CreateOutcome(q, created_at) ==
  IF q.key # Absent /\ KeyRows(q) # {}
  THEN IF KeyConflict(q) THEN "idempotency_conflict" ELSE "replay"
  ELSE IF ReferenceTaken(q) THEN "reference_conflict"
  ELSE IF AddressInUse(q, created_at) THEN "address_in_use"
  ELSE "created"

PaymentRow(q, created_at, created_height) ==
  [merchant |-> q.merchant, address |-> q.address, amount |-> q.amount,
   confirmations |-> q.confirmations, reference |-> q.reference,
   created_at |-> created_at, created_height |-> created_height,
   expires_at |-> created_at + q.expires_in,
   status |-> "waiting", version |-> 1,
   received |-> 0, confirmed |-> 0, policy |-> 0, updated_at |-> created_at]

(* create_payment, under BEGIN IMMEDIATE: the checks are repeated and only *)
(* a payment that passes them all is inserted.                             *)
CreatePayment(p, q, created_at, created_height, txids) ==
  /\ CreateOutcome(q, created_at) = "created"
  /\ payments' = [x \in DOMAIN payments \cup {p} |->
                    IF x = p THEN PaymentRow(q, created_at, created_height)
                    ELSE payments[x]]
  /\ baseline' = [baseline EXCEPT ![p] = txids]
  /\ InsertEvent(Event(p, 1, "payment.created"), q.merchant, created_at)
  /\ idempotencyKeys' =
       IF q.key = Absent THEN idempotencyKeys
       ELSE idempotencyKeys \cup {[merchant |-> q.merchant, key |-> q.key,
                                   hash |-> RequestHash(q), payment |-> p]}
  /\ UNCHANGED <<transactions, chainTip, endpoints>>

-----------------------------------------------------------------------------
(* Chain state and observed transactions.                                  *)

(* set_chain_tip: an upsert that never looks at the row it replaces.       *)
SetChainTip(height) ==
  /\ chainTip' = height
  /\ UNCHANGED <<payments, idempotencyKeys, baseline, transactions, events,
                 endpoints, deliveries>>

(* upsert_transaction; one output never changes its value here, as it      *)
(* comes from Pays.                                                        *)
UpsertTransaction(p, o) ==
  /\ p \in DOMAIN payments
  /\ ~UpsertRefused(transactions[p], o)
  /\ transactions' = [transactions EXCEPT ![p] = UpsertRow(@, o)]
  /\ UNCHANGED <<payments, idempotencyKeys, baseline, chainTip, events,
                 endpoints, deliveries>>

DeleteTransactionsNotIn(p, txids) ==
  /\ transactions' = [transactions EXCEPT ![p] = RowsWithin(@, txids)]
  /\ UNCHANGED <<payments, idempotencyKeys, baseline, chainTip, events,
                 endpoints, deliveries>>

ScopeOf(row) ==
  [created_height |-> row.created_height, created_at |-> row.created_at,
   expires_at |-> row.expires_at]

(* The evaluation of the persisted rows of a payment, at the persisted tip *)
(* or, before the first one, at the creation height.                       *)
EvaluatePersisted(p, now) ==
  LET row == payments[p]
  IN  EvaluateRows(row.amount, transactions[p],
                   IF chainTip = None THEN row.created_height ELSE chainTip,
                   row.confirmations, ScopeOf(row), now)

(* Slip: the event of the new version left to a later transaction.         *)
RefreshWithoutEvent(p, now) ==
  LET row == payments[p]
      e   == EvaluatePersisted(p, now)
  IN  /\ p \in DOMAIN payments
      /\ payments' = [payments EXCEPT
           ![p] = IF row.status = e.status THEN row
                  ELSE [row EXCEPT !.status = e.status, !.received = e.received,
                                   !.confirmed = e.confirmed, !.policy = e.policy,
                                   !.version = @ + 1, !.updated_at = now]]
      /\ UNCHANGED <<idempotencyKeys, baseline, transactions, chainTip, events,
                     endpoints, deliveries>>

(* refresh_payment, under BEGIN IMMEDIATE: the version, the event of the   *)
(* new version and its deliveries come with the change, or nothing does.   *)
RefreshPayment(p, now) ==
  LET row     == payments[p]
      e       == EvaluatePersisted(p, now)
      changed == \/ row.status # e.status
                 \/ row.received # e.received
                 \/ row.confirmed # e.confirmed
                 \/ row.policy # e.policy
  IN  /\ p \in DOMAIN payments
      /\ \/ /\ changed
            /\ payments' = [payments EXCEPT
                 ![p] = [row EXCEPT !.status = e.status, !.received = e.received,
                                    !.confirmed = e.confirmed, !.policy = e.policy,
                                    !.version = @ + 1, !.updated_at = now]]
            /\ InsertEvent(Event(p, row.version + 1, EventType(e.status)), row.merchant, now)
         \/ /\ ~changed
            /\ UNCHANGED <<payments, events, deliveries>>
      /\ UNCHANGED <<idempotencyKeys, baseline, transactions, chainTip, endpoints>>

-----------------------------------------------------------------------------
(* Queries with ORDER BY rank DESC LIMIT: the answers SQLite may give.     *)

TopBy(S, limit, rank(_)) ==
  { T \in SUBSET S :
      /\ Cardinality(T) = (IF Cardinality(S) < limit THEN Cardinality(S) ELSE limit)
      /\ \A x \in T, y \in S \ T : rank(x) >= rank(y) }

PaymentsAt(address) == { p \in DOMAIN payments : payments[p].address = address }

LastCreated(address) == Max({ payments[p].created_at : p \in PaymentsAt(address) })

(* list_watch_scripthashes *)
WatchScripthashes(limit) ==
  TopBy({ payments[p].address : p \in DOMAIN payments }, limit, LastCreated)

(* list_refreshable_payment_ids *)
Refreshable(now) ==
  { p \in DOMAIN payments :
      /\ payments[p].status # "expired"
      /\ payments[p].expires_at <= now \/ transactions[p] # {} }

RefreshablePaymentIds(now, limit) ==
  TopBy(Refreshable(now), limit, LAMBDA p : payments[p].updated_at)
=============================================================================
