--------------------------- MODULE PaymentGateway ---------------------------
(***************************************************************************)
(* services/payment_gateway_service.py: create requests and status reads   *)
(* running as concurrent coroutines over one payment store, with the chain *)
(* moving and the clock running between any two of their awaits, and the   *)
(* service restarting at any time.                                         *)
(*                                                                         *)
(* A create request is one call of create_persisted_payment; it is named   *)
(* by the payment id it would draw, and Request gives its arguments after  *)
(* validation.  A client that retries sends another request with the same  *)
(* arguments.                                                              *)
(***************************************************************************)
EXTENDS PaymentStore, ElectrumXChain

CONSTANTS
  Request,          \* Request[r]: [merchant, key, reference, address, amount,
                    \*              confirmations, expires_in]
  Readers,          \* concurrent GET /api/v1/payments/{payment_id}
  InitialEndpoints, \* the webhook endpoints registered beforehand
  MaxTime           \* bound of the clock

ASSUME GatewayAssumption ==
  /\ Transactions = Tx
  /\ DOMAIN Request = PaymentIds
  /\ \A r \in PaymentIds : Request[r].expires_in \in Nat /\ Request[r].amount \in Nat
  /\ \A t \in Tx : \A i \in DOMAIN Pays[t] : Pays[t][i].value \in Nat
  /\ MaxTime \in Nat

VARIABLES
  clock,            \* int(time.time()), shared by every coroutine
  create,           \* request -> [pc, at, height, txids, result, payment]
  read,             \* reader -> [pc, payment, at]
  arrived           \* history: when each transaction last became known to
                    \* the server, None before

gatewayVars == <<clock, create, read, arrived>>
vars == <<storeVars, chainVars, gatewayVars>>

CreatePcs == {"start", "reference", "address", "tip", "history", "save_tip",
              "insert", "done"}
Results == {"none", "created", "replay", "idempotency_conflict",
            "reference_conflict", "address_in_use", "tip_unavailable", "lost"}

(* A request with no local variables: not begun yet, or returned.          *)
Local(pc, result, p) ==
  [pc |-> pc, at |-> 0, height |-> 0, txids |-> {}, result |-> result, payment |-> p]

IdleRead == [pc |-> "idle", payment |-> Absent, at |-> 0]

GatewayInit ==
  /\ clock = 0
  /\ create = [r \in PaymentIds |-> Local("start", "none", Absent)]
  /\ read = [g \in Readers |-> IdleRead]
  /\ arrived = [t \in Tx |-> None]

Init ==
  /\ StoreInit(InitialEndpoints)
  /\ ChainInit
  /\ GatewayInit

-----------------------------------------------------------------------------
(* One create request, from await to await.                                *)

Goto(r, pc) == create' = [create EXCEPT ![r].pc = pc]

Respond(r, result, p) ==
  create' = [create EXCEPT ![r] = Local("done", result, p)]

(* get_payment_by_idempotency_key, before any upstream work.               *)
CheckReplay(r) ==
  LET q == Request[r] IN
  /\ create[r].pc = "start"
  /\ \/ /\ q.key = Absent \/ KeyRows(q) = {}
        /\ Goto(r, "reference")
     \/ /\ q.key # Absent /\ KeyRows(q) # {} /\ ~KeyConflict(q)
        /\ Respond(r, "replay", ReplayedPayment(q))
     \/ /\ q.key # Absent /\ KeyConflict(q)
        /\ Respond(r, "idempotency_conflict", Absent)
  /\ UNCHANGED <<storeVars, chainVars, clock, read, arrived>>

(* get_payment_by_merchant_reference; the creation time is taken when it   *)
(* finds nothing.                                                          *)
CheckReference(r) ==
  /\ create[r].pc = "reference"
  /\ \/ /\ ReferenceTaken(Request[r])
        /\ Respond(r, "reference_conflict", Absent)
     \/ /\ ~ReferenceTaken(Request[r])
        /\ create' = [create EXCEPT ![r] = [@ EXCEPT !.pc = "address", !.at = clock]]
  /\ UNCHANGED <<storeVars, chainVars, clock, read, arrived>>

CheckAddress(r) ==
  /\ create[r].pc = "address"
  /\ \/ /\ AddressInUse(Request[r], create[r].at)
        /\ Respond(r, "address_in_use", Absent)
     \/ /\ ~AddressInUse(Request[r], create[r].at)
        /\ Goto(r, "tip")
  /\ UNCHANGED <<storeVars, chainVars, clock, read, arrived>>

(* _snapshot_creation_state: the tip and then the address history, two     *)
(* answers of one ElectrumX session.                                       *)
HistoryOf(address) ==
  { t \in Tx : /\ position[t] # Unknown
               /\ \E i \in DOMAIN Pays[t] : Pays[t][i].address = address }

(* Slip: a header without a height accepted.                               *)
SnapshotAnyHeader(r) ==
  /\ create[r].pc = "tip"
  /\ \E height \in {None, tip} :
       create' = [create EXCEPT ![r] = [@ EXCEPT !.pc = "history", !.height = height]]
  /\ UNCHANGED <<storeVars, chainVars, clock, read, arrived>>

SnapshotTip(r) ==
  /\ create[r].pc = "tip"
  /\ create' = [create EXCEPT ![r] = [@ EXCEPT !.pc = "history", !.height = tip]]
  /\ UNCHANGED <<storeVars, chainVars, clock, read, arrived>>

(* Slip: only the confirmed part of the history.                           *)
SnapshotConfirmed(r) ==
  /\ create[r].pc = "history"
  /\ create' = [create EXCEPT ![r] =
        [@ EXCEPT !.pc = "save_tip",
                  !.txids = { t \in HistoryOf(Request[r].address) : position[t] > 0 }]]
  /\ UNCHANGED <<storeVars, chainVars, clock, read, arrived>>

SnapshotHistory(r) ==
  /\ create[r].pc = "history"
  /\ create' = [create EXCEPT ![r] =
                  [@ EXCEPT !.pc = "save_tip", !.txids = HistoryOf(Request[r].address)]]
  /\ UNCHANGED <<storeVars, chainVars, clock, read, arrived>>

SnapshotFails(r) ==
  /\ create[r].pc \in {"tip", "history"}
  /\ Respond(r, "tip_unavailable", Absent)
  /\ UNCHANGED <<storeVars, chainVars, clock, read, arrived>>

(* Slip: the header asked for after the history.                           *)
SaveLaterTip(r) ==
  /\ create[r].pc = "save_tip"
  /\ SetChainTip(tip)
  /\ create' = [create EXCEPT ![r] = [@ EXCEPT !.pc = "insert", !.height = tip]]
  /\ UNCHANGED <<chainVars, clock, read, arrived>>

SaveTip(r) ==
  /\ create[r].pc = "save_tip"
  /\ SetChainTip(create[r].height)
  /\ Goto(r, "insert")
  /\ UNCHANGED <<chainVars, clock, read, arrived>>

(* store.create_payment and the response.                                  *)
Insert(r) ==
  LET c       == create[r]
      q       == Request[r]
      outcome == CreateOutcome(q, c.at)
  IN  /\ c.pc = "insert"
      /\ \/ /\ CreatePayment(r, q, c.at, c.height, c.txids)
            /\ Respond(r, "created", r)
         \/ /\ outcome = "replay"
            /\ Respond(r, "replay", ReplayedPayment(q))
            /\ UNCHANGED storeVars
         \/ /\ outcome \notin {"created", "replay"}
            /\ Respond(r, outcome, Absent)
            /\ UNCHANGED storeVars
      /\ UNCHANGED <<chainVars, clock, read, arrived>>

-----------------------------------------------------------------------------
(* get_persisted_payment: the time is taken in the coroutine, the refresh  *)
(* runs later in a worker thread.                                          *)

BeginGet(g, p) ==
  /\ read[g].pc = "idle"
  /\ p \in DOMAIN payments
  /\ read' = [read EXCEPT ![g] = [pc |-> "refresh", payment |-> p, at |-> clock]]
  /\ UNCHANGED <<storeVars, chainVars, clock, create, arrived>>

FinishGet(g) ==
  /\ read[g].pc = "refresh"
  /\ RefreshPayment(read[g].payment, read[g].at)
  /\ read' = [read EXCEPT ![g] = IdleRead]
  /\ UNCHANGED <<chainVars, clock, create, arrived>>

-----------------------------------------------------------------------------
(* A restart forgets every coroutine; the database keeps what was          *)
(* committed.  A client then sees no response.                             *)

InFlight == { r \in PaymentIds : create[r].pc \notin {"start", "done"} }

ForgetRequests ==
  /\ create' = [r \in PaymentIds |->
       IF r \in InFlight THEN Local("done", "lost", Absent) ELSE create[r]]
  /\ read' = [g \in Readers |-> IdleRead]

Restart ==
  /\ InFlight # {} \/ \E g \in Readers : read[g].pc # "idle"
  /\ ForgetRequests
  /\ UNCHANGED <<storeVars, chainVars, clock, arrived>>

Tick ==
  /\ clock < MaxTime
  /\ clock' = clock + 1
  /\ UNCHANGED <<storeVars, chainVars, create, read, arrived>>

CreateStep(r) ==
  \/ CheckReplay(r)
  \/ CheckReference(r)
  \/ CheckAddress(r)
  \/ SnapshotTip(r)
  \/ SnapshotHistory(r)
  \/ SnapshotFails(r)
  \/ SaveTip(r)
  \/ Insert(r)

GetStep(g) ==
  \/ \E p \in PaymentIds : BeginGet(g, p)
  \/ FinishGet(g)

ChainStep ==
  /\ ChainNext
  /\ arrived' = [t \in Tx |-> IF position[t] = Unknown /\ position'[t] # Unknown
                              THEN clock ELSE arrived[t]]
  /\ UNCHANGED <<storeVars, clock, create, read>>

Next ==
  \/ \E r \in PaymentIds : CreateStep(r)
  \/ \E g \in Readers : GetStep(g)
  \/ ChainStep
  \/ Restart
  \/ Tick

Spec == Init /\ [][Next]_vars

-----------------------------------------------------------------------------
(* Types.                                                                  *)

Positions == Nat \ {0}

PaymentColumns ==
  {"merchant", "address", "amount", "confirmations", "reference", "created_at",
   "created_height", "expires_at", "status", "version", "received", "confirmed",
   "policy", "updated_at"}

PaymentRowOK(row) ==
  /\ DOMAIN row = PaymentColumns
  /\ row.amount \in Nat
  /\ row.created_at \in Nat
  /\ row.created_height \in Nat
  /\ row.expires_at \in Nat
  /\ row.updated_at \in Nat
  /\ row.version \in Positions
  /\ row.status \in Statuses

CreateLocals == [pc : CreatePcs, at : Nat, height : Nat, txids : SUBSET Tx,
                 result : Results, payment : PaymentIds \cup {Absent}]

(* Every table and local variable holds what its column or variable can.   *)
TypeOK ==
  /\ DOMAIN payments \subseteq PaymentIds
  /\ \A p \in DOMAIN payments : PaymentRowOK(payments[p])
  /\ \A k \in idempotencyKeys : k.payment \in DOMAIN payments
  /\ baseline \in [PaymentIds -> SUBSET Tx]
  /\ chainTip \in Nat \cup {None}
  /\ \A e \in events : e.payment \in DOMAIN payments
  /\ clock \in Nat
  /\ create \in [PaymentIds -> CreateLocals]
  /\ read \in [Readers -> [pc : {"idle", "refresh"},
                           payment : PaymentIds \cup {Absent}, at : Nat]]
  /\ arrived \in [Tx -> Nat \cup {None}]

-----------------------------------------------------------------------------
(* Safety.                                                                 *)

(* Two payments never have overlapping windows on one address, whichever   *)
(* merchants own them and however their creates interleave                 *)
(* (get_overlapping_address_payment; docs/PAYMENT_STATE.md, Receiving-     *)
(* address window exclusivity).                                            *)
WindowsDisjoint ==
  \A p, q \in DOMAIN payments :
    p # q /\ payments[p].address = payments[q].address
      => \/ payments[p].expires_at < payments[q].created_at
         \/ payments[q].expires_at < payments[p].created_at

(* However often and however concurrently a client retries, a merchant's   *)
(* idempotency key stands for one payment: every request that got one got  *)
(* the same one, and asked for the same thing (create_persisted_payment    *)
(* and create_payment, idempotency checks).                                *)
Answered(r) == create[r].result \in {"created", "replay"}

OnePaymentPerKey ==
  /\ \A p, q \in DOMAIN payments :
       /\ Request[p].merchant = Request[q].merchant
       /\ Request[p].key = Request[q].key
       /\ Request[p].key # Absent
       => p = q
  /\ \A r, s \in PaymentIds :
       /\ Answered(r) /\ Answered(s)
       /\ Request[r].merchant = Request[s].merchant
       /\ Request[r].key = Request[s].key
       /\ Request[r].key # Absent
       => /\ create[r].payment = create[s].payment
          /\ RequestHash(Request[r]) = RequestHash(Request[s])

(* A merchant reference names one payment of its merchant                  *)
(* (get_payment_by_merchant_reference and the check in create_payment).    *)
OnePaymentPerReference ==
  \A p, q \in DOMAIN payments :
    /\ payments[p].merchant = payments[q].merchant
    /\ payments[p].reference = payments[q].reference
    /\ payments[p].reference # Absent
    => p = q

(* Each version of a payment has exactly one event, the first one of       *)
(* creation and the latest one of the current status (_insert_event under  *)
(* refresh_payment and create_payment; docs/PAYMENT_EVENTS.md, Atomicity). *)
EventsMatchVersions ==
  /\ \A e \in events : e.version \in 1..payments[e.payment].version
  /\ \A e, f \in events :
       e.payment = f.payment /\ e.version = f.version => e = f
  /\ \A p \in DOMAIN payments :
       /\ \A v \in 1..payments[p].version :
            \E e \in events : e.payment = p /\ e.version = v
       /\ Event(p, 1, "payment.created") \in events
       /\ payments[p].version > 1 =>
            Event(p, payments[p].version, EventType(payments[p].status)) \in events

(* Every event is owed exactly once to each enabled endpoint of its        *)
(* merchant that asked for its type, and to nobody else.                   *)
DeliveriesMatchEvents ==
  /\ \A d, f \in deliveries :
       d.event = f.event /\ d.endpoint = f.endpoint => d = f
  /\ { <<d.event, d.endpoint>> : d \in deliveries } =
       { <<y[1], y[2].id>> : y \in
           { x \in events \X endpoints :
               /\ x[2].enabled
               /\ x[2].merchant = payments[x[1].payment].merchant
               /\ x[1].type \in x[2].types } }

(* The snapshot a payment is created from has no gap, though its creation  *)
(* time, height and baseline are taken at three moments: unless a block is *)
(* disconnected, a transaction that is not in the baseline came after the  *)
(* creation time and is mined above the creation height, so neither test   *)
(* of observation_belongs_to_payment takes it for an old one               *)
(* (create_persisted_payment, _snapshot_creation_state).                   *)
SnapshotHasNoGap ==
  ~Disturbed =>
    \A p \in DOMAIN payments :
      \A t \in HistoryOf(payments[p].address) \ baseline[p] :
        /\ arrived[t] >= payments[p].created_at
        /\ position[t] > 0 => position[t] > payments[p].created_height

(* A retry is answered with the original payment, even while the window of *)
(* its address is reserved: no request is refused over the reference or    *)
(* the address when its own key is already bound to the same parameters    *)
(* (docs/PAYMENT_API_V1.md, Idempotent creation retries).                  *)
RetryIsReplayed ==
  [][ \A r \in PaymentIds :
        /\ create'[r].result # create[r].result
        /\ create'[r].result \in {"reference_conflict", "address_in_use"}
        => ~ \E k \in KeyRows(Request[r]) : k.hash = RequestHash(Request[r]) ]_vars

-----------------------------------------------------------------------------
(* The books that the tables keep.                                         *)

(* The type of the event of a version, Absent if it has none.              *)
EventsOf(p, v) == { e \in events : e.payment = p /\ e.version = v }

TypeOf(p, v) ==
  IF EventsOf(p, v) = {} THEN Absent ELSE (CHOOSE e \in EventsOf(p, v) : TRUE).type

Books ==
  [p \in DOMAIN payments |->
     [merchant |-> payments[p].merchant, address |-> payments[p].address,
      key |-> Request[p].key, reference |-> payments[p].reference,
      from |-> payments[p].created_at, until |-> payments[p].expires_at,
      history |-> [v \in 1..payments[p].version |-> TypeOf(p, v)]]]

Ledger == INSTANCE PaymentLedger WITH
  Ids <- PaymentIds, Types <- { EventType(s) : s \in Statuses },
  NoValue <- Absent, ledger <- Books

(* The store, under every interleaving of requests, reads and restarts,    *)
(* keeps the books the ledger promises.                                    *)
KeepsTheLedger == Ledger!LedgerSpec
=============================================================================
