--------------------------- MODULE PaymentWatcher ---------------------------
(***************************************************************************)
(* services/payment_watcher.py: one coroutine that keeps a subscription    *)
(* session with ElectrumX, records the transactions of the watched         *)
(* addresses and refreshes the payments, next to the create requests and   *)
(* status reads of the gateway on the same store.  A step is what runs     *)
(* between two awaits, or one store transaction; everything else may       *)
(* happen between two steps.                                               *)
(*                                                                         *)
(* The socket's read loop is folded into the chain: when the server has    *)
(* something to say to a connected watcher it is in the queue at once.     *)
(***************************************************************************)
EXTENDS PaymentGateway, SequencesExt

CONSTANTS
  QueueLimit,       \* maxsize of _notifications (1024 in the code)
  MaxSubscriptions, \* payment_watcher_max_subscriptions
  MaxFaults         \* bound of disconnections, exceptions and restarts

ASSUME WatcherAssumption ==
  /\ QueueLimit \in Nat \ {0}
  /\ MaxSubscriptions \in Nat \ {0}
  /\ MaxFaults \in Nat

VARIABLES
  connected,        \* client.connected
  subscribed,       \* _subscribed; what the server notifies a session of
  queue,            \* _notifications: <<"header", height>> or <<"script", address>>
  needsFull,        \* _needs_full_reconcile
  w,                \* the coroutine: where it is and its local variables
  faults,           \* disconnections, exceptions and restarts so far
  missed            \* history: subscribed addresses that have lost a
                    \* notification or got a payment since they were last read

watcherVars == <<connected, subscribed, queue, needsFull, w, faults>>
codeVars == <<vars, watcherVars>>
allVars == <<codeVars, missed>>

(* stage: the next step of the coroutine.  mode: which caller the step     *)
(* returns to: the initial subscription pass ("init"), the pass after a    *)
(* queue timeout ("timeout"), the full reconciliation ("full") or a        *)
(* notification ("notify").                                                *)
Stages == {"down", "apply", "list", "refresh", "sync", "subscribe", "history",
           "load", "upsert", "delete", "evaluate", "wait"}
Modes == {"none", "init", "timeout", "full", "notify"}

At(stage, mode) ==
  [stage |-> stage, mode |-> mode, height |-> 0, at |-> 0, pending |-> {},
   ids |-> {}, address |-> Absent, history |-> {}, payment |-> Absent,
   upserts |-> {}, fetched |-> {}]

WatcherInit ==
  /\ connected = FALSE
  /\ subscribed = {}
  /\ queue = <<>>
  /\ needsFull = FALSE
  /\ w = At("down", "none")
  /\ faults = 0

-----------------------------------------------------------------------------
(* Ways out of a step.                                                     *)

(* Slip: the subscriptions of the old session remembered.                  *)
RaiseKeepingSubscriptions ==
  /\ w' = At("down", "none")
  /\ connected' = FALSE
  /\ UNCHANGED subscribed

(* An exception ends the connection cycle: the client is closed and the    *)
(* subscriptions are forgotten; the queue and the flag stay.               *)
Raise ==
  /\ w' = At("down", "none")
  /\ connected' = FALSE
  /\ subscribed' = {}

Continue(next) ==
  /\ w' = next
  /\ UNCHANGED <<connected, subscribed>>

(* Back at the top of the loop, which first looks at the connection.       *)
Loop == IF connected THEN Continue(At("wait", "none")) ELSE Raise

(* A subscription pass is over.                                            *)
EndPass ==
  IF w.mode = "timeout" /\ needsFull /\ subscribed # {}
  THEN /\ \E a \in subscribed :
            Continue([At("history", "full") EXCEPT !.address = a,
                                                   !.pending = subscribed \ {a}])
       /\ UNCHANGED needsFull
  ELSE /\ needsFull' = IF w.mode = "timeout" THEN FALSE ELSE needsFull
       /\ Loop

(* The reconciliation of one address is over.                              *)
EndReconcile ==
  \/ /\ w.mode = "notify"
     /\ Loop
     /\ UNCHANGED needsFull
  \/ /\ w.mode \in {"init", "timeout"}
     /\ w.pending # {}
     /\ Continue([At("subscribe", w.mode) EXCEPT !.pending = w.pending])
     /\ UNCHANGED needsFull
  \/ /\ w.mode \in {"init", "timeout"}
     /\ w.pending = {}
     /\ EndPass
  \/ /\ w.mode = "full"
     /\ w.pending # {}
     /\ \E a \in w.pending :
          Continue([At("history", "full") EXCEPT !.address = a,
                                                 !.pending = w.pending \ {a}])
     /\ UNCHANGED needsFull
  \/ /\ w.mode = "full"
     /\ w.pending = {}
     /\ needsFull' = FALSE
     /\ Loop

-----------------------------------------------------------------------------
(* _run_connected up to the header answer: old notifications are drained   *)
(* before the session exists.                                              *)
Connect ==
  /\ w.stage = "down"
  /\ queue' = <<>>
  /\ connected' = TRUE
  /\ w' = [At("apply", "init") EXCEPT !.height = tip]
  /\ UNCHANGED <<storeVars, chainVars, gatewayVars, subscribed, needsFull, faults>>

(* _apply_header: one reading of the clock serves the tip, the list and    *)
(* every refresh.                                                          *)
EndHeader == IF w.mode = "init" THEN Continue(At("sync", "init")) ELSE Loop

ApplyTip ==
  /\ w.stage = "apply"
  /\ SetChainTip(w.height)
  /\ Continue([At("list", w.mode) EXCEPT !.at = clock])
  /\ UNCHANGED <<chainVars, gatewayVars, queue, needsFull, faults>>

ListRefreshable ==
  /\ w.stage = "list"
  /\ \E ids \in RefreshablePaymentIds(w.at, 2 * MaxSubscriptions) :
       IF ids = {} THEN EndHeader
       ELSE Continue([w EXCEPT !.stage = "refresh", !.ids = ids])
  /\ UNCHANGED <<storeVars, chainVars, gatewayVars, queue, needsFull, faults>>

RefreshListed ==
  /\ w.stage = "refresh"
  /\ \E p \in w.ids :
       /\ RefreshPayment(p, w.at)
       /\ IF w.ids = {p} THEN EndHeader
          ELSE Continue([w EXCEPT !.ids = @ \ {p}])
  /\ UNCHANGED <<chainVars, gatewayVars, queue, needsFull, faults>>

(* _sync_subscriptions: an address that left the capped list cannot be     *)
(* unsubscribed, so the session is given up.                               *)
NeverDisplaced(desired) == FALSE   \* Slip: the old subscription kept.

Displaced(desired) == ~(subscribed \subseteq desired)

Sync ==
  /\ w.stage = "sync"
  /\ \E desired \in WatchScripthashes(MaxSubscriptions) :
       \/ /\ Displaced(desired)
          /\ Raise
          /\ UNCHANGED needsFull
       \/ /\ ~Displaced(desired)
          /\ desired \ subscribed # {}
          /\ Continue([w EXCEPT !.stage = "subscribe", !.pending = desired \ subscribed])
          /\ UNCHANGED needsFull
       \/ /\ ~Displaced(desired)
          /\ desired \ subscribed = {}
          /\ EndPass
  /\ UNCHANGED <<storeVars, chainVars, gatewayVars, queue, faults>>

Subscribe ==
  /\ w.stage = "subscribe"
  /\ \/ /\ connected
        /\ \E a \in w.pending :
             /\ subscribed' = subscribed \cup {a}
             /\ w' = [w EXCEPT !.stage = "history", !.address = a, !.pending = @ \ {a}]
        /\ UNCHANGED connected
     \/ ~connected /\ Raise
  /\ UNCHANGED <<storeVars, chainVars, gatewayVars, queue, needsFull, faults>>

(* _reconcile_scripthash                                                   *)
ReadHistory ==
  /\ w.stage = "history"
  /\ \/ /\ connected
        /\ Continue([w EXCEPT !.stage = "load",
              !.history = { [tx |-> t, height |-> position[t]] : t \in HistoryOf(w.address) }])
     \/ ~connected /\ Raise
  /\ UNCHANGED <<storeVars, chainVars, gatewayVars, queue, needsFull, faults>>

(* The local variables as the loop over the payments reaches the oldest of *)
(* ids; observed is the time the whole reconciliation goes by.             *)
NextPayment(ids, observed) ==
  LET p == CHOOSE x \in ids : \A y \in ids : payments[x].created_at <= payments[y].created_at
      h == { x \in w.history : x.tx \notin baseline[p] }
      o == UNION { MatchTransactionOutputs(x.tx, Pays[x.tx], payments[p].address,
                                           x.height, observed) : x \in h }
  IN  [w EXCEPT !.stage = IF o = {} THEN "delete" ELSE "upsert",
                !.at = observed, !.payment = p, !.ids = ids \ {p}, !.upserts = o]

LoadPayments ==
  /\ w.stage = "load"
  /\ LET ids == PaymentsAt(w.address) IN
     \/ /\ ids = {}
        /\ EndReconcile
     \/ /\ ids # {}
        /\ Continue(NextPayment(ids, clock))
        /\ UNCHANGED needsFull
  /\ UNCHANGED <<storeVars, chainVars, gatewayVars, queue, faults>>

(* transaction.get, once for each transaction, and upsert_transaction.     *)
(* The request fails when the session is gone or the server no longer      *)
(* knows the transaction.                                                  *)
Upsert ==
  /\ w.stage = "upsert"
  /\ \E o \in w.upserts :
       \/ /\ UpsertTransaction(w.payment, o)
          /\ o.tx \in w.fetched \/ (connected /\ position[o.tx] # Unknown)
          /\ Continue([w EXCEPT !.upserts = @ \ {o}, !.fetched = @ \cup {o.tx},
                                !.stage = IF w.upserts = {o} THEN "delete" ELSE "upsert"])
       \/ /\ o.tx \notin w.fetched
          /\ ~connected \/ position[o.tx] = Unknown
          /\ Raise
          /\ UNCHANGED storeVars
  /\ UNCHANGED <<chainVars, gatewayVars, queue, needsFull, faults>>

Delete ==
  /\ w.stage = "delete"
  /\ DeleteTransactionsNotIn(w.payment, { h.tx : h \in w.history })
  /\ Continue([w EXCEPT !.stage = "evaluate"])
  /\ UNCHANGED <<chainVars, gatewayVars, queue, needsFull, faults>>

Evaluate ==
  /\ w.stage = "evaluate"
  /\ RefreshPayment(w.payment, w.at)
  /\ \/ /\ w.ids # {}
        /\ Continue(NextPayment(w.ids, w.at))
        /\ UNCHANGED needsFull
     \/ /\ w.ids = {}
        /\ EndReconcile
  /\ UNCHANGED <<chainVars, gatewayVars, queue, faults>>

-----------------------------------------------------------------------------
(* The loop: a notification if there is one, the timeout otherwise.        *)

TakeNotification ==
  /\ w.stage = "wait"
  /\ queue # <<>>
  /\ queue' = Tail(queue)
  /\ LET n == Head(queue) IN
     \/ /\ n[1] = "header"
        /\ Continue([At("apply", "notify") EXCEPT !.height = n[2]])
     \/ /\ n[1] = "script" /\ n[2] \in subscribed
        /\ Continue([At("history", "notify") EXCEPT !.address = n[2]])
     \/ /\ n[1] = "script" /\ n[2] \notin subscribed
        /\ Loop
  /\ UNCHANGED <<storeVars, chainVars, gatewayVars, needsFull, faults>>

Timeout ==
  /\ w.stage = "wait"
  /\ queue = <<>>
  /\ Continue(At("sync", "timeout"))
  /\ UNCHANGED <<storeVars, chainVars, gatewayVars, queue, needsFull, faults>>

WatcherStep ==
  \/ Connect
  \/ ApplyTip
  \/ ListRefreshable
  \/ RefreshListed
  \/ Sync
  \/ Subscribe
  \/ ReadHistory
  \/ LoadPayments
  \/ Upsert
  \/ Delete
  \/ Evaluate
  \/ TakeNotification
  \/ Timeout

-----------------------------------------------------------------------------
(* The environment.                                                        *)

(* What the server sends for a chain event: the new header, then each      *)
(* subscribed address whose history changed.                               *)
Touched ==
  { a \in subscribed : \E t \in Tx : /\ position'[t] # position[t]
                                     /\ \E i \in DOMAIN Pays[t] : Pays[t][i].address = a }

(* Slip: the queue without its limit.                                      *)
ReceiveAll(notifications) ==
  /\ queue' = queue \o notifications
  /\ UNCHANGED needsFull

(* Slip: what does not fit dropped and forgotten.                          *)
ReceiveSilently(notifications) ==
  LET room == QueueLimit - Len(queue)
  IN  /\ queue' = queue \o SubSeq(notifications, 1, IF Len(notifications) < room
                                                    THEN Len(notifications) ELSE room)
      /\ UNCHANGED needsFull

(* _on_notification: put_nowait until the queue is full, then only the     *)
(* flag is left of the notification.                                       *)
Receive(notifications) ==
  LET room == QueueLimit - Len(queue)
  IN  /\ queue' = queue \o SubSeq(notifications, 1, IF Len(notifications) < room
                                                    THEN Len(notifications) ELSE room)
      /\ needsFull' = (needsFull \/ Len(notifications) > room)

Notify ==
  \/ /\ connected
     /\ \E scripts \in SetToSeqs({ <<"script", a>> : a \in Touched }) :
          Receive((IF tip' # tip THEN << <<"header", tip'>> >> ELSE <<>>) \o scripts)
  \/ /\ ~connected
     /\ UNCHANGED <<queue, needsFull>>

ServerStep ==
  /\ ChainStep
  /\ Notify
  /\ UNCHANGED <<connected, subscribed, w, faults>>

Fault ==
  /\ faults < MaxFaults
  /\ faults' = faults + 1

(* The socket closes: every request fails from here on, until the watcher  *)
(* has a new session.                                                      *)
Disconnect ==
  /\ connected
  /\ Fault
  /\ connected' = FALSE
  /\ UNCHANGED <<vars, subscribed, queue, needsFull, w>>

(* Anything else that raises in the coroutine: a request that times out or *)
(* is answered with an error, a store call that finds the database locked. *)
CycleFails ==
  /\ w.stage # "down"
  /\ Fault
  /\ Raise
  /\ UNCHANGED <<vars, queue, needsFull>>

(* The process ends and starts again with nothing but the database.        *)
ServiceRestart ==
  /\ Fault
  /\ ForgetRequests
  /\ connected' = FALSE
  /\ subscribed' = {}
  /\ queue' = <<>>
  /\ needsFull' = FALSE
  /\ w' = At("down", "none")
  /\ UNCHANGED <<storeVars, chainVars, clock, arrived>>

ApiStep ==
  /\ \/ \E r \in PaymentIds : CreateStep(r)
     \/ \E g \in Readers : GetStep(g)
     \/ Tick
  /\ UNCHANGED watcherVars

PlatformMoves ==
  \/ WatcherStep
  \/ ApiStep
  \/ ServerStep
  \/ Disconnect
  \/ CycleFails
  \/ ServiceRestart

-----------------------------------------------------------------------------
(* The two ways in which the watcher loses sight of an address it is       *)
(* subscribed to, until it reads the address's history again.  Nothing in  *)
(* the code keeps this; it is there to say what the code does otherwise.   *)

(* A notification that does not fit while every address is reconciled:     *)
(* the flag it leaves is cleared when that is over.                        *)
Dropped ==
  { a \in Touched : connected /\ w.mode = "full" /\ <<"script", a>> \notin ToSet(queue') }

(* A payment whose address has its subscription already.                   *)
OpenedLate == { payments'[p].address : p \in DOMAIN payments' \ DOMAIN payments }

ReadNow == IF w.stage = "history" /\ w'.stage = "load" THEN {w.address} ELSE {}

RecordMissed ==
  missed' = ((missed \cup Dropped \cup OpenedLate) \cap subscribed') \ ReadNow

WatcherSystemInit ==
  /\ Init
  /\ WatcherInit
  /\ missed = {}

WatcherNext == PlatformMoves /\ RecordMissed

WatcherSpec == WatcherSystemInit /\ [][WatcherNext]_allVars

(* The event loop runs the coroutine whenever it can run: every await of   *)
(* it ends, by an answer, a timeout or an error.  The chain, the clients,  *)
(* the clock and the faults are under no obligation, and all are bounded.  *)
FairWatcherSpec == WatcherSpec /\ WF_codeVars(WatcherStep)

-----------------------------------------------------------------------------

WatcherTypeOK ==
  /\ connected \in BOOLEAN
  /\ subscribed \subseteq { Request[r].address : r \in PaymentIds }
  /\ Len(queue) <= QueueLimit
  /\ needsFull \in BOOLEAN
  /\ w.stage \in Stages /\ w.mode \in Modes
  /\ faults \in 0..MaxFaults
  /\ TypeOK /\ ChainTypeOK

-----------------------------------------------------------------------------
(* Properties.                                                             *)

(* What the store should hold of a payment: its address's history without  *)
(* the baseline, at the heights the server reports.                        *)
ExpectedOutputs(p) ==
  UNION { { <<t, i, Pays[t][i].value, position[t]>> :
              i \in { j \in DOMAIN Pays[t] : /\ Pays[t][j].address = payments[p].address
                                             /\ Pays[t][j].value > 0 } } :
          t \in HistoryOf(payments[p].address) \ baseline[p] }

StoredOutputs(p) == { <<r.tx, r.vout, r.value, r.height>> : r \in transactions[p] }

(* The amounts shown to the merchant are those of the rows and the rows    *)
(* are those of the chain.                                                 *)
Reconciled(p) ==
  /\ StoredOutputs(p) = ExpectedOutputs(p)
  /\ payments[p].received = EvaluatePersisted(p, clock).received
  /\ payments[p].confirmed = EvaluatePersisted(p, clock).confirmed

FirstPayment(a) ==
  CHOOSE p \in PaymentsAt(a) :
    \A q \in PaymentsAt(a) : payments[p].created_at <= payments[q].created_at

Quiet == w.stage = "wait" /\ connected /\ queue = <<>> /\ ~needsFull

(* When the watcher has nothing left to do, no block, reorg, eviction or   *)
(* broadcast was missed, in whatever order it came with subscriptions,     *)
(* reconciliations, a full queue, disconnections, API calls and restarts:  *)
(* every payment of a subscribed address shows what is on the chain,       *)
(* unless the address has been missed since it was last read               *)
(* (_reconcile_scripthash, the loop of _run_connected).                    *)
QuietMeansReconciled ==
  Quiet => \A a \in subscribed \ missed : \A p \in PaymentsAt(a) : Reconciled(p)

(* The same without exception, of the addresses that are missed as well:   *)
(* a notification is dropped "only if the next connected iteration         *)
(* performs a full reconciliation" (payment_watcher.py, _on_notification)  *)
(* and "new payments must be reconciled immediately" (_sync_subscriptions).*)
QuietMeansAllReconciled ==
  Quiet => \A a \in subscribed : \A p \in PaymentsAt(a) : Reconciled(p)

(* The session never grows beyond the configured number of subscriptions,  *)
(* though protocol 1.4 cannot unsubscribe: when a newer address displaces  *)
(* an older one the session is given up (_sync_subscriptions).             *)
SubscriptionsCapped == Cardinality(subscribed) <= MaxSubscriptions

(* As long as no transaction is evicted, even when blocks are              *)
(* disconnected, what counts for a payment reached the server inside the   *)
(* payment's window: the snapshot of the baseline, taken after the         *)
(* creation time, leaves no gap for older money and the first-seen time    *)
(* none for late money                                                     *)
(* (create_persisted_payment, observation_belongs_to_payment).             *)
CountedMoneyArrivedInWindow ==
  ~evicted =>
    \A p \in DOMAIN payments : \A r \in transactions[p] :
      ObservationBelongsToPayment(r, ScopeOf(payments[p]))
        => /\ payments[p].created_at <= arrived[r.tx]
           /\ arrived[r.tx] <= payments[p].expires_at

(* One output is never counted for two payments (docs/PAYMENT_STATE.md,    *)
(* Receiving-address window exclusivity).                                  *)
CountedFor(p) ==
  { Outpoint(r) : r \in { x \in transactions[p] :
                          ObservationBelongsToPayment(x, ScopeOf(payments[p])) } }

CountedOnce ==
  ~evicted =>
    \A p, q \in DOMAIN payments : p # q => CountedFor(p) \cap CountedFor(q) = {}

(* Only a dropped transaction, or a reorg below the height a payment was   *)
(* created at, takes a payment back: otherwise a paid payment stays paid,  *)
(* through shallower reorgs, stale tips, stale clocks and half-done        *)
(* reconciliations (docs/PAYMENT_EVENTS.md, state-derived events).         *)
PaidStaysPaid ==
  [][ ~evicted' =>
        \A p \in DOMAIN payments :
          payments[p].status \in PaidStatuses /\ lowest' >= payments[p].created_height
            => payments'[p].status \in PaidStatuses ]_allVars

(* The same of a confirmed payment.                                        *)
ConfirmedStaysConfirmed ==
  [][ ~Disturbed' =>
        \A p \in DOMAIN payments :
          payments[p].status = "paid_confirmed"
            => payments'[p].status # "paid_unconfirmed" ]_allVars

(* Once the chain, the clients, the clock and the faults have come to      *)
(* rest, every payment whose address is among those the watcher may        *)
(* subscribe to ends up, for good, showing what is on the chain, whatever  *)
(* overflows, disconnects and restarts came before.  The exception is an   *)
(* address that is left missed: a notification of it was dropped while a   *)
(* full reconciliation ran, and the flag cleared with it (run_forever,     *)
(* _run_connected; docs/ELECTRUMX_PAYMENT_WATCHER.md, Reconnect and        *)
(* reconciliation).                                                        *)
Watched(p) ==
  /\ p \in DOMAIN payments
  /\ p = FirstPayment(payments[p].address)
  /\ \A desired \in WatchScripthashes(MaxSubscriptions) : payments[p].address \in desired

EventuallyReconciled ==
  \A p \in PaymentIds :
    <>[](Watched(p) /\ payments[p].address \notin missed => Reconciled(p))
=============================================================================
