------------------------ MODULE MerchantIntegration ------------------------
(***************************************************************************)
(* One merchant order from end to end: the merchant asks for a payment and *)
(* may lose the response, the payment changes, and the webhook worker      *)
(* tells the merchant of every change.  The create request is one step     *)
(* here, its insert transaction: PaymentGateway has its steps.             *)
(***************************************************************************)
EXTENDS WebhookWorker

CONSTANTS
  Order,            \* the arguments of the create request
  InitialEndpoints,
  ChangedStatuses,  \* the statuses the payment may change to
  MaxVersion,       \* bound of the versions of a payment
  MaxTime,          \* bound of the clock
  MaxFaults         \* bound of the batches that end early

ASSUME IntegrationAssumption ==
  /\ Order.expires_in \in Nat
  /\ IsFiniteSet(InitialEndpoints)
  /\ \A v \in InitialEndpoints : DOMAIN v = {"id", "merchant", "types", "enabled"}
  /\ MaxVersion \in Nat \ {0}
  /\ MaxTime \in Nat
  /\ MaxFaults \in Nat

VARIABLES
  order, seen, applied,  \* the merchant's tables, see ReferenceMerchant
  clock,
  merchant,         \* the merchant's coroutine: [stage, payment, version],
                    \* the last two from the response
  faults            \* batches that ended early so far

Merchant == INSTANCE ReferenceMerchant WITH
  NoPayment <- Absent, EventIds <- PaymentIds \X (1..MaxVersion)

integrationVars == <<order, seen, applied, clock, merchant, faults>>
vars == <<storeVars, worker, integrationVars>>

NoResponse(stage) == [stage |-> stage, payment |-> Absent, version |-> 0]

Init ==
  /\ StoreInit(InitialEndpoints)
  /\ worker = Idle
  /\ Merchant!MerchantInit
  /\ clock = 0
  /\ merchant = NoResponse("asking")
  /\ faults = 0

-----------------------------------------------------------------------------
(* The merchant's flow: the payment is asked for with the same key as      *)
(* often as it takes, and bound when a response comes.  The documentation  *)
(* reserves the order before; here it may be late.                         *)

Reserve ==
  /\ ~order.reserved
  /\ Merchant!ReserveOrder
  /\ UNCHANGED <<storeVars, worker, clock, merchant, faults>>

Responded(p, version) ==
  merchant' = [stage |-> "answered", payment |-> p, version |-> version]

(* The first request that arrives opens the payment, under an id of its    *)
(* own; the others, and a look-up by reference, give it as it is by then.  *)
Ask ==
  /\ merchant.stage = "asking"
  /\ \/ \E p \in PaymentIds \ DOMAIN payments :
          /\ CreatePayment(p, Order, clock, 0, {})
          /\ Responded(p, 1)
     \/ /\ CreateOutcome(Order, clock) = "replay"
        /\ Responded(ReplayedPayment(Order), payments[ReplayedPayment(Order)].version)
        /\ UNCHANGED storeVars
  /\ UNCHANGED <<worker, order, seen, applied, clock, faults>>

Bind ==
  /\ merchant.stage = "answered"
  /\ Merchant!BindPayment(merchant.payment, merchant.version)
  /\ merchant' = NoResponse("bound")
  /\ UNCHANGED <<storeVars, worker, clock, faults>>

(* The response is lost, or the merchant ends before it is bound.          *)
LoseResponse ==
  /\ merchant.stage = "answered"
  /\ merchant' = NoResponse("asking")
  /\ UNCHANGED <<storeVars, worker, order, seen, applied, clock, faults>>

-----------------------------------------------------------------------------
(* The payment changes: what RefreshPayment does to its version, status    *)
(* and events, whatever the chain had to say.                              *)
PaymentChanges(p, status) ==
  /\ p \in DOMAIN payments
  /\ payments[p].version < MaxVersion
  /\ payments[p].status # status
  /\ payments' = [payments EXCEPT ![p] =
                     [payments[p] EXCEPT !.status = status, !.version = @ + 1]]
  /\ InsertEvent(Event(p, payments[p].version + 1, EventType(status)),
                 payments[p].merchant, clock)
  /\ UNCHANGED <<idempotencyKeys, baseline, transactions, chainTip, endpoints>>
  /\ UNCHANGED <<worker, integrationVars>>

-----------------------------------------------------------------------------
(* The worker.                                                             *)

List == ListDue(clock) /\ UNCHANGED integrationVars

Begin == BeginAttempt(clock) /\ UNCHANGED integrationVars

(* The receiver has the request; its answer may still be lost.             *)
Receive ==
  /\ worker.stage = "send"
  /\ \E answer \in Answers :
       /\ Merchant!ReceiveEvent(Listed.event.payment, Listed.event.version, answer)
       /\ Answer(answer) \/ NoAnswer
  /\ UNCHANGED <<clock, merchant, faults>>

Unreachable == NoAnswer /\ UNCHANGED integrationVars

Finish == Record /\ UNCHANGED integrationVars

WorkerStep == List \/ Begin \/ Receive \/ Unreachable \/ Finish

Interrupted ==
  /\ faults < MaxFaults
  /\ faults' = faults + 1
  /\ Abandon
  /\ UNCHANGED <<order, seen, applied, clock, merchant>>

Disable ==
  /\ \E v \in endpoints : DisableEndpoint(v)
  /\ UNCHANGED <<worker, integrationVars>>

Tick ==
  /\ clock < MaxTime
  /\ clock' = clock + 1
  /\ UNCHANGED <<storeVars, worker, order, seen, applied, merchant, faults>>

Next ==
  \/ Reserve
  \/ Ask
  \/ Bind
  \/ LoseResponse
  \/ \E p \in PaymentIds, status \in ChangedStatuses : PaymentChanges(p, status)
  \/ WorkerStep
  \/ Interrupted
  \/ Disable
  \/ Tick

(* The worker runs whenever it can: it polls, and every await of it ends.  *)
Spec == Init /\ [][Next]_vars /\ WF_vars(WorkerStep)

-----------------------------------------------------------------------------
(* Types.                                                                  *)

TypeOK ==
  /\ worker.stage \in {"idle", "attempt", "send", "record"}
  /\ Len(worker.batch) <= BatchSize
  /\ (worker.stage = "idle") <=> (worker.batch = <<>>)
  /\ worker.at \in 0..MaxTime
  /\ worker.tried \in 0..Addresses
  /\ worker.outcome \in Answers \cup Failures \cup {"none"}
  /\ \A d \in deliveries : /\ d.event \in events
                           /\ d.status \in {"pending", "retry", "delivered", "dead"}
                           /\ d.attempts \in Nat /\ d.due \in Nat
  /\ order.payment \in DOMAIN payments \cup {Absent}
  /\ seen \subseteq PaymentIds \X (1..MaxVersion)

-----------------------------------------------------------------------------
(* Properties.                                                             *)

(* A delivery recorded as delivered is one the merchant has consumed for   *)
(* good, through lost answers, other addresses tried and batches that end  *)
(* early (docs/WEBHOOKS.md, Delivery semantics).                           *)
DeliveredMeansConsumed ==
  \A d \in deliveries :
    d.status = "delivered" => <<d.event.payment, d.event.version>> \in seen

(* Delivery is at least once; the business action happens at most once     *)
(* (apply_verified_event, deduplication by event id).                      *)
AppliedOnce == \A e \in DOMAIN applied : applied[e] <= 1

(* As long as no create response is bound, webhooks alone keep the order   *)
(* at the newest version it was told of, in whatever order retries and     *)
(* backoff deliver them (apply_verified_event, version comparison).        *)
NewestEventWins ==
  merchant.stage # "bound" => \A e \in seen : order.version >= e[2]

(* The same with the create response: "higher payment_version wins"        *)
(* (docs/PHASE_H3_REFERENCE_MERCHANT_FLOW.md, section 10).                 *)
HigherVersionWins == \A e \in seen : order.version >= e[2]

(* Once an endpoint is disabled and the batch listed before is over,       *)
(* nothing is attempted or recorded for it any more                        *)
(* (list_due_webhook_deliveries; docs/WEBHOOKS.md, Disable endpoint).      *)
InBatch(d, w) ==
  \E i \in DOMAIN w.batch : w.batch[i].event = d.event /\ w.batch[i].endpoint = d.endpoint

DisabledIsLeftAlone ==
  [][ \A d \in deliveries :
        /\ \A v \in endpoints : v.id = d.endpoint => ~v.enabled
        /\ ~InBatch(d, worker)
        => d \in deliveries' /\ ~InBatch(d, worker') ]_vars

(* No delivery is starved: one that is due is attempted, whatever else is  *)
(* due, however often its own attempts fail and batches end early, or its  *)
(* endpoint is disabled (run_once, list_due_webhook_deliveries).           *)
DueNow(p, version) ==
  \E d \in deliveries :
    /\ d.event.payment = p
    /\ d.event.version = version
    /\ d.status \notin {"delivered", "dead"}
    /\ d.due <= clock
    /\ \E v \in endpoints : v.id = d.endpoint /\ v.enabled

DueIsAttempted ==
  \A p \in PaymentIds, version \in 1..MaxVersion :
    DueNow(p, version) ~> ~DueNow(p, version)
=============================================================================
