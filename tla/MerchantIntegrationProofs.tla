---------------------- MODULE MerchantIntegrationProofs ----------------------
(***************************************************************************)
(* Proofs about MerchantIntegration: webhooks from the insert of an event  *)
(* to the merchant's tables, for any payments and changes, any endpoints,  *)
(* batch size, attempts, backoff, addresses and answers.                   *)
(***************************************************************************)
EXTENDS MerchantIntegration, FiniteSetTheorems, SequenceTheorems, TLAPS

-----------------------------------------------------------------------------
(* Backoff.                                                                *)

(* A power of two counts the subsets of a set.                             *)
LEMMA PowersOfTwo == ASSUME NEW n \in Nat PROVE 2^n \in Nat
<1>1. IsFiniteSet(1..n) /\ Cardinality(1..n) = n
  BY FS_Interval
<1>2. IsFiniteSet(SUBSET (1..n)) /\ Cardinality(SUBSET (1..n)) = 2^n
  BY <1>1, FS_SUBSET
<1> QED BY <1>2, FS_CardinalityType

(* However many attempts failed, the delay is a number of seconds.         *)
LEMMA DelayIsNatural == ASSUME NEW attempt \in Nat \ {0} PROVE Delay(attempt) \in Nat
<1>1. 2^(attempt - 1) \in Nat
  <2>1. attempt - 1 \in Nat
    OBVIOUS
  <2> QED BY <2>1, PowersOfTwo
<1> DEFINE power == 2^(attempt - 1)
           backoff == RetryBase * power
           maximum == IF RetryMax > RetryBase THEN RetryMax ELSE RetryBase
<1>2. Delay(attempt) = IF backoff < maximum THEN backoff ELSE maximum
  BY DEF Delay
<1>3. power \in Nat
  BY <1>1
<1> HIDE DEF power
<1>4. backoff \in Nat /\ maximum \in Nat
  BY <1>3, WebhookAssumption
<1> QED BY <1>2, <1>4

-----------------------------------------------------------------------------
(* Types.                                                                  *)

EventRows ==
  [payment : PaymentIds, version : 1..MaxVersion,
   type : { EventType(s) : s \in ChangedStatuses } \cup {"payment.created"}]

EndpointIds == { v.id : v \in InitialEndpoints }

DeliveryStatuses == {"pending", "retry", "delivered", "dead"}

DeliveryRows ==
  [event : EventRows, endpoint : EndpointIds, status : DeliveryStatuses,
   attempts : Nat, due : Nat]

WorkerLocals ==
  [stage : {"idle", "attempt", "send", "record"}, batch : Seq(DeliveryRows),
   at : 0..MaxTime, tried : 0..Addresses, outcome : Answers \cup Failures \cup {"none"}]

PaymentsOK ==
  /\ DOMAIN payments \subseteq PaymentIds
  /\ \A p \in DOMAIN payments :
       /\ {"status", "version"} \subseteq DOMAIN payments[p]
       /\ payments[p].version \in 1..MaxVersion
  /\ \A k \in idempotencyKeys : k.payment \in DOMAIN payments

EventsOK ==
  /\ events \subseteq EventRows
  /\ \A e \in events : e.payment \in DOMAIN payments

DeliveriesOK ==
  /\ IsFiniteSet(deliveries)
  /\ deliveries \subseteq DeliveryRows
  /\ \A d \in deliveries : d.event \in events

EndpointsOK ==
  /\ IsFiniteSet(endpoints)
  /\ \A v \in endpoints : /\ DOMAIN v = {"id", "merchant", "types", "enabled"}
                          /\ v.id \in EndpointIds

OrderOK ==
  /\ DOMAIN order = {"reserved", "payment", "version"}
  /\ order.payment \in DOMAIN payments \cup {Absent}
  /\ order.version \in Nat

MerchantOK ==
  /\ DOMAIN merchant = {"stage", "payment", "version"}
  /\ merchant.stage = "answered" => /\ merchant.payment \in DOMAIN payments
                                    /\ merchant.version \in 1..MaxVersion

(* Where the rows of a batch are in the table.                             *)
InTable(d) == \E f \in deliveries : f.event = d.event /\ f.endpoint = d.endpoint

EventId(e) == <<e.payment, e.version>>

(* The worker works on rows of the table, and has an acceptance to record  *)
(* only after the merchant has the event.                                  *)
WorkerOK ==
  /\ worker \in WorkerLocals
  /\ Len(worker.batch) <= BatchSize
  /\ (worker.stage = "idle") <=> (worker.batch = <<>>)
  /\ \A i \in 1..Len(worker.batch) : InTable(worker.batch[i])
  /\ worker.stage \in {"attempt", "send"} => worker.outcome = "none"
  /\ worker.stage = "record" /\ worker.outcome = "204" => EventId(Listed.event) \in seen

(* What is applied was seen, and once.                                     *)
ConsumedOK ==
  /\ seen \subseteq PaymentIds \X (1..MaxVersion)
  /\ applied \in [PaymentIds \X (1..MaxVersion) -> {0, 1}]
  /\ \A e \in DOMAIN applied : applied[e] = 1 => e \in seen

IntegrationInv ==
  /\ PaymentsOK
  /\ EventsOK
  /\ DeliveriesOK
  /\ EndpointsOK
  /\ OrderOK
  /\ MerchantOK
  /\ WorkerOK
  /\ ConsumedOK
  /\ clock \in 0..MaxTime
  /\ DeliveredMeansConsumed
  /\ NewestEventWins

LEMMA InitIntegration == Init => IntegrationInv
<1> SUFFICES ASSUME Init PROVE IntegrationInv
  OBVIOUS
<1> USE DEF Init
<1>1. DOMAIN payments = {} /\ idempotencyKeys = {} /\ events = {} /\ deliveries = {}
  BY DEF StoreInit
<1>2. PaymentsOK /\ EventsOK /\ DeliveriesOK /\ DeliveredMeansConsumed
  BY <1>1, FS_EmptySet DEF PaymentsOK, EventsOK, DeliveriesOK, DeliveredMeansConsumed
<1>3. EndpointsOK
  BY IntegrationAssumption DEF StoreInit, EndpointsOK, EndpointIds
<1>4. OrderOK /\ ConsumedOK /\ NewestEventWins
  BY DEF Merchant!MerchantInit, Merchant!NoVersion, OrderOK, ConsumedOK, NewestEventWins
<1>5. MerchantOK
  BY DEF NoResponse, MerchantOK
<1>6. WorkerOK
  <2>1. worker = Idle
    OBVIOUS
  <2>2. Idle \in WorkerLocals /\ Idle.batch = <<>> /\ Idle.stage = "idle"
    BY WebhookAssumption, IntegrationAssumption DEF Idle, WorkerLocals
  <2> QED BY <2>1, <2>2, WebhookAssumption DEF WorkerOK
<1>7. clock \in 0..MaxTime
  BY IntegrationAssumption
<1> QED BY <1>2, <1>3, <1>4, <1>5, <1>6, <1>7 DEF IntegrationInv

(* The conjuncts of one step that leaves the tables of the store alone.    *)
LEMMA StoreAlone ==
  ASSUME IntegrationInv, UNCHANGED storeVars
  PROVE  PaymentsOK' /\ EventsOK' /\ DeliveriesOK' /\ EndpointsOK'
  BY DEF IntegrationInv, storeVars, PaymentsOK, EventsOK, DeliveriesOK, EndpointsOK

LEMMA WorkerAlone ==
  ASSUME IntegrationInv, UNCHANGED worker, seen \subseteq seen',
         \A d \in deliveries : \E f \in deliveries' : f.event = d.event /\ f.endpoint = d.endpoint
  PROVE  WorkerOK'
<1>1. \A i \in 1..Len(worker.batch) : InTable(worker.batch[i])'
  BY DEF IntegrationInv, WorkerOK, InTable
<1> QED BY <1>1 DEF IntegrationInv, WorkerOK, Listed, EventId, InTable

-----------------------------------------------------------------------------
(* The merchant's flow, and the clock.                                     *)

LEMMA MerchantSteps ==
  ASSUME IntegrationInv, Reserve \/ Bind \/ LoseResponse \/ Tick
  PROVE  IntegrationInv'
<1> USE DEF IntegrationInv
<1>1. UNCHANGED <<storeVars, worker, seen, applied>>
  BY DEF Reserve, Bind, LoseResponse, Tick, Merchant!ReserveOrder, Merchant!BindPayment
<1>2. PaymentsOK' /\ EventsOK' /\ DeliveriesOK' /\ EndpointsOK'
  BY <1>1, StoreAlone
<1>3. UNCHANGED <<payments, deliveries>>
  BY <1>1 DEF storeVars
<1>4. WorkerOK'
  BY <1>1, <1>3, WorkerAlone
<1>5. ConsumedOK' /\ DeliveredMeansConsumed'
  BY <1>1, <1>3 DEF ConsumedOK, DeliveredMeansConsumed
<1>6. CASE Reserve
  <2>1. order' = [order EXCEPT !.reserved = TRUE] /\ UNCHANGED <<clock, merchant>>
    BY <1>6 DEF Reserve, Merchant!ReserveOrder
  <2>2. OrderOK' /\ MerchantOK' /\ NewestEventWins'
    BY <1>1, <1>3, <2>1 DEF OrderOK, MerchantOK, NewestEventWins
  <2> QED BY <1>2, <1>4, <1>5, <2>1, <2>2
<1>7. CASE Bind
  <2>1. /\ merchant.stage = "answered"
        /\ order' = [order EXCEPT !.payment = merchant.payment, !.version = merchant.version]
        /\ merchant' = NoResponse("bound")
        /\ UNCHANGED clock
    BY <1>7 DEF Bind, Merchant!BindPayment
  <2>2. OrderOK' /\ MerchantOK' /\ NewestEventWins'
    BY <1>1, <1>3, <2>1 DEF OrderOK, MerchantOK, NewestEventWins, NoResponse
  <2> QED BY <1>2, <1>4, <1>5, <2>1, <2>2
<1>8. CASE LoseResponse
  <2>1. /\ merchant.stage = "answered" /\ merchant' = NoResponse("asking")
        /\ UNCHANGED <<order, clock>>
    BY <1>8 DEF LoseResponse
  <2>2. OrderOK' /\ MerchantOK' /\ NewestEventWins'
    BY <1>1, <1>3, <2>1 DEF OrderOK, MerchantOK, NewestEventWins, NoResponse
  <2> QED BY <1>2, <1>4, <1>5, <2>1, <2>2
<1>9. CASE Tick
  <2>1. clock' \in 0..MaxTime /\ UNCHANGED <<order, merchant>>
    BY <1>9, IntegrationAssumption DEF Tick
  <2>2. OrderOK' /\ MerchantOK' /\ NewestEventWins'
    BY <1>1, <1>3, <2>1 DEF OrderOK, MerchantOK, NewestEventWins
  <2> QED BY <1>2, <1>4, <1>5, <2>1, <2>2
<1> QED BY <1>6, <1>7, <1>8, <1>9

-----------------------------------------------------------------------------
(* The payment and its events.                                             *)

LEMMA OwedRows ==
  ASSUME EndpointsOK, NEW e \in EventRows, NEW owner, NEW at \in Nat
  PROVE  /\ IsFiniteSet(DeliveriesOf(e, owner, at))
         /\ DeliveriesOf(e, owner, at) \subseteq DeliveryRows
         /\ \A d \in DeliveriesOf(e, owner, at) : d.event = e /\ d.status = "pending"
<1> DEFINE asked == { v \in endpoints : v.enabled /\ v.merchant = owner /\ e.type \in v.types }
           row(v) == [event |-> e, endpoint |-> v.id, status |-> "pending", attempts |-> 0,
                      due |-> at]
           f == [v \in asked |-> row(v)]
<1>1. DeliveriesOf(e, owner, at) = { row(v) : v \in asked }
  BY DEF DeliveriesOf
<1>2. f \in Surjection(asked, { row(v) : v \in asked })
  BY DEF Surjection
<1>3. IsFiniteSet(asked)
  BY FS_Subset DEF EndpointsOK
<1>4. IsFiniteSet({ row(v) : v \in asked })
  <2> HIDE DEF asked, f
  <2> QED BY <1>2, <1>3, FS_Surjection
<1>5. \A v \in asked : row(v) \in DeliveryRows
  BY DEF EndpointsOK, DeliveryRows, DeliveryStatuses
<1> HIDE DEF asked
<1> QED BY <1>1, <1>4, <1>5

LEMMA InsertKeeps ==
  ASSUME IntegrationInv, NEW e \in EventRows, NEW owner, NEW at \in Nat,
         InsertEvent(e, owner, at), DOMAIN payments \subseteq DOMAIN payments',
         e.payment \in DOMAIN payments', UNCHANGED <<worker, seen, endpoints>>
  PROVE  EventsOK' /\ DeliveriesOK' /\ EndpointsOK' /\ WorkerOK' /\ DeliveredMeansConsumed'
<1> DEFINE new == DeliveriesOf(e, owner, at)
<1>1. /\ IsFiniteSet(new)
      /\ new \subseteq DeliveryRows
      /\ \A d \in new : d.event = e /\ d.status = "pending"
  BY OwedRows DEF IntegrationInv
<1>2. /\ events' = events \cup {e}
      /\ deliveries' = deliveries \/ deliveries' = deliveries \cup new
  BY DEF InsertEvent
<1> HIDE DEF new
<1>3. IsFiniteSet(deliveries')
  BY <1>1, <1>2, FS_Union DEF IntegrationInv, DeliveriesOK
<1>4. EventsOK'
  BY <1>2 DEF IntegrationInv, EventsOK
<1>5. DeliveriesOK'
  BY <1>1, <1>2, <1>3 DEF IntegrationInv, DeliveriesOK
<1>6. EndpointsOK'
  BY DEF IntegrationInv, EndpointsOK
<1>7. WorkerOK'
  BY <1>2, WorkerAlone
<1>8. DeliveredMeansConsumed'
  BY <1>1, <1>2 DEF IntegrationInv, DeliveredMeansConsumed
<1> QED BY <1>4, <1>5, <1>6, <1>7, <1>8

LEMMA AskKeeps == ASSUME IntegrationInv, Ask PROVE IntegrationInv'
<1> USE DEF IntegrationInv
<1>1. UNCHANGED <<worker, order, seen, applied, clock, faults>> /\ merchant.stage = "asking"
  BY DEF Ask
<1>2. ConsumedOK' /\ clock' \in 0..MaxTime
  BY <1>1 DEF ConsumedOK
<1>3. ASSUME NEW p \in PaymentIds \ DOMAIN payments, CreatePayment(p, Order, clock, 0, {}),
             Responded(p, 1)
      PROVE  IntegrationInv'
  <2> DEFINE e == Event(p, 1, "payment.created")
  <2>1. /\ DOMAIN payments' = DOMAIN payments \cup {p}
        /\ \A x \in DOMAIN payments : payments'[x] = payments[x]
        /\ payments'[p] = PaymentRow(Order, clock, 0)
        /\ \A k \in idempotencyKeys' : k \in idempotencyKeys \/ k.payment = p
        /\ InsertEvent(e, Order.merchant, clock)
        /\ UNCHANGED endpoints
    BY <1>3 DEF CreatePayment
  <2>2. e \in EventRows /\ e.payment = p
    BY IntegrationAssumption DEF Event, EventRows
  <2> HIDE DEF e
  <2>3. EventsOK' /\ DeliveriesOK' /\ EndpointsOK' /\ WorkerOK' /\ DeliveredMeansConsumed'
    BY <1>1, <2>1, <2>2, IntegrationAssumption, InsertKeeps
  <2>4. /\ {"status", "version"} \subseteq DOMAIN payments'[p]
        /\ payments'[p].version \in 1..MaxVersion
    BY <2>1, IntegrationAssumption DEF PaymentRow
  <2>5. PaymentsOK'
    BY <2>1, <2>4 DEF PaymentsOK
  <2>6. merchant' = [stage |-> "answered", payment |-> p, version |-> 1]
    BY <1>3 DEF Responded
  <2>7. OrderOK' /\ MerchantOK' /\ NewestEventWins'
    BY <1>1, <2>1, <2>6, IntegrationAssumption DEF OrderOK, MerchantOK, NewestEventWins
  <2> QED BY <1>2, <2>3, <2>5, <2>7
<1>4. ASSUME CreateOutcome(Order, clock) = "replay",
             Responded(ReplayedPayment(Order), payments[ReplayedPayment(Order)].version),
             UNCHANGED storeVars
      PROVE  IntegrationInv'
  <2> DEFINE p == ReplayedPayment(Order)
  <2>1. KeyRows(Order) # {}
    BY <1>4 DEF CreateOutcome
  <2>2. p \in DOMAIN payments
    BY <2>1 DEF ReplayedPayment, KeyRows, PaymentsOK
  <2> HIDE DEF p
  <2>3. merchant' = [stage |-> "answered", payment |-> p, version |-> payments[p].version]
    BY <1>4 DEF Responded, p
  <2>4. PaymentsOK' /\ EventsOK' /\ DeliveriesOK' /\ EndpointsOK'
    BY <1>4, StoreAlone
  <2>5. UNCHANGED <<payments, deliveries>>
    BY <1>4 DEF storeVars
  <2>6. WorkerOK' /\ DeliveredMeansConsumed'
    BY <1>1, <2>5, WorkerAlone DEF DeliveredMeansConsumed
  <2>7. OrderOK' /\ MerchantOK' /\ NewestEventWins'
    BY <1>1, <2>2, <2>3, <2>5 DEF OrderOK, MerchantOK, NewestEventWins, PaymentsOK
  <2> QED BY <1>2, <2>4, <2>6, <2>7
<1> QED BY <1>3, <1>4 DEF Ask

LEMMA ChangeKeeps ==
  ASSUME IntegrationInv, NEW p \in PaymentIds, NEW status \in ChangedStatuses,
         PaymentChanges(p, status)
  PROVE  IntegrationInv'
<1> USE DEF IntegrationInv
<1> DEFINE row == [payments[p] EXCEPT !.status = status, !.version = @ + 1]
           version == payments[p].version + 1
           e == Event(p, version, EventType(status))
<1>1. /\ p \in DOMAIN payments
      /\ payments[p].version < MaxVersion
      /\ payments' = [payments EXCEPT ![p] = row]
      /\ InsertEvent(e, payments[p].merchant, clock)
      /\ UNCHANGED <<idempotencyKeys, endpoints, worker, integrationVars>>
  BY DEF PaymentChanges
<1>2. version \in 1..MaxVersion
  BY <1>1, IntegrationAssumption DEF PaymentsOK
<1>3. DOMAIN row = DOMAIN payments[p] /\ row.version = version
  BY <1>1 DEF PaymentsOK
<1>4. e \in EventRows /\ e.payment = p
  <2> HIDE DEF version
  <2> QED BY <1>2 DEF Event, EventRows
<1> HIDE DEF row, version, e
<1>5. /\ DOMAIN payments' = DOMAIN payments
      /\ payments'[p] = row
      /\ \A x \in DOMAIN payments : x # p => payments'[x] = payments[x]
  BY <1>1
<1>6. clock \in Nat
  BY IntegrationAssumption
<1>7. UNCHANGED <<order, seen, applied, clock, merchant>>
  BY <1>1 DEF integrationVars
<1>8. EventsOK' /\ DeliveriesOK' /\ EndpointsOK' /\ WorkerOK' /\ DeliveredMeansConsumed'
  BY <1>1, <1>4, <1>5, <1>6, <1>7, InsertKeeps
<1>9. PaymentsOK'
  BY <1>1, <1>2, <1>3, <1>5 DEF PaymentsOK
<1>10. OrderOK' /\ MerchantOK' /\ ConsumedOK' /\ NewestEventWins'
  BY <1>5, <1>7 DEF OrderOK, MerchantOK, ConsumedOK, NewestEventWins
<1> QED BY <1>7, <1>8, <1>9, <1>10

LEMMA DisableKeeps == ASSUME IntegrationInv, Disable PROVE IntegrationInv'
<1> USE DEF IntegrationInv
<1>1. PICK v \in endpoints : DisableEndpoint(v)
  BY DEF Disable
<1>2. /\ endpoints' = (endpoints \ {v}) \cup {[v EXCEPT !.enabled = FALSE]}
      /\ UNCHANGED <<payments, idempotencyKeys, events, deliveries>>
  BY <1>1 DEF DisableEndpoint
<1>3. UNCHANGED <<worker, order, seen, applied, clock, merchant>>
  BY DEF Disable, integrationVars
<1>4. EndpointsOK'
  <2>1. IsFiniteSet(endpoints \ {v})
    BY FS_Subset DEF EndpointsOK
  <2>2. IsFiniteSet(endpoints')
    <3> DEFINE new == [v EXCEPT !.enabled = FALSE]
    <3> HIDE DEF new
    <3>1. IsFiniteSet((endpoints \ {v}) \cup {new})
      BY <2>1, FS_AddElement
    <3> QED BY <1>2, <3>1 DEF new
  <2> QED BY <1>2, <2>2 DEF EndpointsOK
<1>5. WorkerOK'
  BY <1>2, <1>3, WorkerAlone
<1> QED BY <1>2, <1>3, <1>4, <1>5
        DEF PaymentsOK, EventsOK, DeliveriesOK, OrderOK, MerchantOK, ConsumedOK,
            DeliveredMeansConsumed, NewestEventWins

-----------------------------------------------------------------------------
(* The worker.                                                             *)

(* A batch is a sequence of due rows of the table, as many as asked for.   *)
LEMMA BatchIsDue ==
  ASSUME IntegrationInv, ListDue(clock)
  PROVE  \E batch \in Seq(DeliveryRows) :
           /\ worker' = [Idle EXCEPT !.stage = "attempt", !.batch = batch]
           /\ Len(batch) \in 1..BatchSize
           /\ \A i \in 1..Len(batch) : batch[i] \in deliveries /\ Due(batch[i], clock)
<1> DEFINE D == { d \in deliveries : Due(d, clock) }
           n == BatchOf(D)
<1>1. PICK T \in kSubset(n, D) : \E batch \in SetToSeqs(T) :
        worker' = [Idle EXCEPT !.stage = "attempt", !.batch = batch]
  BY DEF ListDue
<1>2. PICK batch \in SetToSeqs(T) :
        worker' = [Idle EXCEPT !.stage = "attempt", !.batch = batch]
  BY <1>1
<1>3. D # {} /\ D \subseteq deliveries /\ deliveries \subseteq DeliveryRows
  BY DEF ListDue, IntegrationInv, DeliveriesOK
<1>4. IsFiniteSet(D)
  BY <1>3, FS_Subset DEF IntegrationInv, DeliveriesOK
<1>5. \A d \in D : d \in deliveries /\ Due(d, clock)
  OBVIOUS
<1> HIDE DEF D
<1>6. Cardinality(D) \in Nat \ {0}
  BY <1>3, <1>4, FS_CardinalityType, FS_EmptySet
<1>7. n \in 1..BatchSize
  BY <1>6, WebhookAssumption DEF BatchOf
<1> HIDE DEF n
<1>8. T \subseteq D /\ Cardinality(T) = n
  BY <1>1 DEF kSubset
<1>9. batch \in [1..n -> T]
  BY <1>2, <1>8 DEF SetToSeqs
<1>10. batch \in Seq(DeliveryRows) /\ Len(batch) = n
  BY <1>3, <1>7, <1>8, <1>9
<1> QED BY <1>2, <1>5, <1>7, <1>8, <1>9, <1>10

(* The row of the table behind the delivery in hand.                       *)
LEMMA ListedRow ==
  ASSUME IntegrationInv, worker.stage # "idle"
  PROVE  /\ worker.batch # <<>>
         /\ Listed \in DeliveryRows
         /\ Listed.event \in events
         /\ Listed.event.payment \in DOMAIN payments
         /\ Row \in deliveries /\ Row.event = Listed.event /\ Row.endpoint = Listed.endpoint
<1>1. worker.batch \in Seq(DeliveryRows) /\ worker.batch # <<>>
  BY DEF IntegrationInv, WorkerOK, WorkerLocals
<1>2. Listed = worker.batch[1] /\ Listed \in DeliveryRows /\ 1 \in 1..Len(worker.batch)
  BY <1>1, HeadTailProperties DEF Listed
<1>3. InTable(Listed)
  BY <1>2 DEF IntegrationInv, WorkerOK
<1>4. Row \in deliveries /\ Row.event = Listed.event /\ Row.endpoint = Listed.endpoint
  BY <1>3 DEF InTable, Row
<1>5. Listed.event \in events
  BY <1>4 DEF IntegrationInv, DeliveriesOK
<1> QED BY <1>1, <1>2, <1>4, <1>5 DEF IntegrationInv, EventsOK

(* What a step of the worker that leaves the tables alone has to show.     *)
LEMMA WorkerMoves ==
  ASSUME IntegrationInv, UNCHANGED <<storeVars, clock, merchant>>,
         OrderOK', ConsumedOK', NewestEventWins', seen \subseteq seen', WorkerOK'
  PROVE  IntegrationInv'
<1> USE DEF IntegrationInv
<1>1. PaymentsOK' /\ EventsOK' /\ DeliveriesOK' /\ EndpointsOK'
  BY StoreAlone
<1>2. UNCHANGED <<payments, deliveries>>
  BY DEF storeVars
<1>3. DeliveredMeansConsumed'
  BY <1>2 DEF DeliveredMeansConsumed
<1>4. MerchantOK'
  BY <1>2 DEF MerchantOK
<1> QED BY <1>1, <1>3, <1>4

(* The same when the merchant is not involved.                             *)
LEMMA WorkerMovesAlone ==
  ASSUME IntegrationInv, UNCHANGED <<storeVars, order, seen, applied, clock, merchant>>,
         WorkerOK'
  PROVE  IntegrationInv'
<1>1. UNCHANGED payments
  BY DEF storeVars
<1>2. OrderOK' /\ ConsumedOK' /\ NewestEventWins'
  BY <1>1 DEF IntegrationInv, OrderOK, ConsumedOK, NewestEventWins
<1> QED BY <1>2, WorkerMoves

(* How every delivery of a batch starts.                                   *)
LEMMA NextInBatch ==
  ASSUME NEW batch \in Seq(DeliveryRows)
  PROVE  LET c == [Idle EXCEPT !.stage = "attempt", !.batch = batch] IN
         /\ c.stage = "attempt" /\ c.batch = batch /\ c.outcome = "none"
         /\ c \in WorkerLocals
<1>1. 0 \in 0..MaxTime /\ 0 \in 0..Addresses
  BY WebhookAssumption, IntegrationAssumption
<1> QED BY <1>1 DEF Idle, WorkerLocals

LEMMA ListKeeps == ASSUME IntegrationInv, List PROVE IntegrationInv'
<1>1. PICK batch \in Seq(DeliveryRows) :
        /\ worker' = [Idle EXCEPT !.stage = "attempt", !.batch = batch]
        /\ Len(batch) \in 1..BatchSize
        /\ \A i \in 1..Len(batch) : batch[i] \in deliveries /\ Due(batch[i], clock)
  BY BatchIsDue DEF List
<1>2. UNCHANGED <<storeVars, order, seen, applied, clock, merchant>>
  BY DEF List, ListDue, integrationVars
<1>3. /\ worker'.stage = "attempt" /\ worker'.batch = batch /\ worker'.outcome = "none"
      /\ worker' \in WorkerLocals
  BY <1>1, NextInBatch
<1>4. \A i \in 1..Len(batch) : InTable(batch[i])'
  BY <1>1, <1>2 DEF InTable, storeVars
<1>5. batch # <<>>
  BY <1>1
<1>6. WorkerOK'
  BY <1>1, <1>3, <1>4, <1>5 DEF WorkerOK, InTable
<1> QED BY <1>2, <1>6, WorkerMovesAlone

(* The worker goes on with the same batch.                                 *)
LEMMA SameBatch ==
  ASSUME IntegrationInv, NEW c \in WorkerLocals, worker' = c, c.batch = worker.batch,
         worker.stage # "idle", c.stage # "idle", UNCHANGED deliveries,
         c.stage \in {"attempt", "send"} => c.outcome = "none",
         c.stage = "record" /\ c.outcome = "204" => EventId(Listed.event) \in seen'
  PROVE  WorkerOK'
<1>1. \A i \in 1..Len(c.batch) : InTable(c.batch[i])'
  BY DEF IntegrationInv, WorkerOK, InTable
<1>2. Len(c.batch) <= BatchSize /\ c.batch # <<>>
  BY DEF IntegrationInv, WorkerOK
<1> QED BY <1>1, <1>2 DEF WorkerOK, InTable, Listed, EventId

LEMMA BeginKeeps == ASSUME IntegrationInv, Begin PROVE IntegrationInv'
<1>1. UNCHANGED <<storeVars, order, seen, applied, clock, merchant>>
  BY DEF Begin, BeginAttempt, integrationVars
<1>2. /\ worker.stage = "attempt"
      /\ worker \in WorkerLocals
      /\ clock \in 0..MaxTime
      /\ UNCHANGED deliveries
      /\ 1 \in 0..Addresses
  BY <1>1, WebhookAssumption DEF Begin, BeginAttempt, IntegrationInv, WorkerOK, storeVars
<1>3. WorkerOK'
  <2>1. CASE worker' = [worker EXCEPT !.stage = "send", !.at = clock, !.tried = 1]
    <3> DEFINE c == [worker EXCEPT !.stage = "send", !.at = clock, !.tried = 1]
    <3>1. c \in WorkerLocals /\ c.batch = worker.batch /\ c.stage = "send"
          /\ c.outcome = worker.outcome
      BY <1>2 DEF WorkerLocals
    <3>2. worker.outcome = "none"
      BY <1>2 DEF IntegrationInv, WorkerOK
    <3> HIDE DEF c
    <3>3. worker' = c
      BY <2>1 DEF c
    <3> QED BY <1>2, <3>1, <3>2, <3>3, SameBatch
  <2>2. ASSUME NEW failure \in {"unsafe", "dns"},
               worker' = [worker EXCEPT !.stage = "record", !.at = clock, !.outcome = failure]
        PROVE  WorkerOK'
    <3> DEFINE c == [worker EXCEPT !.stage = "record", !.at = clock, !.outcome = failure]
    <3>1. c \in WorkerLocals /\ c.batch = worker.batch /\ c.stage = "record"
          /\ c.outcome = failure
      BY <1>2 DEF WorkerLocals, Failures
    <3> HIDE DEF c
    <3>2. worker' = c
      BY <2>2 DEF c
    <3> QED BY <1>2, <3>1, <3>2, SameBatch
  <2> QED BY <2>1, <2>2 DEF Begin, BeginAttempt
<1> QED BY <1>1, <1>3, WorkerMovesAlone

(* What the merchant does with an event it receives, with any answer.      *)
LEMMA MerchantReceives ==
  ASSUME IntegrationInv, NEW e \in EventRows, e.payment \in DOMAIN payments, NEW answer,
         Merchant!ReceiveEvent(e.payment, e.version, answer), UNCHANGED <<payments, merchant>>
  PROVE  /\ OrderOK' /\ ConsumedOK' /\ NewestEventWins'
         /\ seen \subseteq seen'
         /\ answer = "204" => EventId(e) \in seen'
<1> USE DEF IntegrationInv, OrderOK, ConsumedOK, NewestEventWins, EventId
<1> DEFINE id == <<e.payment, e.version>>
<1>1. e.payment \in PaymentIds /\ e.version \in 1..MaxVersion
  BY DEF EventRows
<1>2. e.version \in Nat /\ id \in PaymentIds \X (1..MaxVersion) /\ id[2] = e.version
  BY <1>1, IntegrationAssumption
<1>3. CASE UNCHANGED <<order, seen, applied>> /\ (answer = "204" => id \in seen)
  BY <1>3
<1>4. CASE id \notin seen /\ Merchant!Consume(e.payment, e.version)
  <2>1. /\ seen' = seen \cup {id}
        /\ id \in seen'
    BY <1>4 DEF Merchant!Consume
  <2>2. CASE /\ e.version > order.version
             /\ order' = [order EXCEPT !.payment = e.payment, !.version = e.version]
             /\ applied' = [applied EXCEPT ![id] = @ + 1]
    <3>1. OrderOK' /\ order'.version = e.version
      BY <1>2, <2>2
    <3>2. applied' = [applied EXCEPT ![id] = 1]
      <4>1. applied[id] \in {0, 1} /\ (applied[id] = 1 => id \in seen)
        BY <1>2
      <4>2. applied[id] = 0
        BY <1>4, <4>1
      <4> HIDE DEF id
      <4>3. applied' = [applied EXCEPT ![id] = applied[id] + 1]
        BY <2>2
      <4> QED BY <4>2, <4>3
    <3>3. ConsumedOK'
      BY <1>2, <2>1, <3>2
    <3>4. NewestEventWins'
      <4>1. ASSUME merchant.stage # "bound", NEW x \in seen'
            PROVE  order'.version >= x[2]
        <5>1. CASE x = id
          BY <1>2, <3>1, <5>1
        <5>2. CASE x \in seen
          <6>1. order.version >= x[2] /\ x[2] \in 1..MaxVersion
            BY <4>1, <5>2
          <6> QED BY <1>2, <2>2, <3>1, <6>1, IntegrationAssumption
        <5> QED BY <2>1, <4>1, <5>1, <5>2
      <4> QED BY <4>1
    <3> QED BY <2>1, <3>1, <3>3, <3>4
  <2>3. CASE ~(e.version > order.version) /\ UNCHANGED <<order, applied>>
    <3>1. OrderOK' /\ ConsumedOK'
      BY <1>2, <2>1, <2>3
    <3>2. order.version >= e.version
      BY <1>2, <2>3
    <3>3. NewestEventWins'
      BY <1>2, <2>1, <2>3, <3>2
    <3> QED BY <2>1, <3>1, <3>3
  <2> QED BY <1>4, <2>2, <2>3 DEF Merchant!Consume
<1> QED BY <1>3, <1>4
        DEF Merchant!ReceiveEvent, Merchant!ConsumeNew, Merchant!merchantVars

(* The answer of an address, or its loss, of which nobody knows whether    *)
(* the merchant has the event.                                             *)
LEMMA AnswerKeeps ==
  ASSUME IntegrationInv, NEW answer \in Answers, Answer(answer),
         answer = "204" => EventId(Listed.event) \in seen'
  PROVE  WorkerOK'
<1> DEFINE c == [worker EXCEPT !.stage = "record", !.outcome = answer]
<1>1. worker \in WorkerLocals /\ worker.stage = "send" /\ UNCHANGED deliveries
  BY DEF IntegrationInv, WorkerOK, Answer, storeVars
<1>2. c \in WorkerLocals /\ c.batch = worker.batch /\ c.stage = "record" /\ c.outcome = answer
  BY <1>1 DEF WorkerLocals
<1> HIDE DEF c
<1>3. worker' = c
  BY DEF c, Answer
<1> QED BY <1>1, <1>2, <1>3, SameBatch

LEMMA NoAnswerKeeps == ASSUME IntegrationInv, NoAnswer PROVE WorkerOK'
<1>1. /\ worker \in WorkerLocals /\ worker.stage = "send" /\ UNCHANGED deliveries
      /\ worker.outcome = "none"
  BY DEF IntegrationInv, WorkerOK, NoAnswer, storeVars
<1>2. CASE worker.tried < Addresses
  <2> DEFINE c == [worker EXCEPT !.tried = worker.tried + 1]
  <2>1. worker.tried + 1 \in 0..Addresses
    BY <1>1, <1>2, WebhookAssumption DEF WorkerLocals
  <2>2. c \in WorkerLocals /\ c.batch = worker.batch /\ c.stage = "send" /\ c.outcome = "none"
    BY <1>1, <2>1 DEF WorkerLocals
  <2>3. worker' = c
    BY <1>1, <1>2 DEF NoAnswer, WorkerLocals
  <2> HIDE DEF c
  <2> QED BY <1>1, <2>2, <2>3, SameBatch
<1>3. CASE ~(worker.tried < Addresses)
  <2> DEFINE c == [worker EXCEPT !.stage = "record", !.outcome = "error"]
  <2>1. c \in WorkerLocals /\ c.batch = worker.batch /\ c.stage = "record"
        /\ c.outcome = "error"
    BY <1>1 DEF WorkerLocals, Failures
  <2> HIDE DEF c
  <2>2. worker' = c
    BY <1>3 DEF NoAnswer, c
  <2> QED BY <1>1, <2>1, <2>2, SameBatch
<1> QED BY <1>2, <1>3

LEMMA ReceiveKeeps == ASSUME IntegrationInv, Receive PROVE IntegrationInv'
<1>1. /\ worker.stage = "send"
      /\ UNCHANGED <<clock, merchant>>
  BY DEF Receive
<1>2. PICK answer \in Answers :
        /\ Merchant!ReceiveEvent(Listed.event.payment, Listed.event.version, answer)
        /\ Answer(answer) \/ NoAnswer
  BY DEF Receive
<1>3. UNCHANGED storeVars
  BY <1>2 DEF Answer, NoAnswer
<1>4. Listed.event \in EventRows /\ Listed.event.payment \in DOMAIN payments
  BY <1>1, ListedRow DEF DeliveryRows
<1>5. UNCHANGED <<payments, merchant>>
  BY <1>1, <1>3 DEF storeVars
<1>6. /\ OrderOK' /\ ConsumedOK' /\ NewestEventWins'
      /\ seen \subseteq seen'
      /\ answer = "204" => EventId(Listed.event) \in seen'
  BY <1>2, <1>4, <1>5, MerchantReceives
<1>7. WorkerOK'
  BY <1>2, <1>6, AnswerKeeps, NoAnswerKeeps
<1> QED BY <1>1, <1>3, <1>6, <1>7, WorkerMoves

LEMMA UnreachableKeeps == ASSUME IntegrationInv, Unreachable PROVE IntegrationInv'
<1>1. UNCHANGED <<storeVars, order, seen, applied, clock, merchant>> /\ NoAnswer
  BY DEF Unreachable, NoAnswer, integrationVars
<1> QED BY <1>1, NoAnswerKeeps, WorkerMovesAlone

LEMMA InterruptedKeeps == ASSUME IntegrationInv, Interrupted PROVE IntegrationInv'
<1>1. UNCHANGED <<storeVars, order, seen, applied, clock, merchant>> /\ worker' = Idle
  BY DEF Interrupted, Abandon
<1>2. Idle \in WorkerLocals /\ Idle.batch = <<>> /\ Idle.stage = "idle"
  BY WebhookAssumption, IntegrationAssumption DEF Idle, WorkerLocals
<1>3. WorkerOK'
  BY <1>1, <1>2, WebhookAssumption DEF WorkerOK
<1> QED BY <1>1, <1>3, WorkerMovesAlone

(* The row an attempt leaves behind: the same delivery, delivered only if  *)
(* it was accepted.                                                        *)
LEMMA RecordedRow ==
  ASSUME IntegrationInv, Record
  PROVE  \E changed \in DeliveryRows :
           /\ deliveries' = (deliveries \ {Row}) \cup {changed}
           /\ changed.event = Row.event /\ changed.endpoint = Row.endpoint
           /\ changed.status = "delivered" => worker.outcome = "204"
           /\ UNCHANGED <<payments, idempotencyKeys, events, endpoints>>
<1> DEFINE row == Row
           attempt == Listed.attempts + 1
           terminal == attempt >= MaxAttempts \/ ~Retryable(worker.outcome)
           delivered == [row EXCEPT !.status = "delivered", !.attempts = row.attempts + 1]
           status == IF terminal THEN "dead" ELSE "retry"
           due == worker.at + Delay(attempt)
           failed == [row EXCEPT !.status = status, !.attempts = row.attempts + 1, !.due = due]
           changed == IF Accepted(worker.outcome) THEN delivered ELSE failed
<1>1. worker.stage = "record"
  BY DEF Record
<1>2. row \in DeliveryRows /\ Listed \in DeliveryRows
  BY <1>1, ListedRow DEF IntegrationInv, DeliveriesOK
<1>3. UpdateDelivery(changed)
  BY <1>2 DEF Record, DeliveryRows
<1> HIDE DEF row
<1>4. due \in Nat
  <2>1. attempt \in Nat \ {0}
    BY <1>2 DEF DeliveryRows
  <2>2. Delay(attempt) \in Nat
    BY <2>1, DelayIsNatural
  <2>3. worker.at \in 0..MaxTime
    BY DEF IntegrationInv, WorkerOK, WorkerLocals
  <2> QED BY <2>2, <2>3, IntegrationAssumption
<1>5. status \in {"dead", "retry"}
  OBVIOUS
<1>6. /\ row.attempts + 1 \in Nat
      /\ "delivered" \in DeliveryStatuses /\ status \in DeliveryStatuses
  BY <1>2, <1>5 DEF DeliveryRows, DeliveryStatuses
<1> HIDE DEF due, status, terminal
<1>7. /\ delivered \in DeliveryRows
      /\ delivered.event = row.event /\ delivered.endpoint = row.endpoint
      /\ failed \in DeliveryRows
      /\ failed.event = row.event /\ failed.endpoint = row.endpoint
      /\ failed.status = status
  BY <1>2, <1>4, <1>6 DEF DeliveryRows
<1> HIDE DEF delivered, failed
<1>8. /\ changed \in DeliveryRows
      /\ changed.event = row.event /\ changed.endpoint = row.endpoint
      /\ changed.status = "delivered" => worker.outcome = "204"
  BY <1>5, <1>7 DEF Accepted
<1> HIDE DEF changed
<1>9. /\ deliveries' = (deliveries \ {row}) \cup {changed}
      /\ UNCHANGED <<payments, idempotencyKeys, events, endpoints>>
  BY <1>3 DEF UpdateDelivery, row
<1> QED BY <1>8, <1>9 DEF row

(* After a delivery the worker has the rest of its batch.                  *)
LEMMA RestOfBatch ==
  ASSUME IntegrationInv, Record
  PROVE  /\ worker' \in WorkerLocals
         /\ \/ worker'.stage = "idle" /\ worker'.batch = <<>>
            \/ worker'.stage = "attempt" /\ worker'.batch # <<>>
         /\ worker'.outcome = "none"
         /\ Len(worker'.batch) <= BatchSize
         /\ \A i \in 1..Len(worker'.batch) :
              \E j \in 1..Len(worker.batch) : worker'.batch[i] = worker.batch[j]
<1> DEFINE rest == Tail(worker.batch)
<1>1. worker.batch \in Seq(DeliveryRows) /\ worker.batch # <<>>
  BY DEF IntegrationInv, WorkerOK, WorkerLocals, Record
<1>2. /\ rest \in Seq(DeliveryRows)
      /\ Len(rest) = Len(worker.batch) - 1
      /\ \A i \in 1..Len(rest) : rest[i] = worker.batch[i + 1]
  BY <1>1, HeadTailProperties
<1>3. Len(worker.batch) \in Nat \ {0} /\ Len(worker.batch) <= BatchSize
  BY <1>1 DEF IntegrationInv, WorkerOK
<1>4. CASE Len(worker.batch) = 1
  <2>1. worker' = Idle
    BY <1>4 DEF Record
  <2>2. /\ Idle \in WorkerLocals /\ Idle.stage = "idle" /\ Idle.batch = <<>>
        /\ Idle.outcome = "none"
    BY WebhookAssumption, IntegrationAssumption DEF Idle, WorkerLocals
  <2> QED BY <2>1, <2>2, WebhookAssumption
<1>5. CASE Len(worker.batch) # 1
  <2>1. worker' = [Idle EXCEPT !.stage = "attempt", !.batch = rest]
    BY <1>5 DEF Record
  <2> HIDE DEF rest
  <2>2. /\ worker'.stage = "attempt" /\ worker'.batch = rest /\ worker'.outcome = "none"
        /\ worker' \in WorkerLocals
    BY <1>2, <2>1, NextInBatch
  <2>3. Len(rest) > 0 /\ Len(rest) <= BatchSize
    <3> DEFINE n == Len(worker.batch)
    <3>1. n \in Nat \ {0, 1} /\ n <= BatchSize /\ Len(rest) = n - 1
      BY <1>2, <1>3, <1>5
    <3> HIDE DEF n
    <3> QED BY <3>1, WebhookAssumption
  <2>4. \A i \in 1..Len(rest) : i + 1 \in 1..Len(worker.batch)
    BY <1>2, <1>3
  <2>5. rest # <<>>
    BY <2>3
  <2> QED BY <1>2, <2>2, <2>3, <2>4, <2>5
<1> QED BY <1>4, <1>5

LEMMA FinishKeeps == ASSUME IntegrationInv, Finish PROVE IntegrationInv'
<1> USE DEF IntegrationInv
<1>1. Record /\ worker.stage = "record" /\ UNCHANGED <<order, seen, applied, clock, merchant>>
  BY DEF Finish, Record, integrationVars
<1>2. PICK changed \in DeliveryRows :
        /\ deliveries' = (deliveries \ {Row}) \cup {changed}
        /\ changed.event = Row.event /\ changed.endpoint = Row.endpoint
        /\ changed.status = "delivered" => worker.outcome = "204"
        /\ UNCHANGED <<payments, idempotencyKeys, events, endpoints>>
  BY <1>1, RecordedRow
<1>3. PICK row \in deliveries :
        row = Row /\ row.event = Listed.event /\ Listed.event \in events
  BY <1>1, ListedRow
<1>4. DeliveriesOK'
  <2>1. IsFiniteSet(deliveries \ {row})
    BY FS_Subset DEF DeliveriesOK
  <2>2. IsFiniteSet((deliveries \ {row}) \cup {changed})
    BY <2>1, FS_AddElement
  <2> QED BY <1>2, <1>3, <2>2 DEF DeliveriesOK
<1>5. \A d \in deliveries : \E f \in deliveries' : f.event = d.event /\ f.endpoint = d.endpoint
  BY <1>2, <1>3
<1>6. WorkerOK'
  <2>1. (\A i \in 1..Len(worker.batch) : InTable(worker.batch[i]))'
    <3>1. \A j \in 1..Len(worker.batch) :
            \E f \in deliveries' : /\ f.event = worker.batch[j].event
                                   /\ f.endpoint = worker.batch[j].endpoint
      <4>1. \A j \in 1..Len(worker.batch) : \E f \in deliveries :
              f.event = worker.batch[j].event /\ f.endpoint = worker.batch[j].endpoint
        BY DEF WorkerOK, InTable
      <4> QED BY <1>5, <4>1
    <3>2. \A i \in 1..Len(worker'.batch) :
            \E j \in 1..Len(worker.batch) : worker'.batch[i] = worker.batch[j]
      BY <1>1, RestOfBatch
    <3>3. \A i \in 1..Len(worker'.batch) :
            \E f \in deliveries' : /\ f.event = worker'.batch[i].event
                                   /\ f.endpoint = worker'.batch[i].endpoint
      BY <3>1, <3>2
    <3> QED BY <3>3 DEF InTable
  <2>2. /\ worker' \in WorkerLocals
        /\ (worker'.stage = "idle") <=> (worker'.batch = <<>>)
        /\ worker'.stage # "record"
        /\ worker'.outcome = "none"
        /\ Len(worker'.batch) <= BatchSize
    BY <1>1, RestOfBatch
  <2> QED BY <2>1, <2>2 DEF WorkerOK, InTable
<1>7. DeliveredMeansConsumed'
  BY <1>1, <1>2, <1>3 DEF DeliveredMeansConsumed, WorkerOK, EventId
<1>8. PaymentsOK' /\ EventsOK' /\ EndpointsOK'
  BY <1>2 DEF PaymentsOK, EventsOK, EndpointsOK
<1>9. OrderOK' /\ MerchantOK' /\ ConsumedOK' /\ NewestEventWins'
  BY <1>1, <1>2 DEF OrderOK, MerchantOK, ConsumedOK, NewestEventWins
<1> QED BY <1>1, <1>4, <1>6, <1>7, <1>8, <1>9

-----------------------------------------------------------------------------
(* Every step.                                                             *)

LEMMA IntegrationStep == ASSUME IntegrationInv, [Next]_vars PROVE IntegrationInv'
<1>1. CASE WorkerStep
  BY <1>1, ListKeeps, BeginKeeps, ReceiveKeeps, UnreachableKeeps, FinishKeeps DEF WorkerStep
<1>2. CASE \E p \in PaymentIds, status \in ChangedStatuses : PaymentChanges(p, status)
  BY <1>2, ChangeKeeps
<1>3. CASE UNCHANGED vars
  <2>1. UNCHANGED <<storeVars, order, seen, applied, clock, merchant>>
    BY <1>3 DEF vars, integrationVars
  <2>2. UNCHANGED <<worker, seen, deliveries>>
    BY <1>3 DEF vars, integrationVars, storeVars
  <2>3. WorkerOK'
    BY <2>2, WorkerAlone
  <2> QED BY <2>1, <2>3, WorkerMovesAlone
<1> QED BY <1>1, <1>2, <1>3, MerchantSteps, AskKeeps, InterruptedKeeps, DisableKeeps DEF Next

LEMMA IntegrationAlways == Spec => []IntegrationInv
<1>1. Init => IntegrationInv
  BY InitIntegration
<1>2. IntegrationInv /\ [Next]_vars => IntegrationInv'
  BY IntegrationStep
<1> QED BY <1>1, <1>2, PTL DEF Spec

(* Types: the worker's locals, the rows of the delivery queue and the      *)
(* merchant's tables hold what they should.                                *)
THEOREM IntegrationTyped == Spec => []TypeOK
<1>1. IntegrationInv => TypeOK
  BY DEF IntegrationInv, TypeOK, WorkerOK, WorkerLocals, DeliveriesOK, DeliveryRows,
         DeliveryStatuses, OrderOK, ConsumedOK
<1> QED BY <1>1, IntegrationAlways, PTL

(* What the service calls delivered the merchant has consumed, whatever    *)
(* answers are lost and wherever a batch ends.                             *)
THEOREM DeliveredIsConsumed == Spec => []DeliveredMeansConsumed
<1>1. IntegrationInv => DeliveredMeansConsumed
  BY DEF IntegrationInv
<1> QED BY <1>1, IntegrationAlways, PTL

(* However often an event is delivered, it acts once.                      *)
THEOREM EventsActOnce == Spec => []AppliedOnce
<1>1. IntegrationInv => AppliedOnce
  BY DEF IntegrationInv, ConsumedOK, AppliedOnce
<1> QED BY <1>1, IntegrationAlways, PTL

(* Webhooks alone leave the order at the newest version it was told of.    *)
THEOREM WebhooksConverge == Spec => []NewestEventWins
<1>1. IntegrationInv => NewestEventWins
  BY DEF IntegrationInv
<1> QED BY <1>1, IntegrationAlways, PTL

-----------------------------------------------------------------------------
(* Disabled endpoints.                                                     *)

NobodyAsks(d) == \A v \in endpoints : v.id = d.endpoint => ~v.enabled

LeftAlone(d) == d \in deliveries' /\ ~InBatch(d, worker')

(* The steps that take no delivery up and record none.                     *)
LEMMA NothingTakenUp ==
  ASSUME deliveries \subseteq deliveries', worker'.batch = worker.batch
  PROVE  \A d \in deliveries : ~InBatch(d, worker) => LeftAlone(d)
  BY DEF InBatch, LeftAlone

LEMMA ListLeavesAlone ==
  ASSUME IntegrationInv, List
  PROVE  \A d \in deliveries : NobodyAsks(d) => LeftAlone(d)
<1>1. PICK batch \in Seq(DeliveryRows) :
        /\ worker' = [Idle EXCEPT !.stage = "attempt", !.batch = batch]
        /\ Len(batch) \in 1..BatchSize
        /\ \A i \in 1..Len(batch) : batch[i] \in deliveries /\ Due(batch[i], clock)
  BY BatchIsDue DEF List
<1>2. worker'.batch = batch /\ UNCHANGED deliveries
  BY <1>1, NextInBatch DEF List, ListDue, storeVars
<1>3. \A i \in DOMAIN batch : \E v \in endpoints : v.id = batch[i].endpoint /\ v.enabled
  BY <1>1 DEF Due
<1> QED BY <1>2, <1>3 DEF InBatch, LeftAlone, NobodyAsks

LEMMA FinishLeavesAlone ==
  ASSUME IntegrationInv, Finish
  PROVE  \A d \in deliveries : ~InBatch(d, worker) => LeftAlone(d)
<1>1. Record /\ worker.stage # "idle"
  BY DEF Finish, Record
<1>2. /\ worker.batch \in Seq(DeliveryRows) /\ worker.batch # <<>>
      /\ worker'.batch \in Seq(DeliveryRows)
      /\ \A i \in 1..Len(worker'.batch) :
           \E j \in 1..Len(worker.batch) : worker'.batch[i] = worker.batch[j]
  BY <1>1, RestOfBatch DEF IntegrationInv, WorkerOK, WorkerLocals
<1>3. DOMAIN worker.batch = 1..Len(worker.batch) /\ DOMAIN worker'.batch = 1..Len(worker'.batch)
  BY <1>2
<1>4. InBatch(Row, worker)
  <2>1. Row.event = Listed.event /\ Row.endpoint = Listed.endpoint
    BY <1>1, ListedRow
  <2>2. 1 \in DOMAIN worker.batch /\ Listed = worker.batch[1]
    BY <1>2, HeadTailProperties DEF Listed
  <2> QED BY <2>1, <2>2 DEF InBatch
<1>5. PICK changed : deliveries' = (deliveries \ {Row}) \cup {changed}
  BY <1>1, RecordedRow
<1>6. ASSUME NEW d \in deliveries, ~InBatch(d, worker) PROVE LeftAlone(d)
  <2>1. d \in deliveries'
    BY <1>4, <1>5, <1>6
  <2>2. ~InBatch(d, worker')
    BY <1>2, <1>3, <1>6 DEF InBatch
  <2> QED BY <2>1, <2>2 DEF LeftAlone
<1> QED BY <1>6

LEMMA StepLeavesAlone ==
  ASSUME IntegrationInv, [Next]_vars
  PROVE  \A d \in deliveries : NobodyAsks(d) /\ ~InBatch(d, worker) => LeftAlone(d)
<1>1. CASE Reserve \/ Bind \/ LoseResponse \/ Tick \/ UNCHANGED vars
  <2>1. UNCHANGED <<deliveries, worker>>
    BY <1>1 DEF Reserve, Bind, LoseResponse, Tick, vars, storeVars
  <2> QED BY <2>1, NothingTakenUp
<1>2. CASE Ask \/ \E p \in PaymentIds, status \in ChangedStatuses : PaymentChanges(p, status)
  <2>1. deliveries \subseteq deliveries' /\ UNCHANGED worker
    BY <1>2 DEF Ask, CreatePayment, PaymentChanges, InsertEvent, storeVars
  <2> QED BY <2>1, NothingTakenUp
<1>3. CASE Disable
  <2>1. UNCHANGED <<deliveries, worker>>
    BY <1>3 DEF Disable, DisableEndpoint
  <2> QED BY <2>1, NothingTakenUp
<1>4. CASE Begin \/ Receive \/ Unreachable
  <2>1. UNCHANGED deliveries
    BY <1>4 DEF Begin, BeginAttempt, Receive, Unreachable, Answer, NoAnswer, storeVars
  <2>2. worker'.batch = worker.batch
    BY <1>4 DEF Begin, BeginAttempt, Receive, Unreachable, Answer, NoAnswer,
                IntegrationInv, WorkerOK, WorkerLocals
  <2> QED BY <2>1, <2>2, NothingTakenUp
<1>5. CASE Interrupted
  <2>1. UNCHANGED deliveries /\ worker'.batch = <<>>
    BY <1>5 DEF Interrupted, Abandon, Idle, storeVars
  <2> QED BY <2>1 DEF InBatch, LeftAlone
<1> QED BY <1>1, <1>2, <1>3, <1>4, <1>5, ListLeavesAlone, FinishLeavesAlone DEF Next, WorkerStep

(* Nothing new is attempted or recorded for an endpoint once it is         *)
(* disabled and the batch listed before is over.                           *)
THEOREM DisabledStaysQuiet == Spec => DisabledIsLeftAlone
<1>1. IntegrationInv /\ [Next]_vars =>
        [\A d \in deliveries :
           /\ \A v \in endpoints : v.id = d.endpoint => ~v.enabled
           /\ ~InBatch(d, worker)
           => d \in deliveries' /\ ~InBatch(d, worker')]_vars
  BY StepLeavesAlone DEF NobodyAsks, LeftAlone
<1> QED BY <1>1, IntegrationAlways, PTL DEF Spec, DisabledIsLeftAlone
=============================================================================
