------------------------- MODULE ReferenceMerchant -------------------------
(***************************************************************************)
(* The merchant's side of examples/reference_merchant.py: one order of     *)
(* ReferenceMerchantStore and the webhook events it has consumed.  Each    *)
(* method is one transaction.  The status of an order always comes with    *)
(* its version and is left out, like the checkout address.                 *)
(***************************************************************************)
EXTENDS Integers

CONSTANTS
  NoPayment,        \* the NULL payment id of an order
  EventIds          \* the event ids there may ever be: <<payment, version>>

VARIABLES
  order,            \* merchant_orders: [reserved, payment, version]
  seen,             \* webhook_events: the event ids consumed
  applied           \* history: event id -> how often it changed the order

merchantVars == <<order, seen, applied>>

NoVersion == 0

MerchantInit ==
  /\ order = [reserved |-> FALSE, payment |-> NoPayment, version |-> NoVersion]
  /\ seen = {}
  /\ applied = [e \in EventIds |-> 0]

(* reserve_order; repeated with the same key it does nothing.              *)
ReserveOrder ==
  /\ order' = [order EXCEPT !.reserved = TRUE]
  /\ UNCHANGED <<seen, applied>>

(* bind_payment, with the payment of a create or recovery response.        *)
BindPayment(payment, version) ==
  /\ order.reserved
  /\ order.payment \in {NoPayment, payment}
  /\ order' = [order EXCEPT !.payment = payment, !.version = version]
  /\ UNCHANGED <<seen, applied>>

Consume(payment, version) ==
  /\ seen' = seen \cup {<<payment, version>>}
  /\ IF version > order.version
     THEN /\ order' = [order EXCEPT !.payment = payment, !.version = version]
          /\ applied' = [applied EXCEPT ![<<payment, version>>] = @ + 1]
     ELSE UNCHANGED <<order, applied>>

(* Slip: the last delivery wins.                                           *)
ConsumeLast(payment, version) ==
  /\ order.payment \in {NoPayment, payment}
  /\ <<payment, version>> \notin seen
  /\ seen' = seen \cup {<<payment, version>>}
  /\ order' = [order EXCEPT !.payment = payment, !.version = version]
  /\ applied' = [applied EXCEPT ![<<payment, version>>] = @ + 1]

(* Slip: no deduplication by event id and no comparison of versions but    *)
(* for equality.                                                           *)
ConsumeAgain(payment, version) ==
  /\ order.payment \in {NoPayment, payment}
  /\ version >= order.version
  /\ seen' = seen \cup {<<payment, version>>}
  /\ order' = [order EXCEPT !.payment = payment, !.version = version]
  /\ applied' = [applied EXCEPT ![<<payment, version>>] = @ + 1]

(* The transaction of apply_verified_event for an event not seen before:   *)
(* a higher version wins, an older one is only remembered.                 *)
ConsumeNew(payment, version) ==
  /\ order.payment \in {NoPayment, payment}
  /\ <<payment, version>> \notin seen
  /\ Consume(payment, version)

(* apply_verified_event behind the receiver of the documentation: an       *)
(* unknown order is answered 409; an order of another payment raises, as a *)
(* transaction may that the database refuses; everything else is accepted. *)
ReceiveEvent(payment, version, answer) ==
  \/ /\ ~order.reserved
     /\ answer = "409"
     /\ UNCHANGED merchantVars
  \/ /\ answer = "500"
     /\ UNCHANGED merchantVars
  \/ /\ order.reserved
     /\ answer = "204"
     /\ \/ ConsumeNew(payment, version)
        \/ <<payment, version>> \in seen /\ UNCHANGED merchantVars
=============================================================================
