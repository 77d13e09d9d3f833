-------------------------- MODULE MCPaymentGateway --------------------------
(* Four creates: an order and its retry with the same key, another         *)
(* merchant that uses the same key and reference on the same address, and  *)
(* the first merchant again, with key and reference on another address.    *)
EXTENDS PaymentGateway, TLC

CONSTANTS p1, p2, p3, p4

Order(merchant, key, reference, address, expires_in) ==
  [merchant |-> merchant, key |-> key, reference |-> reference,
   address |-> address, amount |-> 1, confirmations |-> 1,
   expires_in |-> expires_in]

(* The order and its retry alone; they ask for the same, so either may     *)
(* come first.                                                             *)
MCRetryIds == {p1, p2}
MCRetry == [ r \in MCRetryIds |-> Order("m1", "k1", "x", "a", 1) ]
MCAlike == Permutations(MCRetryIds)

MCPaymentIds == {p1, p2, p3, p4}
MCRequest ==
  MCRetry @@ p3 :> Order("m2", "k1", "x", "a", 1)
          @@ p4 :> Order("m1", "k1", "x", "b", 1)

(* A payment to nobody here: what a snapshot holds is not the question.    *)
MCPays == [ t1 |-> << [address |-> "c", value |-> 1] >> ]

MCEndpoints ==
  { [id |-> "w1", merchant |-> "m1", enabled |-> TRUE,
     types |-> {"payment.created", "payment.expired"}] }
=============================================================================
