-------------------------- MODULE MCPaymentWatcher --------------------------
(* Payments of 2 atoms; a payer may send the whole amount or do it in two  *)
(* transactions, and overpays with all of them.                            *)
EXTENDS PaymentWatcher

Order(address, confirmations, expires_in) ==
  [merchant |-> "m1", key |-> Absent, reference |-> Absent, address |-> address,
   amount |-> 2, confirmations |-> confirmations, expires_in |-> expires_in]

Pay(address, value) == << [address |-> address, value |-> value] >>

(* One order.                                                              *)
MCOneRequest == [ p1 |-> Order("a", 1, 1) ]
MCOneRequestIds == DOMAIN MCOneRequest

(* The same address used again once the first window is over.              *)
MCReuseRequest == [ p1 |-> Order("a", 1, 1), p2 |-> Order("a", 1, 1) ]
MCReuseRequestIds == DOMAIN MCReuseRequest

(* Two addresses.                                                          *)
MCTwoRequest == [ p1 |-> Order("a", 1, 1), p2 |-> Order("b", 1, 1) ]
MCTwoRequestIds == DOMAIN MCTwoRequest

MCWhole == [ t1 |-> Pay("a", 2) ]
MCParts == [ t \in Transactions |-> Pay("a", 1) ]

(* The two halves of an order are paid alike: either may come first.       *)
MCAlike == Permutations(Transactions)

(* The merchant of the orders and another one listen for payments and for  *)
(* what completes them; one endpoint is disabled.                          *)
MCEndpoints ==
  { [id |-> "w1", merchant |-> "m1", enabled |-> TRUE,
     types |-> {"payment.created", "payment.paid_confirmed"}],
    [id |-> "w2", merchant |-> "m2", enabled |-> TRUE, types |-> {"payment.created"}],
    [id |-> "w3", merchant |-> "m1", enabled |-> FALSE, types |-> {"payment.created"}] }
=============================================================================
