----------------------- MODULE MCMerchantIntegration -----------------------
(* One order, and an endpoint of its merchant for every event.             *)
EXTENDS MerchantIntegration

MCOrder == [merchant |-> "m1", key |-> "k1", reference |-> "x", address |-> "a",
            amount |-> 1, confirmations |-> 1, expires_in |-> 1]

MCEndpoints ==
  { [id |-> "w1", merchant |-> "m1", enabled |-> TRUE,
     types |-> { EventType(s) : s \in Statuses } \cup {"payment.created"}] }

MCPays == [t \in {} |-> <<>>]
=============================================================================
