---------------------------- MODULE MCComponents ----------------------------
(* In the evaluation one output is a partial payment, the other an exact    *)
(* one, both overpay.                                                       *)
EXTENDS Components

MCOutputs ==
  { [tx |-> "t1", vout |-> 1, value |-> 1], [tx |-> "t1", vout |-> 2, value |-> 2] }

=============================================================================
