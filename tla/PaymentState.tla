---------------------------- MODULE PaymentState ----------------------------
(***************************************************************************)
(* The pure payment-domain rules of services/payment_state.py: how many    *)
(* confirmations an output has, which outputs of a transaction pay an      *)
(* address, which observations fall in a payment's window, and the status  *)
(* and amounts that follow from the observations.                          *)
(*                                                                         *)
(* An observation is a record [tx, vout, value, height, first_seen].  A    *)
(* height of 0 or less is unconfirmed.  Amounts are whole atoms.           *)
(***************************************************************************)
EXTENDS Integers, Sequences, FiniteSets, FiniteSetsExt

(* The Python None of an optional height or timestamp; real ones are >= 0. *)
None == -1

Statuses == {"waiting", "seen_in_mempool", "partial", "paid_unconfirmed",
             "paid_confirmed", "overpaid", "expired"}

(* The statuses a received payment can show. *)
PaidStatuses == {"paid_unconfirmed", "paid_confirmed", "overpaid"}

(* Slip: the block that is still to come counted.                          *)
ConfirmationsEarly(height, tip) ==
  IF height <= 0 \/ tip < height THEN 0 ELSE tip - height + 2

(* Slip: height and tip confused.                                          *)
ConfirmationsSwapped(height, tip) ==
  IF height <= 0 \/ height < tip THEN 0 ELSE height - tip + 1

ConfirmationsForHeight(height, tip) ==
  IF height <= 0 \/ tip < height THEN 0 ELSE tip - height + 1

(***************************************************************************)
(* The observations that the outputs of transaction tx yield for address:  *)
(* outputs that pay another address or nothing are skipped.                *)
(***************************************************************************)
MatchTransactionOutputs(tx, outputs, address, height, first_seen) ==
  { [tx |-> tx, vout |-> i, value |-> outputs[i].value,
     height |-> height, first_seen |-> first_seen] :
    i \in { j \in DOMAIN outputs : /\ outputs[j].address = address
                                   /\ outputs[j].value > 0 } }

(***************************************************************************)
(* scope is [created_height, created_at, expires_at]; each may be None.    *)
(***************************************************************************)

(* Slip: the block after the creation height taken for an old one.         *)
BelongsLate(o, scope) ==
  /\ ~(o.height > 0 /\ o.height <= scope.created_height + 1)
  /\ o.first_seen >= scope.created_at
  /\ o.first_seen <= scope.expires_at

(* Slip: the deadline left out.                                            *)
BelongsForever(o, scope) ==
  /\ ~(o.height > 0 /\ o.height <= scope.created_height)
  /\ o.first_seen >= scope.created_at

ObservationBelongsToPayment(o, scope) ==
  /\ scope.created_height # None => ~(o.height > 0 /\ o.height <= scope.created_height)
  /\ scope.created_at # None =>
       /\ o.height <= 0 => o.first_seen # None
       /\ o.first_seen # None => o.first_seen >= scope.created_at
  /\ scope.expires_at # None =>
       /\ o.first_seen # None
       /\ o.first_seen <= scope.expires_at

Outpoint(o) == <<o.tx, o.vout>>

EarliestSeen(times) ==
  LET known == times \ {None} IN IF known = {} THEN None ELSE Min(known)

(***************************************************************************)
(* Of the observations at these positions of the sequence, those of one    *)
(* output collapse into one: the last one gives the chain position, the    *)
(* earliest one the first-seen time.  (Two observations that disagree on   *)
(* the value raise; an output has one value.)                              *)
(***************************************************************************)

(* Slip: every observation of an output kept.                              *)
KeepEveryObservation(observations, positions) == { observations[i] : i \in positions }

Deduplicate(observations, positions) ==
  LET at(k) == { i \in positions : Outpoint(observations[i]) = k }
      last(k) == observations[Max(at(k))]
  IN  { [last(k) EXCEPT !.first_seen =
           EarliestSeen({ observations[i].first_seen : i \in at(k) })] :
        k \in { Outpoint(observations[i]) : i \in positions } }

SumValues(outputs) == MapThenSumSet(LAMBDA o : o.value, outputs)

(***************************************************************************)
(* The status, in the order of the tests of the code.                      *)
(***************************************************************************)

(* Slip: the deadline tested before the received amount.                   *)
ExpiredFirst(requested, received, policy, unconfirmed, expired) ==
  IF expired THEN "expired"
  ELSE IF received > requested THEN "overpaid"
  ELSE IF policy >= requested THEN "paid_confirmed"
  ELSE IF received >= requested THEN "paid_unconfirmed"
  ELSE IF received > 0 THEN "partial" ELSE "waiting"

StatusFor(requested, received, policy, unconfirmed, expired) ==
  IF received > requested THEN "overpaid"
  ELSE IF policy >= requested THEN "paid_confirmed"
  ELSE IF received >= requested THEN "paid_unconfirmed"
  ELSE IF expired THEN "expired"
  ELSE IF received > 0 THEN "partial"
  ELSE IF unconfirmed # {} THEN "seen_in_mempool"
  ELSE "waiting"

(***************************************************************************)
(* The evaluation of a set of distinct outputs, all of them in scope.      *)
(***************************************************************************)
EvaluateOutputs(requested, outputs, tip, required, expires_at, now) ==
  LET received  == SumValues(outputs)
      confirmed == SumValues({ o \in outputs : o.height > 0 })
      policy    == IF required = 0 THEN received
                   ELSE SumValues({ o \in outputs :
                          ConfirmationsForHeight(o.height, tip) >= required })
      expired   == expires_at # None /\ now > expires_at
  IN  [ status    |-> StatusFor(requested, received, policy,
                                { o \in outputs : o.height <= 0 }, expired),
        received  |-> received,
        confirmed |-> confirmed,
        policy    |-> policy ]

(***************************************************************************)
(* The evaluation of a sequence of observations, in the order they were    *)
(* made: those out of scope are dropped before repeated ones collapse.     *)
(***************************************************************************)
InScope(observations, scope) ==
  { i \in DOMAIN observations : ObservationBelongsToPayment(observations[i], scope) }

EvaluatePaymentObservations(requested, observations, tip, required, scope, now) ==
  EvaluateOutputs(requested, Deduplicate(observations, InScope(observations, scope)),
                  tip, required, scope.expires_at, now)
=============================================================================
