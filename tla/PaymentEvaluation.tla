------------------------- MODULE PaymentEvaluation -------------------------
(***************************************************************************)
(* One payment under an arbitrary stream of observations: its outputs      *)
(* enter the mempool, confirm, move back and confirm again at any height   *)
(* up to the tip, while the tip and the clock move.  It exercises the      *)
(* evaluator on the whole stream next to the rows the store would keep of  *)
(* it, and never shows the evaluator an observation made before creation.  *)
(***************************************************************************)
EXTENDS PaymentRows

CONSTANTS
  Outputs,          \* the outputs that pay the payment: [tx, vout, value]
  Requested,        \* amount_sats
  Policies,         \* the values of confirmations_required to try
  CreatedHeight,    \* the tip and the time at creation, and the deadline
  CreatedAt,
  ExpiresAt,
  MaxTip,           \* bound of the chain
  MaxTime,          \* bound of the clock
  MaxObservations   \* bound of the stream

ASSUME EvaluationAssumption ==
  /\ \A u \in Outputs : u.value \in Nat \ {0}
  /\ \A u, v \in Outputs : <<u.tx, u.vout>> = <<v.tx, v.vout>> => u = v
  /\ Requested \in Nat \ {0}
  /\ Policies \subseteq Nat
  /\ CreatedHeight \in Nat
  /\ CreatedAt \in Nat
  /\ ExpiresAt \in Nat

VARIABLES
  observations,     \* every observation made, in order
  rows,             \* what payment_transactions holds of them
  required,         \* the payment's confirmations_required
  tip,
  now

vars == <<observations, rows, required, tip, now>>

Scope == [created_height |-> CreatedHeight, created_at |-> CreatedAt,
          expires_at |-> ExpiresAt]

Evaluation ==
  EvaluatePaymentObservations(Requested, observations, tip, required, Scope, now)

Init ==
  /\ observations = <<>>
  /\ rows = {}
  /\ required \in Policies
  /\ tip = CreatedHeight
  /\ now = CreatedAt

Observe(u, height) ==
  LET o == [tx |-> u.tx, vout |-> u.vout, value |-> u.value,
            height |-> height, first_seen |-> now]
  IN  /\ Len(observations) < MaxObservations
      /\ observations' = Append(observations, o)
      /\ rows' = UpsertRow(rows, o)
      /\ UNCHANGED <<required, tip, now>>

Connect ==
  /\ tip < MaxTip
  /\ tip' = tip + 1
  /\ UNCHANGED <<observations, rows, required, now>>

Disconnect ==
  /\ tip > 0
  /\ tip' = tip - 1
  /\ UNCHANGED <<observations, rows, required, now>>

Tick ==
  /\ now < MaxTime
  /\ now' = now + 1
  /\ UNCHANGED <<observations, rows, required, tip>>

Next ==
  \/ \E u \in Outputs, height \in 0..tip : Observe(u, height)
  \/ Connect
  \/ Disconnect
  \/ Tick

Spec == Init /\ [][Next]_vars

-----------------------------------------------------------------------------

(* The outputs the payment has received, each where it was seen last.      *)
Kept == Deduplicate(observations, InScope(observations, Scope))

(* The outputs that N blocks of the chain bury, their own among them.      *)
Buried(n) == { o \in Kept : o.height > 0 /\ Cardinality(o.height..tip) >= n }

(* Under an N-confirmation policy confirmed status never rests on          *)
(* unconfirmed value, whatever mix of outputs has arrived: the part that   *)
(* meets the policy is confirmed, and the confirmed part is received.  It  *)
(* is neither a block early nor a block late: what meets the policy is     *)
(* what N blocks bury, counted one by one (confirmations_for_height,       *)
(* evaluate_payment_observations, received / confirmed / policy sums).     *)
PolicyWithinConfirmed ==
  LET e == Evaluation IN
  /\ e.confirmed <= e.received
  /\ required > 0 =>
       /\ e.policy <= e.confirmed
       /\ e.policy = SumValues(Buried(required))
       /\ e.status = "paid_confirmed" => e.confirmed >= Requested

(* The evaluator on the raw stream and the store on the rows it kept agree *)
(* as long as every observation was made inside the payment's window.      *)
RowsEvaluateLikeTheStream ==
  (\A i \in DOMAIN observations : ObservationBelongsToPayment(observations[i], Scope))
    => Evaluation = EvaluateRows(Requested, rows, tip, required, Scope, now)

(* A repeated notification or reconciliation read of an output at the      *)
(* height last seen changes nothing: an output is counted once.            *)
RepeatedObservationIsHarmless ==
  [][ LET o    == observations'[Len(observations')]
          at   == { i \in InScope(observations, Scope) :
                      Outpoint(observations[i]) = Outpoint(o) }
      IN  /\ Len(observations') > Len(observations)
          /\ ObservationBelongsToPayment(o, Scope)
          /\ at # {}
          /\ observations[Max(at)].height = o.height
          => Evaluation' = Evaluation ]_vars

(* The clock alone takes no money back: passing the deadline turns only an *)
(* incomplete payment into an expired one, and no amount changes           *)
(* (docs/PAYMENT_STATE.md, Expiry).                                        *)
ClockNeverUnpays ==
  [][ now' > now =>
        LET before == Evaluation
            after  == Evaluation'
        IN  /\ [after EXCEPT !.status = before.status] = before
            /\ after.status # before.status =>
                 /\ before.status \in {"waiting", "partial"}
                 /\ after.status = "expired" ]_vars

(* A new block alone never loses a confirmation: what met the policy still *)
(* meets it and a confirmed payment stays confirmed.                       *)
NewBlockNeverUnconfirms ==
  [][ tip' > tip =>
        LET before == Evaluation
            after  == Evaluation'
        IN  /\ after.policy >= before.policy
            /\ after.received = before.received
            /\ before.status = "paid_confirmed" => after.status = "paid_confirmed" ]_vars
=============================================================================
