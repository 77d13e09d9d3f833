---------------------------- MODULE PaymentRows ----------------------------
(***************************************************************************)
(* The rows of one payment in the table payment_transactions, as the       *)
(* transactions of services/payment_store.py change and read them.  The    *)
(* primary key (payment_id, txid, vout) makes the rows of one payment a    *)
(* set of observations with distinct outpoints.                            *)
(***************************************************************************)
EXTENDS PaymentState

RowFor(rows, o) == { r \in rows : Outpoint(r) = Outpoint(o) }

(***************************************************************************)
(* upsert_transaction: the height is overwritten, the earliest first-seen  *)
(* time is kept.  An existing row with another value is refused.           *)
(***************************************************************************)
UpsertRefused(rows, o) == \E r \in RowFor(rows, o) : r.value # o.value

(* Slip: INSERT OR IGNORE, an output keeps its first height.               *)
InsertOrIgnore(rows, o) == IF RowFor(rows, o) = {} THEN rows \cup {o} ELSE rows

UpsertRow(rows, o) ==
  LET old == RowFor(rows, o)
      seen == EarliestSeen({ r.first_seen : r \in old } \cup {o.first_seen})
  IN  (rows \ old) \cup { [o EXCEPT !.first_seen = seen] }

(* delete_transactions_not_in *)
RowsWithin(rows, txids) == { r \in rows : r.tx \in txids }

(***************************************************************************)
(* What refresh_payment evaluates.  The outpoints of rows are distinct, so *)
(* only the scope filter of the evaluator has an effect on them.           *)
(***************************************************************************)
EvaluateRows(requested, rows, tip, required, scope, now) ==
  EvaluateOutputs(requested, { r \in rows : ObservationBelongsToPayment(r, scope) },
                  tip, required, scope.expires_at, now)
=============================================================================
