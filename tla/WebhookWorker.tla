--------------------------- MODULE WebhookWorker ---------------------------
(***************************************************************************)
(* services/webhook_worker.py: one coroutine that takes the due deliveries *)
(* in batches, sends each to its endpoint and records the outcome, as the  *)
(* steps between its awaits.  What the endpoint does with a request is     *)
(* given by the module that uses this one.                                 *)
(*                                                                         *)
(* Signing and payloads are left out: a delivery stands for its body.      *)
(***************************************************************************)
EXTENDS PaymentStore, SequencesExt

CONSTANTS
  BatchSize,        \* payment_webhook_batch_size
  MaxAttempts,      \* payment_webhook_max_attempts
  RetryBase,        \* payment_webhook_retry_base_seconds
  RetryMax,         \* payment_webhook_retry_max_seconds
  Addresses,        \* how many addresses an endpoint's host resolves to
  Answers           \* the HTTP statuses an endpoint may answer

ASSUME WebhookAssumption ==
  /\ BatchSize \in Nat \ {0}
  /\ MaxAttempts \in Nat \ {0}
  /\ RetryBase \in Nat \ {0}
  /\ RetryMax \in Nat \ {0}
  /\ Addresses \in Nat \ {0}

VARIABLES
  worker            \* [stage, batch, at, tried, outcome]: the coroutine and
                    \* its local variables; batch holds the rows as listed

Idle == [stage |-> "idle", batch |-> <<>>, at |-> 0, tried |-> 0, outcome |-> "none"]

(* What an attempt may end with besides an HTTP status: the target is      *)
(* refused or cannot be signed for, its name does not resolve, or no       *)
(* address gave an answer.                                                 *)
Failures == {"unsafe", "dns", "error"}

(* Slip: any answer taken for an acceptance.                               *)
AnsweredAtAll(outcome) == outcome \in Answers

Accepted(outcome) == outcome = "204"

Retryable(outcome) == outcome \in {"409", "500", "dns", "error"}

Delay(attempt) ==
  LET backoff == RetryBase * 2 ^ (attempt - 1)
      maximum == IF RetryMax > RetryBase THEN RetryMax ELSE RetryBase
  IN  IF backoff < maximum THEN backoff ELSE maximum

(* Slip: a delivery that has failed once is not listed again.              *)
PendingOnly(d, now) ==
  /\ d.status = "pending"
  /\ d.due <= now
  /\ \E v \in endpoints : v.id = d.endpoint /\ v.enabled

(* Slip: the endpoint not looked at.                                       *)
DueForAnyone(d, now) ==
  /\ d.status \in {"pending", "retry"}
  /\ d.due <= now

(* The filter of list_due_webhook_deliveries.                              *)
Due(d, now) ==
  /\ d.status \in {"pending", "retry"}
  /\ d.due <= now
  /\ \E v \in endpoints : v.id = d.endpoint /\ v.enabled

(* The length of a batch.                                                  *)
BatchOf(D) == IF Cardinality(D) < BatchSize THEN Cardinality(D) ELSE BatchSize

(* list_due_webhook_deliveries: the longest due first.  Those due at the   *)
(* same time come in any order here; the code goes on by age and by id.    *)
ListDue(now) ==
  LET D == { d \in deliveries : Due(d, now) } IN
  /\ worker.stage = "idle"
  /\ D # {}
  /\ \E T \in kSubset(BatchOf(D), D) :
       /\ \A d \in T, e \in D \ T : d.due <= e.due
       /\ \E batch \in SetToSeqs(T) :
            /\ \A i, j \in DOMAIN batch : i < j => batch[i].due <= batch[j].due
            /\ worker' = [Idle EXCEPT !.stage = "attempt", !.batch = batch]
  /\ UNCHANGED storeVars

(* _deliver, up to the connection: the time of the attempt is taken, then  *)
(* the target is resolved and the body signed.                             *)
BeginAttempt(now) ==
  /\ worker.stage = "attempt"
  /\ \/ worker' = [worker EXCEPT !.stage = "send", !.at = now, !.tried = 1]
     \/ \E failure \in {"unsafe", "dns"} :
          worker' = [worker EXCEPT !.stage = "record", !.at = now, !.outcome = failure]
  /\ UNCHANGED storeVars

(* send_webhook_https: the answer of one address, or its loss, after which *)
(* the next address is tried with the same request.                        *)
Answer(outcome) ==
  /\ worker.stage = "send"
  /\ worker' = [worker EXCEPT !.stage = "record", !.outcome = outcome]
  /\ UNCHANGED storeVars

(* Slip: one address too many.                                             *)
NoAnswerPastTheEnd ==
  /\ worker.stage = "send"
  /\ worker' = IF worker.tried <= Addresses
               THEN [worker EXCEPT !.tried = @ + 1]
               ELSE [worker EXCEPT !.stage = "record", !.outcome = "error"]
  /\ UNCHANGED storeVars

NoAnswer ==
  /\ worker.stage = "send"
  /\ worker' = IF worker.tried < Addresses
               THEN [worker EXCEPT !.tried = @ + 1]
               ELSE [worker EXCEPT !.stage = "record", !.outcome = "error"]
  /\ UNCHANGED storeVars

Listed == Head(worker.batch)

(* The row of deliveries that the listed one is by now.                    *)
Row == CHOOSE d \in deliveries : d.event = Listed.event /\ d.endpoint = Listed.endpoint

UpdateDelivery(changed) ==
  /\ deliveries' = (deliveries \ {Row}) \cup {changed}
  /\ UNCHANGED <<payments, idempotencyKeys, baseline, transactions, chainTip,
                 events, endpoints>>

(* mark_webhook_delivery_success and mark_webhook_delivery_failure: the    *)
(* number of the attempt is that of the listed row, the count in the table *)
(* is raised whatever it is.                                               *)
Record ==
  LET attempt  == Listed.attempts + 1
      terminal == attempt >= MaxAttempts \/ ~Retryable(worker.outcome)
  IN  /\ worker.stage = "record"
      /\ UpdateDelivery(
           IF Accepted(worker.outcome)
           THEN [Row EXCEPT !.status = "delivered", !.attempts = @ + 1]
           ELSE [Row EXCEPT !.status = IF terminal THEN "dead" ELSE "retry",
                            !.attempts = @ + 1,
                            !.due = worker.at + Delay(attempt)])
      /\ worker' = IF Len(worker.batch) = 1 THEN Idle
                   ELSE [Idle EXCEPT !.stage = "attempt", !.batch = Tail(worker.batch)]

(* Anything that raises out of a batch, and a restart of the process: the  *)
(* rest of the batch is dropped and what is not recorded is forgotten.     *)
Abandon ==
  /\ worker.stage # "idle"
  /\ worker' = Idle
  /\ UNCHANGED storeVars

(* disable_webhook_endpoint; the batch being delivered is not looked at.   *)
DisableEndpoint(v) ==
  /\ v \in endpoints
  /\ v.enabled
  /\ endpoints' = (endpoints \ {v}) \cup {[v EXCEPT !.enabled = FALSE]}
  /\ UNCHANGED <<payments, idempotencyKeys, baseline, transactions, chainTip,
                 events, deliveries>>
=============================================================================
