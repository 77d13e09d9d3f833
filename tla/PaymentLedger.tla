--------------------------- MODULE PaymentLedger ---------------------------
(***************************************************************************)
(* What the payment platform promises about its books, with no requests,   *)
(* no chain and no watcher: a payment is opened once, with a receive       *)
(* window that starts after every earlier window of its address has        *)
(* closed, under an idempotency key and a merchant reference no other      *)
(* payment of the merchant has; after that only its history grows, one     *)
(* event at a time, and no event is ever rewritten or removed.             *)
(***************************************************************************)
EXTENDS Integers, Sequences

CONSTANTS
  Ids,              \* payment ids
  Types,            \* the types of the events that follow creation
  NoValue           \* an absent key or reference

VARIABLE
  ledger            \* payment id -> [merchant, address, key, reference,
                    \*                from, until, history]

LedgerInit == ledger = [p \in {} |-> NoValue]

(* No later payment may share what e reserves with the new entry n.        *)
Compatible(e, n) ==
  /\ e.address = n.address => e.until < n.from
  /\ (e.merchant = n.merchant /\ e.key = n.key) => n.key = NoValue
  /\ (e.merchant = n.merchant /\ e.reference = n.reference) => n.reference = NoValue

Open(p) ==
  /\ p \notin DOMAIN ledger
  /\ DOMAIN ledger' = DOMAIN ledger \cup {p}
  /\ \A q \in DOMAIN ledger :
       /\ ledger'[q] = ledger[q]
       /\ Compatible(ledger[q], ledger'[p])
  /\ ledger'[p].from <= ledger'[p].until
  /\ ledger'[p].history = <<"payment.created">>

Advance(p) ==
  /\ p \in DOMAIN ledger
  /\ DOMAIN ledger' = DOMAIN ledger
  /\ ledger'[p].history \in { Append(ledger[p].history, type) : type \in Types }
  /\ ledger' = [ledger EXCEPT ![p].history = ledger'[p].history]

(* A step that changes the books is one of these.                          *)
LedgerNext ==
  /\ ledger' # ledger
  /\ \E p \in Ids : Open(p) \/ Advance(p)

LedgerSpec == LedgerInit /\ [][LedgerNext]_ledger
=============================================================================
