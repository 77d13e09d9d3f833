------------------------ MODULE PaymentGatewayProofs ------------------------
(***************************************************************************)
(* Proofs about PaymentGateway, for any requests, readers, transactions,   *)
(* endpoints, chain and bounds.                                            *)
(***************************************************************************)
EXTENDS PaymentGateway, SequenceTheorems, TLAPS

(***************************************************************************)
(* Everything below is shown of the steps of a larger system than          *)
(* PaymentGateway's own: those of its requests and reads, of the chain and *)
(* the clock, and the store transactions the payment watcher runs between  *)
(* them.  PaymentWatcherProofs shows that every step of the whole platform *)
(* is one of these, so one invariant serves both specifications.           *)
(***************************************************************************)
WatcherTransaction ==
  /\ \/ \E height \in Nat : SetChainTip(height)
     \/ \E p : \E now \in Nat : RefreshPayment(p, now)
     \/ \E p, o : UpsertTransaction(p, o)
     \/ \E p, txids : DeleteTransactionsNotIn(p, txids)
  /\ UNCHANGED <<chainVars, gatewayVars>>

RequestsForgotten ==
  /\ ForgetRequests
  /\ UNCHANGED <<storeVars, chainVars, clock, arrived>>

PlatformStep ==
  \/ \E r \in PaymentIds : CreateStep(r)
  \/ \E g \in Readers : GetStep(g)
  \/ ChainStep
  \/ RequestsForgotten
  \/ Tick
  \/ WatcherTransaction
  \/ UNCHANGED vars

LEMMA NextIsAPlatformStep == [Next]_vars => PlatformStep
  BY DEF Next, PlatformStep, Restart, RequestsForgotten

(* Types, those of the chain included.                                     *)
TypeInv ==
  /\ TypeOK
  /\ ChainTypeOK

LEMMA TipIsAHeight == ASSUME TypeInv PROVE tip \in Nat
  BY ChainAssumption DEF TypeInv, ChainTypeOK

LEMMA StatusForIsAStatus ==
  ASSUME NEW requested, NEW received, NEW policy, NEW unconfirmed, NEW expired
  PROVE  StatusFor(requested, received, policy, unconfirmed, expired) \in Statuses
  BY DEF StatusFor, Statuses

(* Whatever the rows are, the evaluation of a payment has a status.        *)
LEMMA EvaluationHasAStatus ==
  ASSUME NEW p, NEW now
  PROVE  EvaluatePersisted(p, now).status \in Statuses
  BY StatusForIsAStatus DEF EvaluatePersisted, EvaluateRows, EvaluateOutputs

(* A new payment's row is a row.                                           *)
LEMMA PaymentRowIsARow ==
  ASSUME NEW r \in PaymentIds, NEW at \in Nat, NEW height \in Nat
  PROVE  /\ PaymentRowOK(PaymentRow(Request[r], at, height))
         /\ PaymentRow(Request[r], at, height).merchant = Request[r].merchant
         /\ PaymentRow(Request[r], at, height).address = Request[r].address
         /\ PaymentRow(Request[r], at, height).reference = Request[r].reference
         /\ PaymentRow(Request[r], at, height).created_at = at
         /\ PaymentRow(Request[r], at, height).created_height = height
         /\ PaymentRow(Request[r], at, height).expires_at = at + Request[r].expires_in
         /\ PaymentRow(Request[r], at, height).version = 1
         /\ PaymentRow(Request[r], at, height).status = "waiting"
  BY GatewayAssumption DEF PaymentRowOK, PaymentRow, PaymentColumns, Statuses, Positions

(* What a refresh may do to the table of payments: nothing, or a new       *)
(* version of one row, whose identity and window stay as they are.         *)
SameIdentity(a, b) ==
  /\ a.merchant = b.merchant
  /\ a.address = b.address
  /\ a.amount = b.amount
  /\ a.reference = b.reference
  /\ a.created_at = b.created_at
  /\ a.created_height = b.created_height
  /\ a.expires_at = b.expires_at

LEMMA RefreshKeepsIdentity ==
  ASSUME TypeOK, NEW p, NEW now \in Nat, RefreshPayment(p, now)
  PROVE  /\ DOMAIN payments' = DOMAIN payments
         /\ \A x \in DOMAIN payments : /\ PaymentRowOK(payments'[x])
                                       /\ SameIdentity(payments'[x], payments[x])
<1>1. CASE UNCHANGED payments
  BY <1>1 DEF TypeOK, SameIdentity
<1>2. CASE payments # payments'
  <2> DEFINE row == payments[p]
             e == EvaluatePersisted(p, now)
             new == [row EXCEPT !.status = e.status, !.received = e.received,
                                !.confirmed = e.confirmed, !.policy = e.policy,
                                !.version = @ + 1, !.updated_at = now]
  <2>1. p \in DOMAIN payments /\ payments' = [payments EXCEPT ![p] = new]
    BY <1>2 DEF RefreshPayment
  <2>2. PaymentRowOK(row)
    BY <2>1 DEF TypeOK
  <2>3. e.status \in Statuses
    BY EvaluationHasAStatus
  <2>4. PaymentRowOK(new) /\ SameIdentity(new, row)
    <3> HIDE DEF row, e
    <3> QED BY <2>2, <2>3 DEF PaymentRowOK, PaymentColumns, SameIdentity, Positions
  <2>5. \A x \in DOMAIN payments : PaymentRowOK(payments[x])
    BY DEF TypeOK
  <2> HIDE DEF new
  <2> QED BY <2>1, <2>4, <2>5 DEF SameIdentity
<1> QED BY <1>1, <1>2

(* What a create does to the tables.                                       *)
LEMMA CreateAddsOnePayment ==
  ASSUME TypeOK, NEW r \in PaymentIds, NEW at \in Nat, NEW height \in Nat,
         NEW txids \in SUBSET Tx,
         CreatePayment(r, Request[r], at, height, txids)
  PROVE  /\ DOMAIN payments' = DOMAIN payments \cup {r}
         /\ payments'[r] = PaymentRow(Request[r], at, height)
         /\ \A x \in DOMAIN payments : x # r => payments'[x] = payments[x]
         /\ baseline' \in [PaymentIds -> SUBSET Tx]
         /\ events' = events \cup {Event(r, 1, "payment.created")}
         /\ chainTip' = chainTip
<1>1. payments' = [x \in DOMAIN payments \cup {r} |->
                     IF x = r THEN PaymentRow(Request[r], at, height) ELSE payments[x]]
  BY DEF CreatePayment
<1>2. baseline' = [baseline EXCEPT ![r] = txids] /\ baseline \in [PaymentIds -> SUBSET Tx]
  BY DEF CreatePayment, TypeOK
<1>3. events' = events \cup {Event(r, 1, "payment.created")} /\ chainTip' = chainTip
  BY DEF CreatePayment, InsertEvent
<1> QED BY <1>1, <1>2, <1>3

-----------------------------------------------------------------------------
(* Types.                                                                  *)

LEMMA InitTypes == Init => TypeInv
<1> SUFFICES ASSUME Init PROVE TypeInv
  OBVIOUS
<1>1. DOMAIN payments = {} /\ idempotencyKeys = {} /\ events = {}
  BY DEF Init, StoreInit
<1>2. baseline \in [PaymentIds -> SUBSET Tx] /\ chainTip \in Nat \cup {None}
  BY DEF Init, StoreInit, None
<1>3. clock \in Nat /\ read \in [Readers -> [pc : {"idle", "refresh"},
                                            payment : PaymentIds \cup {Absent}, at : Nat]]
  BY DEF Init, GatewayInit, IdleRead
<1>4. create \in [PaymentIds -> CreateLocals]
  BY DEF Init, GatewayInit, Local, CreateLocals, CreatePcs, Results
<1>5. arrived \in [Tx -> Nat \cup {None}]
  BY DEF Init, GatewayInit, None
<1>6. ChainTypeOK
  <2>1. lowest = MaxHeight /\ lowest \in 0..MaxHeight /\ chainSteps \in 0..MaxChainSteps
    BY ChainAssumption DEF Init, ChainInit
  <2>2. /\ tip \in 0..MaxHeight /\ evicted \in BOOLEAN
        /\ position \in [Transactions -> {Unknown, InMempool} \cup 1..MaxHeight]
    BY ChainAssumption DEF Init, ChainInit
  <2> QED BY <2>1, <2>2 DEF ChainTypeOK
<1> QED BY <1>1, <1>2, <1>3, <1>4, <1>5, <1>6 DEF TypeInv, TypeOK

LEMMA LocalsTyped ==
  ASSUME NEW c \in CreateLocals, NEW pc \in CreatePcs, NEW n \in Nat,
         NEW txids \in SUBSET Tx
  PROVE  /\ [c EXCEPT !.pc = pc, !.at = n] \in CreateLocals
         /\ [c EXCEPT !.pc = pc, !.height = n] \in CreateLocals
         /\ [c EXCEPT !.pc = pc, !.txids = txids] \in CreateLocals
  BY DEF CreateLocals

LEMMA RespondTyped ==
  ASSUME TypeOK, NEW r \in PaymentIds, NEW result \in Results,
         NEW p \in PaymentIds \cup {Absent}, Respond(r, result, p)
  PROVE  create' \in [PaymentIds -> CreateLocals]
  BY DEF TypeOK, Respond, Local, CreateLocals, CreatePcs

LEMMA GotoTyped ==
  ASSUME TypeOK, NEW r \in PaymentIds, NEW pc \in CreatePcs, Goto(r, pc)
  PROVE  create' \in [PaymentIds -> CreateLocals]
  BY DEF TypeOK, Goto, CreateLocals

(* A known key names a payment.                                            *)
LEMMA ReplayNamesAPayment ==
  ASSUME TypeOK, NEW q, KeyRows(q) # {}
  PROVE  \E k \in KeyRows(q) : ReplayedPayment(q) = k.payment /\ k.payment \in DOMAIN payments
  BY DEF TypeOK, KeyRows, ReplayedPayment

(* The steps of a create request that only touch its local variables.      *)
LEMMA LocalStepTypes ==
  ASSUME TypeInv, NEW r \in PaymentIds,
         CheckReplay(r) \/ CheckReference(r) \/ CheckAddress(r) \/ SnapshotTip(r)
           \/ SnapshotHistory(r) \/ SnapshotFails(r)
  PROVE  TypeInv'
<1> USE DEF TypeInv
<1>1. create' \in [PaymentIds -> CreateLocals]
  <2>1. CASE CheckReplay(r)
    <3>1. CASE Goto(r, "reference")
      BY <3>1, GotoTyped DEF CreatePcs
    <3>2. CASE KeyRows(Request[r]) # {} /\ Respond(r, "replay", ReplayedPayment(Request[r]))
      <4>1. ReplayedPayment(Request[r]) \in PaymentIds
        BY <3>2, ReplayNamesAPayment DEF TypeOK
      <4> QED BY <3>2, <4>1, RespondTyped DEF Results
    <3>3. CASE Respond(r, "idempotency_conflict", Absent)
      BY <3>3, RespondTyped DEF Results
    <3> QED BY <2>1, <3>1, <3>2, <3>3 DEF CheckReplay
  <2>2. CASE CheckReference(r)
    <3>1. CASE Respond(r, "reference_conflict", Absent)
      BY <3>1, RespondTyped DEF Results
    <3>2. CASE create' = [create EXCEPT ![r] = [@ EXCEPT !.pc = "address", !.at = clock]]
      BY <3>2, LocalsTyped DEF TypeOK, CreatePcs
    <3> QED BY <2>2, <3>1, <3>2 DEF CheckReference
  <2>3. CASE CheckAddress(r)
    <3>1. CASE Respond(r, "address_in_use", Absent)
      BY <3>1, RespondTyped DEF Results
    <3>2. CASE Goto(r, "tip")
      BY <3>2, GotoTyped DEF CreatePcs
    <3> QED BY <2>3, <3>1, <3>2 DEF CheckAddress
  <2>4. CASE SnapshotTip(r)
    <3>1. [create[r] EXCEPT !.pc = "history", !.height = tip] \in CreateLocals
      BY TipIsAHeight, LocalsTyped DEF TypeOK, CreatePcs
    <3> QED BY <2>4, <3>1 DEF SnapshotTip, TypeOK
  <2>5. CASE SnapshotHistory(r)
    <3>1. HistoryOf(Request[r].address) \in SUBSET Tx
      BY DEF HistoryOf
    <3>2. [create[r] EXCEPT !.pc = "save_tip", !.txids = HistoryOf(Request[r].address)]
            \in CreateLocals
      BY <3>1, LocalsTyped DEF TypeOK, CreatePcs
    <3> QED BY <2>5, <3>2 DEF SnapshotHistory, TypeOK
  <2>6. CASE SnapshotFails(r)
    BY <2>6, RespondTyped DEF SnapshotFails, Results
  <2> QED BY <2>1, <2>2, <2>3, <2>4, <2>5, <2>6
<1>2. UNCHANGED <<storeVars, chainVars, clock, read, arrived>>
  BY DEF CheckReplay, CheckReference, CheckAddress, SnapshotTip, SnapshotHistory, SnapshotFails
<1> QED BY <1>1, <1>2 DEF TypeOK, ChainTypeOK, storeVars, chainVars

LEMMA SaveTipTypes == ASSUME TypeInv, NEW r \in PaymentIds, SaveTip(r) PROVE TypeInv'
<1>1. create' \in [PaymentIds -> CreateLocals]
  BY GotoTyped DEF SaveTip, TypeInv, CreatePcs
<1>2. chainTip' \in Nat \cup {None}
  BY DEF SaveTip, SetChainTip, TypeInv, TypeOK, CreateLocals
<1>3. UNCHANGED <<payments, idempotencyKeys, baseline, events, chainVars, clock, read, arrived>>
  BY DEF SaveTip, SetChainTip
<1> QED BY <1>1, <1>2, <1>3 DEF TypeInv, TypeOK, ChainTypeOK, chainVars

LEMMA InsertTypes == ASSUME TypeInv, NEW r \in PaymentIds, Insert(r) PROVE TypeInv'
<1>1. UNCHANGED <<chainVars, clock, read, arrived>>
  BY DEF Insert
<1>2. CASE CreatePayment(r, Request[r], create[r].at, create[r].height, create[r].txids)
             /\ Respond(r, "created", r)
  <2>1. create[r].at \in Nat /\ create[r].height \in Nat /\ create[r].txids \in SUBSET Tx
    BY DEF TypeInv, TypeOK, CreateLocals
  <2>2. create' \in [PaymentIds -> CreateLocals]
    BY <1>2, RespondTyped DEF TypeInv, Results
  <2>6. PaymentRowOK(PaymentRow(Request[r], create[r].at, create[r].height))
    BY <2>1, PaymentRowIsARow
  <2>3. /\ DOMAIN payments' = DOMAIN payments \cup {r}
        /\ PaymentRowOK(payments'[r])
        /\ \A x \in DOMAIN payments : x # r => payments'[x] = payments[x]
        /\ baseline' \in [PaymentIds -> SUBSET Tx]
        /\ events' = events \cup {Event(r, 1, "payment.created")}
        /\ chainTip' = chainTip
    BY <1>2, <2>1, <2>6, CreateAddsOnePayment DEF TypeInv
  <2>4. \A k \in idempotencyKeys' : k \in idempotencyKeys \/ k.payment = r
    BY <1>2 DEF CreatePayment
  <2>5. \A e \in events' : e \in events \/ e.payment = r
    BY <2>3 DEF Event
  <2> QED BY <1>1, <2>2, <2>3, <2>4, <2>5 DEF TypeInv, TypeOK, ChainTypeOK, chainVars
<1>3. CASE Respond(r, "replay", ReplayedPayment(Request[r])) /\ UNCHANGED storeVars
             /\ CreateOutcome(Request[r], create[r].at) = "replay"
  <2>1. KeyRows(Request[r]) # {}
    BY <1>3 DEF CreateOutcome
  <2>2. ReplayedPayment(Request[r]) \in PaymentIds
    BY <2>1, ReplayNamesAPayment DEF TypeInv, TypeOK
  <2>3. create' \in [PaymentIds -> CreateLocals]
    BY <1>3, <2>2, RespondTyped DEF TypeInv, Results
  <2> QED BY <1>1, <1>3, <2>3 DEF TypeInv, TypeOK, ChainTypeOK, chainVars, storeVars
<1>4. CASE Respond(r, CreateOutcome(Request[r], create[r].at), Absent) /\ UNCHANGED storeVars
  <2>1. CreateOutcome(Request[r], create[r].at) \in Results
    BY DEF CreateOutcome, Results
  <2>2. create' \in [PaymentIds -> CreateLocals]
    BY <1>4, <2>1, RespondTyped DEF TypeInv
  <2> QED BY <1>1, <1>4, <2>2 DEF TypeInv, TypeOK, ChainTypeOK, chainVars, storeVars
<1> QED BY <1>2, <1>3, <1>4 DEF Insert

LEMMA RefreshTypes ==
  ASSUME TypeInv, NEW p, NEW now \in Nat, RefreshPayment(p, now),
         UNCHANGED <<chainVars, clock, create, arrived>>,
         read' \in [Readers -> [pc : {"idle", "refresh"},
                                payment : PaymentIds \cup {Absent}, at : Nat]]
  PROVE  TypeInv'
<1>1. /\ DOMAIN payments' = DOMAIN payments
      /\ \A x \in DOMAIN payments : PaymentRowOK(payments'[x])
  BY RefreshKeepsIdentity DEF TypeInv
<1>2. \A e \in events' : e \in events \/ e.payment \in DOMAIN payments
  BY DEF RefreshPayment, InsertEvent, Event
<1>3. UNCHANGED <<idempotencyKeys, baseline, chainTip>>
  BY DEF RefreshPayment
<1> QED BY <1>1, <1>2, <1>3 DEF TypeInv, TypeOK, ChainTypeOK, chainVars

LEMMA GetTypes ==
  ASSUME TypeInv, NEW g \in Readers, GetStep(g)
  PROVE  TypeInv'
<1>1. CASE \E p \in PaymentIds : BeginGet(g, p)
  <2>1. read' \in [Readers -> [pc : {"idle", "refresh"},
                              payment : PaymentIds \cup {Absent}, at : Nat]]
    BY <1>1 DEF BeginGet, TypeInv, TypeOK
  <2>2. UNCHANGED <<storeVars, chainVars, clock, create, arrived>>
    BY <1>1 DEF BeginGet
  <2> QED BY <2>1, <2>2 DEF TypeInv, TypeOK, ChainTypeOK, storeVars, chainVars
<1>2. CASE FinishGet(g)
  <2>1. RefreshPayment(read[g].payment, read[g].at) /\ read[g].at \in Nat
    BY <1>2 DEF FinishGet, TypeInv, TypeOK
  <2>2. read' \in [Readers -> [pc : {"idle", "refresh"},
                              payment : PaymentIds \cup {Absent}, at : Nat]]
    BY <1>2 DEF FinishGet, TypeInv, TypeOK, IdleRead
  <2>3. UNCHANGED <<chainVars, clock, create, arrived>>
    BY <1>2 DEF FinishGet
  <2> QED BY <2>1, <2>2, <2>3, RefreshTypes
<1> QED BY <1>1, <1>2 DEF GetStep

LEMMA ChainStepTypes == ASSUME ChainTypeOK, ChainNext PROVE ChainTypeOK'
<1> USE ChainAssumption DEF ChainTypeOK, Unknown, InMempool
<1>1. CASE \E t \in Transactions : Broadcast(t)
  BY <1>1 DEF Broadcast, ChainEvent
<1>2. CASE \E t \in Transactions : Evict(t)
  BY <1>2 DEF Evict, ChainEvent
<1>3. CASE \E mined \in SUBSET Transactions : Mine(mined)
  BY <1>3 DEF Mine, ChainEvent
<1>4. CASE Reorg
  BY <1>4 DEF Reorg, ChainEvent
<1> QED BY <1>1, <1>2, <1>3, <1>4 DEF ChainNext

LEMMA ChainTypes == ASSUME TypeInv, ChainStep PROVE TypeInv'
<1>1. ChainTypeOK'
  BY ChainStepTypes DEF ChainStep, TypeInv
<1>2. arrived' \in [Tx -> Nat \cup {None}]
  BY DEF ChainStep, TypeInv, TypeOK
<1>3. UNCHANGED <<storeVars, clock, create, read>>
  BY DEF ChainStep
<1> QED BY <1>1, <1>2, <1>3 DEF TypeInv, TypeOK, storeVars

LEMMA ForgetTypes == ASSUME TypeInv, RequestsForgotten PROVE TypeInv'
<1>1. create' \in [PaymentIds -> CreateLocals]
  BY DEF RequestsForgotten, ForgetRequests, Local, TypeInv, TypeOK, CreateLocals, CreatePcs, Results
<1>2. read' \in [Readers -> [pc : {"idle", "refresh"},
                            payment : PaymentIds \cup {Absent}, at : Nat]]
  BY DEF RequestsForgotten, ForgetRequests, IdleRead
<1>3. UNCHANGED <<storeVars, chainVars, clock, arrived>>
  BY DEF RequestsForgotten
<1> QED BY <1>1, <1>2, <1>3 DEF TypeInv, TypeOK, ChainTypeOK, storeVars, chainVars

LEMMA WatcherTransactionTypes == ASSUME TypeInv, WatcherTransaction PROVE TypeInv'
<1>1. UNCHANGED <<chainVars, gatewayVars>>
  BY DEF WatcherTransaction
<1>2. CASE \E height \in Nat : SetChainTip(height)
  BY <1>1, <1>2 DEF SetChainTip, TypeInv, TypeOK, ChainTypeOK, chainVars, gatewayVars
<1>3. CASE \E p : \E now \in Nat : RefreshPayment(p, now)
  BY <1>1, <1>3, RefreshTypes DEF gatewayVars, TypeInv, TypeOK
<1>4. CASE \/ \E p, o : UpsertTransaction(p, o)
           \/ \E p, txids : DeleteTransactionsNotIn(p, txids)
  <2>1. UNCHANGED <<payments, idempotencyKeys, baseline, chainTip, events>>
    BY <1>4 DEF UpsertTransaction, DeleteTransactionsNotIn
  <2> QED BY <1>1, <2>1 DEF TypeInv, TypeOK, ChainTypeOK, chainVars, gatewayVars
<1> QED BY <1>2, <1>3, <1>4 DEF WatcherTransaction

LEMMA StepTypes == ASSUME TypeInv, PlatformStep PROVE TypeInv'
<1>1. CASE \E r \in PaymentIds : CreateStep(r)
  BY <1>1, LocalStepTypes, SaveTipTypes, InsertTypes DEF CreateStep
<1>2. CASE \E g \in Readers : GetStep(g)
  BY <1>2, GetTypes
<1>3. CASE ChainStep
  BY <1>3, ChainTypes
<1>4. CASE RequestsForgotten
  BY <1>4, ForgetTypes
<1>5. CASE Tick
  BY <1>5 DEF Tick, TypeInv, TypeOK, ChainTypeOK, storeVars, chainVars
<1>6. CASE WatcherTransaction
  BY <1>6, WatcherTransactionTypes
<1>7. CASE UNCHANGED vars
  BY <1>7 DEF vars, storeVars, chainVars, gatewayVars, TypeInv, TypeOK, ChainTypeOK
<1> QED BY <1>1, <1>2, <1>3, <1>4, <1>5, <1>6, <1>7 DEF PlatformStep

(* Every reachable state is well typed.                                    *)
THEOREM TypeCorrect == Spec => []TypeOK
<1>1. Spec => []TypeInv
  BY InitTypes, NextIsAPlatformStep, StepTypes, PTL DEF Spec
<1>2. TypeInv => TypeOK
  BY DEF TypeInv
<1> QED BY <1>1, <1>2, PTL

-----------------------------------------------------------------------------
(* The inductive invariant.  A request opens at most its own payment, and  *)
(* only as it returns; its row and the row of its key hold what it asked   *)
(* for, and an answer names a payment that a request with the same key and *)
(* the same parameters opened.                                             *)

KeyRowOf(p) ==
  [merchant |-> Request[p].merchant, key |-> Request[p].key,
   hash |-> RequestHash(Request[p]), payment |-> p]

OpenedByReturn ==
  \A p \in DOMAIN payments :
    /\ create[p].pc = "done"
    /\ payments[p].merchant = Request[p].merchant
    /\ payments[p].address = Request[p].address
    /\ payments[p].reference = Request[p].reference

KeysBound ==
  /\ \A p \in DOMAIN payments : Request[p].key # Absent => KeyRowOf(p) \in idempotencyKeys
  /\ \A k \in idempotencyKeys : k = KeyRowOf(k.payment) /\ k.key # Absent

KeysUnique ==
  \A p, q \in DOMAIN payments :
    /\ Request[p].merchant = Request[q].merchant
    /\ Request[p].key = Request[q].key
    /\ Request[p].key # Absent
    => p = q

AnswersBound ==
  \A r \in PaymentIds :
    Answered(r) =>
      LET p == create[r].payment
      IN  /\ p \in DOMAIN payments
          /\ p # r => /\ Request[p].merchant = Request[r].merchant
                      /\ Request[p].key = Request[r].key
                      /\ RequestHash(Request[p]) = RequestHash(Request[r])

IInv ==
  /\ TypeInv
  /\ OpenedByReturn
  /\ KeysBound
  /\ KeysUnique
  /\ AnswersBound
  /\ WindowsDisjoint
  /\ OnePaymentPerReference

LEMMA InitIInv == Init => IInv
<1> SUFFICES ASSUME Init PROVE IInv
  OBVIOUS
<1>1. TypeInv
  BY InitTypes
<1>2. DOMAIN payments = {} /\ idempotencyKeys = {}
  BY DEF Init, StoreInit
<1>3. \A r \in PaymentIds : ~Answered(r)
  BY DEF Init, GatewayInit, Local, Answered
<1> QED BY <1>1, <1>2, <1>3 DEF IInv, OpenedByReturn, KeysBound, KeysUnique,
                                AnswersBound, WindowsDisjoint, OnePaymentPerReference

(* The invariant depends on the identity of the payments, the keys and the *)
(* answers only.                                                           *)
LEMMA IInvKept ==
  ASSUME IInv, TypeInv', UNCHANGED idempotencyKeys,
         DOMAIN payments' = DOMAIN payments,
         \A p \in DOMAIN payments : SameIdentity(payments'[p], payments[p]),
         \A p \in DOMAIN payments : create'[p].pc = "done",
         AnswersBound'
  PROVE  IInv'
<1>1. OpenedByReturn'
  BY DEF IInv, OpenedByReturn, SameIdentity
<1>2. KeysBound' /\ KeysUnique'
  BY DEF IInv, KeysBound, KeysUnique, KeyRowOf
<1>3. WindowsDisjoint'
  BY DEF IInv, WindowsDisjoint, SameIdentity
<1>4. OnePaymentPerReference'
  BY DEF IInv, OnePaymentPerReference, SameIdentity
<1> QED BY <1>1, <1>2, <1>3, <1>4 DEF IInv

(* A request that has not returned has opened no payment, and its return   *)
(* disturbs no other answer.                                               *)
LEMMA LocalStepKeepsIInv ==
  ASSUME IInv, TypeInv', NEW r \in PaymentIds, create[r].pc # "done",
         NEW c \in CreateLocals, create' = [create EXCEPT ![r] = c],
         c.result \in {"created", "replay"} => c.result = create[r].result
           /\ c.payment = create[r].payment,
         UNCHANGED <<payments, idempotencyKeys>>
  PROVE  IInv'
<1>1. r \notin DOMAIN payments
  BY DEF IInv, OpenedByReturn
<1>2. create \in [PaymentIds -> CreateLocals] /\ DOMAIN payments \subseteq PaymentIds
  BY DEF IInv, TypeInv, TypeOK
<1>3. \A p \in DOMAIN payments : create'[p].pc = "done"
  BY <1>1, <1>2 DEF IInv, OpenedByReturn
<1>4. AnswersBound'
  BY <1>2 DEF IInv, AnswersBound, Answered
<1> QED BY <1>3, <1>4, IInvKept DEF SameIdentity

(* What Respond makes of the local variables.                              *)
LEMMA ReplayKeepsIInv ==
  ASSUME IInv, TypeInv', NEW r \in PaymentIds, create[r].pc # "done",
         KeyRows(Request[r]) # {}, ~KeyConflict(Request[r]),
         Respond(r, "replay", ReplayedPayment(Request[r])),
         UNCHANGED <<payments, idempotencyKeys>>
  PROVE  IInv'
<1> DEFINE q == Request[r]
           p == ReplayedPayment(q)
<1>1. r \notin DOMAIN payments
  BY DEF IInv, OpenedByReturn
<1>2. create \in [PaymentIds -> CreateLocals] /\ DOMAIN payments \subseteq PaymentIds
  BY DEF IInv, TypeInv, TypeOK
<1>3. create'[r].payment = p /\ \A s \in PaymentIds : s # r => create'[s] = create[s]
  BY <1>2 DEF Respond, Local
<1>4. PICK k \in KeyRows(q) : p = k.payment /\ k.payment \in DOMAIN payments
  BY ReplayNamesAPayment DEF IInv, TypeInv
<1>5. k \in idempotencyKeys /\ k.merchant = q.merchant /\ k.key = q.key
  BY <1>4 DEF KeyRows
<1>6. k.hash = RequestHash(q)
  BY <1>4 DEF KeyConflict
<1>7. k = KeyRowOf(p)
  BY <1>4, <1>5 DEF IInv, KeysBound
<1>8. /\ Request[p].merchant = q.merchant
      /\ Request[p].key = q.key
      /\ RequestHash(Request[p]) = RequestHash(q)
  BY <1>5, <1>6, <1>7 DEF KeyRowOf
<1>9. AnswersBound'
  <2> HIDE DEF p, q
  <2>1. \A s \in PaymentIds : s # r /\ Answered(s)' => Answered(s)
    BY <1>3 DEF Answered
  <2>2. p \in DOMAIN payments'
    BY <1>4
  <2> QED BY <1>3, <1>8, <2>1, <2>2 DEF IInv, AnswersBound, q
<1>10. \A x \in DOMAIN payments : create'[x].pc = "done"
  BY <1>1, <1>2, <1>3 DEF IInv, OpenedByReturn
<1> QED BY <1>9, <1>10, IInvKept DEF SameIdentity

(* A payment is inserted only with a key no row has, a reference no        *)
(* payment of the merchant has, and a window after every other one.        *)
LEMMA CreateKeepsIInv ==
  ASSUME IInv, TypeInv', NEW r \in PaymentIds, create[r].pc = "insert",
         CreatePayment(r, Request[r], create[r].at, create[r].height, create[r].txids),
         Respond(r, "created", r)
  PROVE  IInv'
<1> DEFINE q == Request[r]
           at == create[r].at
<1>1. /\ create \in [PaymentIds -> CreateLocals]
      /\ DOMAIN payments \subseteq PaymentIds
      /\ at \in Nat /\ create[r].height \in Nat /\ create[r].txids \in SUBSET Tx
      /\ q.expires_in \in Nat
      /\ TypeOK
  BY GatewayAssumption DEF IInv, TypeInv, TypeOK, CreateLocals
<1>2. r \notin DOMAIN payments
  BY DEF IInv, OpenedByReturn
<1>3. /\ create'[r].pc = "done" /\ create'[r].payment = r
      /\ \A s \in PaymentIds : s # r => create'[s] = create[s]
  BY <1>1 DEF Respond, Local
<1>4. /\ DOMAIN payments' = DOMAIN payments \cup {r}
      /\ payments'[r] = PaymentRow(q, at, create[r].height)
      /\ \A x \in DOMAIN payments : payments'[x] = payments[x]
  BY <1>1, <1>2, CreateAddsOnePayment
<1>5. /\ payments'[r].merchant = q.merchant
      /\ payments'[r].address = q.address
      /\ payments'[r].reference = q.reference
      /\ payments'[r].created_at = at
      /\ payments'[r].expires_at \in Nat
  BY <1>1, <1>4, PaymentRowIsARow
<1>6. /\ q.key = Absent \/ KeyRows(q) = {}
      /\ ~ReferenceTaken(q)
      /\ ~AddressInUse(q, at)
  <2>1. CreateOutcome(q, at) = "created"
    BY DEF CreatePayment
  <2> HIDE DEF q, at
  <2> QED BY <2>1 DEF CreateOutcome
<1>7. idempotencyKeys' = IF q.key = Absent THEN idempotencyKeys
                         ELSE idempotencyKeys \cup {KeyRowOf(r)}
  BY DEF CreatePayment, KeyRowOf
<1>8. OpenedByReturn'
  BY <1>1, <1>2, <1>3, <1>4, <1>5 DEF IInv, OpenedByReturn
<1>9. KeysBound'
  <2>1. \A p \in DOMAIN payments' : Request[p].key # Absent => KeyRowOf(p) \in idempotencyKeys'
    BY <1>4, <1>7 DEF IInv, KeysBound
  <2>2. \A k \in idempotencyKeys' : k = KeyRowOf(k.payment) /\ k.key # Absent
    <3>1. KeyRowOf(r).payment = r /\ KeyRowOf(r).key = q.key
      BY DEF KeyRowOf
    <3>2. \A k \in idempotencyKeys : k = KeyRowOf(k.payment) /\ k.key # Absent
      BY DEF IInv, KeysBound
    <3> QED BY <1>7, <3>1, <3>2
  <2>3. \A p : KeyRowOf(p)' = KeyRowOf(p)
    BY DEF KeyRowOf, RequestHash
  <2> QED BY <2>1, <2>2, <2>3 DEF KeysBound
<1>10. KeysUnique'
  <2>1. \A p \in DOMAIN payments : ~ /\ Request[p].merchant = q.merchant
                                     /\ Request[p].key = q.key
                                     /\ q.key # Absent
    <3>1. SUFFICES ASSUME NEW p \in DOMAIN payments, Request[p].merchant = q.merchant,
                          Request[p].key = q.key, q.key # Absent
                   PROVE  FALSE
      OBVIOUS
    <3>2. KeyRowOf(p) \in idempotencyKeys
      BY <3>1 DEF IInv, KeysBound
    <3>3. KeyRowOf(p) \in KeyRows(q)
      BY <3>1, <3>2 DEF KeyRows, KeyRowOf
    <3> QED BY <1>6, <3>1, <3>3
  <2> QED BY <1>4, <2>1 DEF IInv, KeysUnique
<1>11. AnswersBound'
  <2>1. \A s \in PaymentIds : s # r /\ Answered(s)' => Answered(s)
    BY <1>3 DEF Answered
  <2> QED BY <1>3, <1>4, <2>1 DEF IInv, AnswersBound
<1>12. WindowsDisjoint'
  <2>1. \A x \in DOMAIN payments :
          payments[x].address = q.address => payments[x].expires_at < at
    <3>1. \A x \in DOMAIN payments : payments[x].expires_at \in Nat
      BY <1>1 DEF TypeOK, PaymentRowOK
    <3> QED BY <1>1, <1>6, <3>1 DEF AddressInUse
  <2> QED BY <1>2, <1>4, <1>5, <2>1 DEF IInv, WindowsDisjoint
<1>13. OnePaymentPerReference'
  <2>1. \A x \in DOMAIN payments : payments[x].merchant = q.merchant
          /\ payments[x].reference = q.reference => q.reference = Absent
    BY <1>6 DEF ReferenceTaken
  <2> QED BY <1>4, <1>5, <2>1 DEF IInv, OnePaymentPerReference
<1> QED BY <1>8, <1>9, <1>10, <1>11, <1>12, <1>13 DEF IInv

LEMMA CreateStepKeepsIInv ==
  ASSUME IInv, TypeInv', NEW r \in PaymentIds, CreateStep(r)
  PROVE  IInv'
<1>1. create \in [PaymentIds -> CreateLocals] /\ clock \in Nat /\ tip \in Nat
  BY TipIsAHeight DEF IInv, TypeInv, TypeOK
<1>2. ASSUME NEW result \in Results \ {"created", "replay"}, create[r].pc # "done",
             Respond(r, result, Absent), UNCHANGED <<payments, idempotencyKeys>>
      PROVE  IInv'
  <2>1. Local("done", result, Absent) \in CreateLocals
    BY DEF Local, CreateLocals, CreatePcs
  <2>2. Local("done", result, Absent).result \notin {"created", "replay"}
    BY DEF Local
  <2> QED BY <1>2, <2>1, <2>2, LocalStepKeepsIInv DEF Respond
<1>3. ASSUME NEW pc \in CreatePcs, create[r].pc # "done", Goto(r, pc),
             UNCHANGED <<payments, idempotencyKeys>>
      PROVE  IInv'
  <2>1. [create[r] EXCEPT !.pc = pc] \in CreateLocals
        /\ [create[r] EXCEPT !.pc = pc].result = create[r].result
        /\ [create[r] EXCEPT !.pc = pc].payment = create[r].payment
    BY <1>1 DEF CreateLocals
  <2> QED BY <1>3, <2>1, LocalStepKeepsIInv DEF Goto
<1>4. CASE CheckReplay(r)
  <2>1. create[r].pc # "done" /\ UNCHANGED <<payments, idempotencyKeys>>
    BY <1>4 DEF CheckReplay, storeVars
  <2>2. CASE Goto(r, "reference")
    BY <1>3, <2>1, <2>2 DEF CreatePcs
  <2>3. CASE /\ KeyRows(Request[r]) # {} /\ ~KeyConflict(Request[r])
             /\ Respond(r, "replay", ReplayedPayment(Request[r]))
    BY <2>1, <2>3, ReplayKeepsIInv
  <2>4. CASE Respond(r, "idempotency_conflict", Absent)
    BY <1>2, <2>1, <2>4 DEF Results
  <2> QED BY <1>4, <2>2, <2>3, <2>4 DEF CheckReplay
<1>5. CASE CheckReference(r)
  <2>1. create[r].pc # "done" /\ UNCHANGED <<payments, idempotencyKeys>>
    BY <1>5 DEF CheckReference, storeVars
  <2>2. CASE Respond(r, "reference_conflict", Absent)
    BY <1>2, <2>1, <2>2 DEF Results
  <2>3. CASE create' = [create EXCEPT ![r] = [@ EXCEPT !.pc = "address", !.at = clock]]
    <3> DEFINE c == [create[r] EXCEPT !.pc = "address", !.at = clock]
    <3>1. c \in CreateLocals /\ c.result = create[r].result /\ c.payment = create[r].payment
      BY <1>1 DEF CreateLocals, CreatePcs
    <3>2. create' = [create EXCEPT ![r] = c]
      BY <2>3
    <3> HIDE DEF c
    <3> QED BY <2>1, <3>1, <3>2, LocalStepKeepsIInv
  <2> QED BY <1>5, <2>2, <2>3 DEF CheckReference
<1>6. CASE CheckAddress(r)
  <2>1. create[r].pc # "done" /\ UNCHANGED <<payments, idempotencyKeys>>
    BY <1>6 DEF CheckAddress, storeVars
  <2>2. CASE Respond(r, "address_in_use", Absent)
    BY <1>2, <2>1, <2>2 DEF Results
  <2>3. CASE Goto(r, "tip")
    BY <1>3, <2>1, <2>3 DEF CreatePcs
  <2> QED BY <1>6, <2>2, <2>3 DEF CheckAddress
<1>7. CASE SnapshotTip(r)
  <2>1. create[r].pc # "done" /\ UNCHANGED <<payments, idempotencyKeys>>
    BY <1>7 DEF SnapshotTip, storeVars
  <2> DEFINE c == [create[r] EXCEPT !.pc = "history", !.height = tip]
  <2>2. c \in CreateLocals /\ c.result = create[r].result /\ c.payment = create[r].payment
    BY <1>1 DEF CreateLocals, CreatePcs
  <2>3. create' = [create EXCEPT ![r] = c]
    BY <1>7 DEF SnapshotTip
  <2> HIDE DEF c
  <2> QED BY <2>1, <2>2, <2>3, LocalStepKeepsIInv
<1>8. CASE SnapshotHistory(r)
  <2>1. create[r].pc # "done" /\ UNCHANGED <<payments, idempotencyKeys>>
    BY <1>8 DEF SnapshotHistory, storeVars
  <2> DEFINE c == [create[r] EXCEPT !.pc = "save_tip", !.txids = HistoryOf(Request[r].address)]
  <2>2. HistoryOf(Request[r].address) \in SUBSET Tx
    BY DEF HistoryOf
  <2>3. c \in CreateLocals /\ c.result = create[r].result /\ c.payment = create[r].payment
    BY <1>1, <2>2 DEF CreateLocals, CreatePcs
  <2>4. create' = [create EXCEPT ![r] = c]
    BY <1>8 DEF SnapshotHistory
  <2> HIDE DEF c
  <2> QED BY <2>1, <2>3, <2>4, LocalStepKeepsIInv
<1>9. CASE SnapshotFails(r)
  BY <1>2, <1>9 DEF SnapshotFails, storeVars, Results
<1>10. CASE SaveTip(r)
  BY <1>3, <1>10 DEF SaveTip, SetChainTip, CreatePcs
<1>11. CASE Insert(r)
  <2> DEFINE outcome == CreateOutcome(Request[r], create[r].at)
  <2>1. create[r].pc = "insert"
    BY <1>11 DEF Insert
  <2>2. CASE CreatePayment(r, Request[r], create[r].at, create[r].height, create[r].txids)
               /\ Respond(r, "created", r)
    BY <2>1, <2>2, CreateKeepsIInv
  <2>3. CASE /\ outcome = "replay"
             /\ Respond(r, "replay", ReplayedPayment(Request[r])) /\ UNCHANGED storeVars
    <3>1. KeyRows(Request[r]) # {} /\ ~KeyConflict(Request[r])
      BY <2>3 DEF CreateOutcome
    <3> QED BY <2>1, <2>3, <3>1, ReplayKeepsIInv DEF storeVars
  <2>4. CASE /\ outcome \notin {"created", "replay"}
             /\ Respond(r, outcome, Absent) /\ UNCHANGED storeVars
    <3>1. outcome \in Results \ {"created", "replay"}
      BY <2>4 DEF CreateOutcome, Results
    <3> HIDE DEF outcome
    <3> QED BY <1>2, <2>1, <2>4, <3>1 DEF storeVars
  <2> QED BY <1>11, <2>2, <2>3, <2>4 DEF Insert
<1> QED BY <1>4, <1>5, <1>6, <1>7, <1>8, <1>9, <1>10, <1>11 DEF CreateStep

(* A refresh gives a payment a new version and nothing else; a restart     *)
(* forgets only requests that have not returned.                           *)
LEMMA RefreshKeepsIInv ==
  ASSUME IInv, TypeInv', NEW p, NEW now \in Nat, RefreshPayment(p, now), UNCHANGED create
  PROVE  IInv'
<1>1. /\ DOMAIN payments' = DOMAIN payments
      /\ \A x \in DOMAIN payments : SameIdentity(payments'[x], payments[x])
  BY RefreshKeepsIdentity DEF IInv, TypeInv
<1>2. UNCHANGED idempotencyKeys
  BY DEF RefreshPayment
<1>3. AnswersBound'
  BY <1>1, <1>2 DEF IInv, AnswersBound, Answered
<1>4. \A x \in DOMAIN payments : create'[x].pc = "done"
  BY DEF IInv, OpenedByReturn
<1> QED BY <1>1, <1>2, <1>3, <1>4, IInvKept

LEMMA StepIInv == ASSUME IInv, PlatformStep PROVE IInv'
<1>1. TypeInv'
  BY StepTypes DEF IInv
<1>2. ASSUME UNCHANGED <<payments, idempotencyKeys, create>> PROVE IInv'
  <2>1. AnswersBound'
    BY <1>2 DEF IInv, AnswersBound, Answered
  <2>2. \A p \in DOMAIN payments : create'[p].pc = "done"
    BY <1>2 DEF IInv, OpenedByReturn
  <2> QED BY <1>1, <1>2, <2>1, <2>2, IInvKept DEF SameIdentity
<1>3. CASE \E r \in PaymentIds : CreateStep(r)
  BY <1>1, <1>3, CreateStepKeepsIInv
<1>4. CASE \E g \in Readers, p \in PaymentIds : BeginGet(g, p)
  BY <1>2, <1>4 DEF BeginGet, storeVars
<1>5. CASE \E g \in Readers : FinishGet(g)
  <2> PICK g \in Readers : FinishGet(g)
    BY <1>5
  <2>1. RefreshPayment(read[g].payment, read[g].at) /\ read[g].at \in Nat /\ UNCHANGED create
    BY DEF FinishGet, IInv, TypeInv, TypeOK
  <2> QED BY <1>1, <2>1, RefreshKeepsIInv
<1>6. CASE ChainStep
  BY <1>2, <1>6 DEF ChainStep, storeVars
<1>7. CASE RequestsForgotten
  <2>1. UNCHANGED <<payments, idempotencyKeys>>
    BY <1>7 DEF RequestsForgotten, storeVars
  <2>2. \A r \in PaymentIds : \/ create'[r] = create[r]
                              \/ /\ create[r].pc # "done"
                                 /\ create'[r].result = "lost"
    BY <1>7 DEF RequestsForgotten, ForgetRequests, InFlight, Local
  <2>3. AnswersBound'
    BY <2>1, <2>2 DEF IInv, AnswersBound, Answered
  <2>4. \A p \in DOMAIN payments : create'[p].pc = "done"
    BY <2>2 DEF IInv, OpenedByReturn, TypeInv, TypeOK
  <2> QED BY <1>1, <2>1, <2>3, <2>4, IInvKept DEF SameIdentity
<1>8. CASE Tick
  BY <1>2, <1>8 DEF Tick, storeVars
<1>9. CASE WatcherTransaction
  <2>1. UNCHANGED create
    BY <1>9 DEF WatcherTransaction, gatewayVars
  <2>2. CASE \E p : \E now \in Nat : RefreshPayment(p, now)
    BY <1>1, <2>1, <2>2, RefreshKeepsIInv
  <2>3. CASE \/ \E height \in Nat : SetChainTip(height)
             \/ \E p, o : UpsertTransaction(p, o)
             \/ \E p, txids : DeleteTransactionsNotIn(p, txids)
    BY <1>2, <2>1, <2>3 DEF SetChainTip, UpsertTransaction, DeleteTransactionsNotIn
  <2> QED BY <1>9, <2>2, <2>3 DEF WatcherTransaction
<1>10. CASE UNCHANGED vars
  BY <1>2, <1>10 DEF vars, storeVars, gatewayVars
<1> QED BY <1>3, <1>4, <1>5, <1>6, <1>7, <1>8, <1>9, <1>10 DEF PlatformStep, GetStep

LEMMA Inductive == Spec => []IInv
  BY InitIInv, NextIsAPlatformStep, StepIInv, PTL DEF Spec

(* However many requests run at once, and whatever they were told before   *)
(* their awaits, no two payments share an address at one time: the window  *)
(* exclusivity that create_payment checks under BEGIN IMMEDIATE.           *)
THEOREM WindowsNeverOverlap == Spec => []WindowsDisjoint
<1>1. IInv => WindowsDisjoint
  BY DEF IInv
<1> QED BY <1>1, Inductive, PTL

(* A merchant reference names at most one payment of its merchant.         *)
THEOREM ReferencesNameOnePayment == Spec => []OnePaymentPerReference
<1>1. IInv => OnePaymentPerReference
  BY DEF IInv
<1> QED BY <1>1, Inductive, PTL

(* Two requests answered under one key are answered with the payment that  *)
(* opened it.                                                              *)
LEMMA IInvBindsKeys == IInv => OnePaymentPerKey
<1> SUFFICES ASSUME IInv PROVE OnePaymentPerKey
  OBVIOUS
<1>1. KeysUnique
  BY DEF IInv
<1>2. ASSUME NEW r \in PaymentIds, NEW s \in PaymentIds, Answered(r), Answered(s),
             Request[r].merchant = Request[s].merchant,
             Request[r].key = Request[s].key,
             Request[r].key # Absent
      PROVE  /\ create[r].payment = create[s].payment
             /\ RequestHash(Request[r]) = RequestHash(Request[s])
  <2> DEFINE p == create[r].payment
             q == create[s].payment
  <2>1. /\ p \in DOMAIN payments
        /\ Request[p].merchant = Request[r].merchant
        /\ Request[p].key = Request[r].key
        /\ RequestHash(Request[p]) = RequestHash(Request[r])
    BY <1>2 DEF IInv, AnswersBound
  <2>2. /\ q \in DOMAIN payments
        /\ Request[q].merchant = Request[s].merchant
        /\ Request[q].key = Request[s].key
        /\ RequestHash(Request[q]) = RequestHash(Request[s])
    BY <1>2 DEF IInv, AnswersBound
  <2>3. p = q
    BY <1>1, <1>2, <2>1, <2>2 DEF KeysUnique
  <2> QED BY <2>1, <2>2, <2>3
<1> QED BY <1>1, <1>2 DEF OnePaymentPerKey, KeysUnique

(* An idempotency key opens at most one payment, and every request that is *)
(* answered under it is answered with that payment.                        *)
THEOREM KeysOpenOnePayment == Spec => []OnePaymentPerKey
  BY IInvBindsKeys, Inductive, PTL

-----------------------------------------------------------------------------
(* Events and deliveries.                                                  *)

(* What a refresh that finds a change does: one more version, its event    *)
(* and the deliveries of that event.                                       *)
NewVersion(p, now) ==
  /\ p \in DOMAIN payments
  /\ DOMAIN payments' = DOMAIN payments
  /\ \A x \in DOMAIN payments : x # p => payments'[x] = payments[x]
  /\ SameIdentity(payments'[p], payments[p])
  /\ payments'[p].version = payments[p].version + 1
  /\ payments'[p].status = EvaluatePersisted(p, now).status
  /\ payments'[p].status \in Statuses
  /\ InsertEvent(Event(p, payments'[p].version, EventType(payments'[p].status)),
                 payments[p].merchant, now)
  /\ UNCHANGED <<idempotencyKeys, baseline, transactions, chainTip, endpoints>>

LEMMA RefreshIsANewVersion ==
  ASSUME TypeOK, NEW p, NEW now \in Nat, RefreshPayment(p, now)
  PROVE  UNCHANGED storeVars \/ NewVersion(p, now)
<1> DEFINE row == payments[p]
           e == EvaluatePersisted(p, now)
           new == [row EXCEPT !.status = e.status, !.received = e.received,
                              !.confirmed = e.confirmed, !.policy = e.policy,
                              !.version = @ + 1, !.updated_at = now]
<1>1. p \in DOMAIN payments
  BY DEF RefreshPayment
<1>2. UNCHANGED <<idempotencyKeys, baseline, transactions, chainTip, endpoints>>
  BY DEF RefreshPayment
<1>3. CASE UNCHANGED <<payments, events, deliveries>>
  BY <1>2, <1>3 DEF storeVars
<1>4. CASE /\ payments' = [payments EXCEPT ![p] = new]
           /\ InsertEvent(Event(p, row.version + 1, EventType(e.status)), row.merchant, now)
  <2>1. PaymentRowOK(row)
    BY <1>1 DEF TypeOK
  <2>2. new.version = row.version + 1 /\ new.status = e.status
    <3> HIDE DEF row, e
    <3> QED BY <2>1 DEF PaymentRowOK, PaymentColumns
  <2>3. e.status \in Statuses
    BY EvaluationHasAStatus
  <2>4. SameIdentity(new, row)
    <3> HIDE DEF row, e
    <3> QED BY <2>1 DEF PaymentRowOK, PaymentColumns, SameIdentity
  <2>5. /\ DOMAIN payments' = DOMAIN payments
        /\ \A x \in DOMAIN payments : x # p => payments'[x] = payments[x]
        /\ payments'[p] = new
    <3> HIDE DEF new
    <3> QED BY <1>1, <1>4
  <2>6. InsertEvent(Event(p, new.version, EventType(new.status)), row.merchant, now)
    BY <1>4, <2>2
  <2>7. new.status = EvaluatePersisted(p, now).status
    BY <2>2
  <2> HIDE DEF new, e
  <2> QED BY <1>1, <1>2, <2>2, <2>3, <2>4, <2>5, <2>6, <2>7 DEF NewVersion
<1> QED BY <1>3, <1>4 DEF RefreshPayment

(* The one insert of a create request.                                     *)
Opens(r) ==
  /\ r \in PaymentIds \ DOMAIN payments
  /\ create[r].pc = "insert"
  /\ CreatePayment(r, Request[r], create[r].at, create[r].height, create[r].txids)

TablesOfRecord == <<payments, baseline, events, endpoints, deliveries>>

(* What a step may do to the payments, their events and their deliveries:  *)
(* open a payment, give one a new version, or nothing.                     *)
LEMMA StepEffects ==
  ASSUME IInv, PlatformStep
  PROVE  \/ UNCHANGED TablesOfRecord
         \/ \E r \in PaymentIds : Opens(r)
         \/ \E p : \E now \in Nat : NewVersion(p, now)
<1> USE DEF storeVars, TablesOfRecord
<1>1. ASSUME NEW p, NEW now \in Nat, RefreshPayment(p, now)
      PROVE  UNCHANGED TablesOfRecord \/ NewVersion(p, now)
  BY <1>1, RefreshIsANewVersion DEF IInv, TypeInv
<1>2. ASSUME NEW r \in PaymentIds, CreateStep(r) PROVE UNCHANGED TablesOfRecord \/ Opens(r)
  <2>1. CASE Insert(r)
    <3>1. create[r].pc = "insert" /\ r \notin DOMAIN payments
      BY <2>1 DEF Insert, IInv, OpenedByReturn
    <3>2. \/ UNCHANGED storeVars
          \/ CreatePayment(r, Request[r], create[r].at, create[r].height, create[r].txids)
      BY <2>1 DEF Insert
    <3> QED BY <3>1, <3>2 DEF Opens
  <2>2. CASE SaveTip(r)
    BY <2>2 DEF SaveTip, SetChainTip
  <2>3. CASE ~Insert(r) /\ ~SaveTip(r)
    BY <1>2, <2>3 DEF CreateStep, CheckReplay, CheckReference, CheckAddress, SnapshotTip,
                      SnapshotHistory, SnapshotFails
  <2> QED BY <2>1, <2>2, <2>3
<1>3. ASSUME NEW g \in Readers, GetStep(g)
      PROVE  UNCHANGED TablesOfRecord \/ \E p : \E now \in Nat : NewVersion(p, now)
  <2>1. CASE \E p \in PaymentIds : BeginGet(g, p)
    BY <2>1 DEF BeginGet
  <2>2. CASE FinishGet(g)
    <3>1. RefreshPayment(read[g].payment, read[g].at) /\ read[g].at \in Nat
      BY <2>2 DEF FinishGet, IInv, TypeInv, TypeOK
    <3> QED BY <1>1, <3>1
  <2> QED BY <1>3, <2>1, <2>2 DEF GetStep
<1>4. CASE WatcherTransaction
  <2>1. CASE \E p : \E now \in Nat : RefreshPayment(p, now)
    BY <1>1, <2>1
  <2> QED BY <1>4, <2>1 DEF WatcherTransaction, SetChainTip, UpsertTransaction,
                            DeleteTransactionsNotIn
<1>5. CASE ChainStep \/ RequestsForgotten \/ Tick \/ UNCHANGED vars
  BY <1>5 DEF ChainStep, RequestsForgotten, Tick, vars
<1> QED BY <1>2, <1>3, <1>4, <1>5 DEF PlatformStep

(* DeliveriesMatchEvents, row by row, with the events that deliveries are  *)
(* of.                                                                     *)
Owed(e, v) ==
  /\ v.enabled
  /\ v.merchant = payments[e.payment].merchant
  /\ e.type \in v.types

DeliveriesOwed ==
  /\ \A d, f \in deliveries : d.event = f.event /\ d.endpoint = f.endpoint => d = f
  /\ \A d \in deliveries :
       d.event \in events /\ \E v \in endpoints : v.id = d.endpoint /\ Owed(d.event, v)
  /\ \A e \in events, v \in endpoints :
       Owed(e, v) => \E d \in deliveries : d.event = e /\ d.endpoint = v.id

LEMMA DeliveriesRowByRow == DeliveriesOwed => DeliveriesMatchEvents
<1> SUFFICES ASSUME DeliveriesOwed PROVE DeliveriesMatchEvents
  OBVIOUS
<1> DEFINE D == { <<d.event, d.endpoint>> : d \in deliveries }
           E == { x \in events \X endpoints : Owed(x[1], x[2]) }
           F == { <<y[1], y[2].id>> : y \in E }
<1>1. ASSUME NEW x \in D PROVE x \in F
  <2>1. PICK d \in deliveries : x = <<d.event, d.endpoint>>
    BY <1>1
  <2>2. PICK v \in endpoints : v.id = d.endpoint /\ Owed(d.event, v)
    BY DEF DeliveriesOwed
  <2>3. <<d.event, v>> \in E
    BY <2>2 DEF DeliveriesOwed
  <2> QED BY <2>1, <2>2, <2>3
<1>2. ASSUME NEW x \in F PROVE x \in D
  <2>1. PICK y \in E : x = <<y[1], y[2].id>>
    BY <1>2
  <2>2. y[1] \in events /\ y[2] \in endpoints /\ Owed(y[1], y[2])
    OBVIOUS
  <2>3. PICK d \in deliveries : d.event = y[1] /\ d.endpoint = y[2].id
    BY <2>2 DEF DeliveriesOwed
  <2> QED BY <2>1, <2>3
<1>3. D = F
  <2> HIDE DEF D, F
  <2> QED BY <1>1, <1>2
<1> QED BY <1>3 DEF DeliveriesMatchEvents, DeliveriesOwed, Owed

EventsInv ==
  /\ IInv
  /\ EventsMatchVersions
  /\ DeliveriesOwed

(* A new event of a payment gets its deliveries and disturbs no other.     *)
LEMMA InsertOwes ==
  ASSUME EventsInv, NEW e, NEW merchant, NEW at, InsertEvent(e, merchant, at),
         e \notin events, e.payment \in DOMAIN payments',
         payments'[e.payment].merchant = merchant,
         \A x \in DOMAIN payments : /\ x \in DOMAIN payments'
                                    /\ payments'[x].merchant = payments[x].merchant,
         UNCHANGED endpoints
  PROVE  DeliveriesOwed'
<1> DEFINE new == DeliveriesOf(e, merchant, at)
<1>1. events' = events \cup {e} /\ deliveries' = deliveries \cup new
  BY DEF InsertEvent
<1>2. \A d \in new : d.event = e /\ \E v \in endpoints : v.id = d.endpoint /\ Owed(e, v)'
  BY DEF DeliveriesOf, Owed
<1>3. \A d, f \in new : d.endpoint = f.endpoint => d = f
  BY DEF DeliveriesOf
<1>4. \A v \in endpoints : Owed(e, v)' => \E d \in new : d.endpoint = v.id
  <2> SUFFICES ASSUME NEW v \in endpoints, Owed(e, v)'
               PROVE  \E d \in new : d.endpoint = v.id
    OBVIOUS
  <2>1. v \in { u \in endpoints : u.enabled /\ u.merchant = merchant /\ e.type \in u.types }
    BY DEF Owed
  <2> DEFINE d == [event |-> e, endpoint |-> v.id, status |-> "pending", attempts |-> 0,
                   due |-> at]
  <2>2. d \in new /\ d.endpoint = v.id
    BY <2>1 DEF DeliveriesOf
  <2> QED BY <2>2
<1>5. \A f \in events : f.payment \in DOMAIN payments
                        /\ \A v : Owed(f, v)' <=> Owed(f, v)
  BY DEF Owed, EventsInv, IInv, TypeInv, TypeOK
<1> HIDE DEF new
<1>6. \A d, f \in deliveries' : d.event = f.event /\ d.endpoint = f.endpoint => d = f
  BY <1>1, <1>2, <1>3 DEF EventsInv, DeliveriesOwed
<1>7. \A d \in deliveries' :
        d.event \in events' /\ \E v \in endpoints : v.id = d.endpoint /\ Owed(d.event, v)'
  BY <1>1, <1>2, <1>5 DEF EventsInv, DeliveriesOwed
<1>8. \A f \in events', v \in endpoints :
        Owed(f, v)' => \E d \in deliveries' : d.event = f /\ d.endpoint = v.id
  BY <1>1, <1>2, <1>4, <1>5 DEF EventsInv, DeliveriesOwed
<1> QED BY <1>6, <1>7, <1>8 DEF DeliveriesOwed

LEMMA OpeningKeepsEvents ==
  ASSUME EventsInv, NEW r \in PaymentIds, Opens(r)
  PROVE  EventsMatchVersions' /\ DeliveriesOwed'
<1> DEFINE e == Event(r, 1, "payment.created")
           q == Request[r]
           at == create[r].at
<1>1. /\ TypeOK
      /\ at \in Nat /\ create[r].height \in Nat /\ create[r].txids \in SUBSET Tx
  BY DEF EventsInv, IInv, TypeInv, TypeOK, CreateLocals
<1>2. /\ DOMAIN payments' = DOMAIN payments \cup {r}
      /\ payments'[r] = PaymentRow(q, at, create[r].height)
      /\ \A x \in DOMAIN payments : x # r => payments'[x] = payments[x]
      /\ events' = events \cup {e}
  BY <1>1, CreateAddsOnePayment DEF Opens
<1>3. payments'[r].version = 1 /\ payments'[r].merchant = q.merchant
  BY <1>1, <1>2, PaymentRowIsARow
<1>4. e.payment = r /\ e.version = 1
  BY DEF Event
<1>5. r \notin DOMAIN payments
  BY DEF Opens
<1>6. \A f \in events : f.payment \in DOMAIN payments
  BY <1>1 DEF TypeOK
<1>7. EventsMatchVersions'
  <2> HIDE DEF e
  <2>1. /\ \A f \in events : f.version \in 1..payments[f.payment].version
        /\ \A f, g \in events : f.payment = g.payment /\ f.version = g.version => f = g
        /\ \A p \in DOMAIN payments :
             /\ \A v \in 1..payments[p].version :
                  \E f \in events : f.payment = p /\ f.version = v
             /\ Event(p, 1, "payment.created") \in events
             /\ payments[p].version > 1 =>
                  Event(p, payments[p].version, EventType(payments[p].status)) \in events
    BY DEF EventsInv, EventsMatchVersions
  <2>2. \A f \in events' : f.version \in 1..payments'[f.payment].version
    BY <1>2, <1>3, <1>4, <1>5, <1>6, <2>1
  <2>3. \A f, g \in events' : f.payment = g.payment /\ f.version = g.version => f = g
    BY <1>2, <1>4, <1>5, <1>6, <2>1
  <2>4. \A p \in DOMAIN payments' :
          /\ \A v \in 1..payments'[p].version :
               \E f \in events' : f.payment = p /\ f.version = v
          /\ Event(p, 1, "payment.created") \in events'
          /\ payments'[p].version > 1 =>
               Event(p, payments'[p].version, EventType(payments'[p].status)) \in events'
    <3>1. ASSUME NEW p \in DOMAIN payments' PROVE p = r \/ (p # r /\ p \in DOMAIN payments)
      BY <1>2, <3>1
    <3>2. Event(r, 1, "payment.created") \in events'
      BY <1>2 DEF e
    <3>3. \A v \in 1..payments'[r].version : v = 1
      BY <1>3
    <3> QED BY <1>2, <1>3, <1>4, <2>1, <3>1, <3>2, <3>3
  <2> QED BY <2>2, <2>3, <2>4 DEF EventsMatchVersions
<1>8. InsertEvent(e, q.merchant, at) /\ UNCHANGED endpoints
  BY DEF Opens, CreatePayment
<1>9. e \notin events
  BY <1>4, <1>5, <1>6
<1>10. DeliveriesOwed'
  <2> HIDE DEF e, q, at
  <2> QED BY <1>2, <1>3, <1>4, <1>5, <1>8, <1>9, InsertOwes
<1> QED BY <1>7, <1>10

LEMMA NewVersionKeepsEvents ==
  ASSUME EventsInv, NEW p, NEW now \in Nat, NewVersion(p, now)
  PROVE  EventsMatchVersions' /\ DeliveriesOwed'
<1> DEFINE n == payments'[p].version
           e == Event(p, n, EventType(payments'[p].status))
<1>1. /\ p \in DOMAIN payments /\ DOMAIN payments' = DOMAIN payments
      /\ \A x \in DOMAIN payments : x # p => payments'[x] = payments[x]
      /\ payments'[p].merchant = payments[p].merchant
      /\ n = payments[p].version + 1
      /\ InsertEvent(e, payments[p].merchant, now)
      /\ UNCHANGED endpoints
  BY DEF NewVersion, SameIdentity
<1>2. e.payment = p /\ e.version = n
  BY DEF Event
<1>3. /\ \A f \in events : f.payment \in DOMAIN payments
      /\ \A x \in DOMAIN payments : payments[x].version \in Nat \ {0}
  BY DEF EventsInv, IInv, TypeInv, TypeOK, PaymentRowOK, Positions
<1>4. events' = events \cup {e}
  BY <1>1 DEF InsertEvent
<1>5. /\ \A f \in events : f.version \in 1..payments[f.payment].version
      /\ \A f, g \in events : f.payment = g.payment /\ f.version = g.version => f = g
      /\ \A x \in DOMAIN payments :
           /\ \A v \in 1..payments[x].version :
                \E f \in events : f.payment = x /\ f.version = v
           /\ Event(x, 1, "payment.created") \in events
           /\ payments[x].version > 1 =>
                Event(x, payments[x].version, EventType(payments[x].status)) \in events
  BY DEF EventsInv, EventsMatchVersions
<1>6. \A f \in events : f.payment = p => f.version # n
  BY <1>1, <1>3, <1>5
<1>7. EventsMatchVersions'
  <2>1. e \in events'
    BY <1>4
  <2> HIDE DEF e
  <2>2. ASSUME NEW f \in events' PROVE f.version \in 1..payments'[f.payment].version
    <3>1. n \in Nat \ {0} /\ payments[p].version \in Nat
      BY <1>1, <1>3
    <3>2. CASE f = e
      BY <1>2, <3>1, <3>2
    <3>3. CASE f \in events /\ f.payment = p
      BY <1>1, <1>5, <3>1, <3>3
    <3>4. CASE f \in events /\ f.payment # p
      BY <1>1, <1>3, <1>5, <3>4
    <3> QED BY <1>4, <3>2, <3>3, <3>4
  <2>3. \A f, g \in events' : f.payment = g.payment /\ f.version = g.version => f = g
    BY <1>2, <1>4, <1>5, <1>6
  <2>4. \A x \in DOMAIN payments' :
          /\ \A v \in 1..payments'[x].version :
               \E f \in events' : f.payment = x /\ f.version = v
          /\ Event(x, 1, "payment.created") \in events'
          /\ payments'[x].version > 1 =>
               Event(x, payments'[x].version, EventType(payments'[x].status)) \in events'
    <3>1. ASSUME NEW v \in 1..n PROVE \E f \in events' : f.payment = p /\ f.version = v
      <4>1. v = n \/ v \in 1..payments[p].version
        BY <1>1, <1>3
      <4> QED BY <1>1, <1>2, <1>4, <1>5, <4>1
    <3>2. Event(p, n, EventType(payments'[p].status)) \in events'
      BY <2>1 DEF e
    <3> QED BY <1>1, <1>4, <1>5, <3>1, <3>2
  <2> QED BY <2>2, <2>3, <2>4 DEF EventsMatchVersions
<1>8. e \notin events
  BY <1>2, <1>6
<1>9. DeliveriesOwed'
  <2> HIDE DEF e
  <2> QED BY <1>1, <1>2, <1>8, InsertOwes
<1> QED BY <1>7, <1>9

LEMMA InitEventsInv == Init => EventsInv
<1> SUFFICES ASSUME Init PROVE EventsInv
  OBVIOUS
<1>1. IInv
  BY InitIInv
<1>2. DOMAIN payments = {} /\ events = {} /\ deliveries = {}
  BY DEF Init, StoreInit
<1> QED BY <1>1, <1>2 DEF EventsInv, EventsMatchVersions, DeliveriesOwed

LEMMA StepEventsInv == ASSUME EventsInv, PlatformStep PROVE EventsInv'
<1>1. IInv'
  BY StepIInv DEF EventsInv
<1>2. CASE UNCHANGED TablesOfRecord
  <2>1. EventsMatchVersions'
    BY <1>2 DEF EventsInv, EventsMatchVersions, TablesOfRecord
  <2>2. DeliveriesOwed'
    BY <1>2 DEF EventsInv, DeliveriesOwed, Owed, TablesOfRecord
  <2> QED BY <1>1, <2>1, <2>2 DEF EventsInv
<1>3. CASE \E r \in PaymentIds : Opens(r)
  BY <1>1, <1>3, OpeningKeepsEvents DEF EventsInv
<1>4. CASE \E p : \E now \in Nat : NewVersion(p, now)
  BY <1>1, <1>4, NewVersionKeepsEvents DEF EventsInv
<1> QED BY <1>2, <1>3, <1>4, StepEffects DEF EventsInv

LEMMA EventsInductive == Spec => []EventsInv
  BY InitEventsInv, NextIsAPlatformStep, StepEventsInv, PTL DEF Spec

(* Whatever requests, reads and restarts run, every version of a payment   *)
(* has exactly one event: what refresh_payment and create_payment commit   *)
(* in one transaction never comes apart.                                   *)
THEOREM EveryVersionHasItsEvent == Spec => []EventsMatchVersions
<1>1. EventsInv => EventsMatchVersions
  BY DEF EventsInv
<1> QED BY <1>1, EventsInductive, PTL

(* Every event is owed once to each enabled endpoint of its merchant that  *)
(* asked for its type, and to nobody else (_insert_event).                 *)
THEOREM EveryEventIsOwedOnce == Spec => []DeliveriesMatchEvents
<1>1. EventsInv => DeliveriesMatchEvents
  BY DeliveriesRowByRow DEF EventsInv
<1> QED BY <1>1, EventsInductive, PTL

-----------------------------------------------------------------------------
(* The snapshot a payment is created from.  A request has taken its        *)
(* creation time before it reads the tip and the tip before it reads the   *)
(* history, so each part of the snapshot is younger than the last: what is *)
(* not in the history came later, and is mined above the creation height   *)
(* unless blocks are disconnected down to below that height.               *)

Arrivals ==
  \A t \in Tx : /\ arrived[t] <= clock
                /\ position[t] # Unknown => arrived[t] \in Nat

Snapshot(address, at, height, known) ==
  /\ at <= clock
  /\ height <= MaxHeight
  /\ height <= lowest => height <= tip
  /\ \A t \in HistoryOf(address) \ known :
       /\ arrived[t] >= at
       /\ height <= lowest /\ position[t] > 0 => position[t] > height

RequestSnapshots ==
  \A r \in PaymentIds :
    /\ create[r].pc \in {"address", "tip", "history"} => create[r].at <= clock
    /\ create[r].pc = "history" => /\ create[r].height <= MaxHeight
                                   /\ create[r].height <= lowest => create[r].height <= tip
    /\ create[r].pc \in {"save_tip", "insert"} =>
         Snapshot(Request[r].address, create[r].at, create[r].height, create[r].txids)

PaymentSnapshots ==
  \A p \in DOMAIN payments :
    Snapshot(payments[p].address, payments[p].created_at, payments[p].created_height,
             baseline[p])

SnapshotInv ==
  /\ IInv
  /\ Arrivals
  /\ RequestSnapshots
  /\ PaymentSnapshots

(* What one chain event can do to a transaction.                           *)
LEMMA ChainMoves ==
  ASSUME TypeInv, ChainStep
  PROVE  /\ evicted => evicted'
         /\ \A height \in Nat : height <= lowest' =>
              /\ height <= lowest
              /\ height <= tip => height <= tip'
         /\ \A t \in Tx :
              /\ position[t] \in Int /\ position'[t] \in Int
              /\ position[t] = Unknown => position'[t] \in {Unknown, InMempool}
              /\ ~evicted' /\ position[t] # Unknown => position'[t] # Unknown
              /\ \/ position'[t] \in {position[t], Unknown, InMempool}
                 \/ position'[t] = tip + 1
<1> USE ChainAssumption, GatewayAssumption
    DEF TypeInv, ChainTypeOK, Unknown, InMempool
<1>1. ChainNext
  BY DEF ChainStep
<1>2. CASE \E t \in Transactions : Broadcast(t)
  BY <1>2 DEF Broadcast
<1>3. CASE \E t \in Transactions : Evict(t)
  BY <1>3 DEF Evict
<1>4. CASE \E mined \in SUBSET Transactions : Mine(mined)
  BY <1>4 DEF Mine
<1>5. CASE Reorg
  BY <1>5 DEF Reorg
<1> QED BY <1>1, <1>2, <1>3, <1>4, <1>5 DEF ChainNext

LEMMA ChainArrivals == ASSUME TypeInv, Arrivals, ChainStep PROVE Arrivals'
<1>1. /\ clock' = clock /\ clock \in Nat
      /\ arrived' = [t \in Tx |-> IF position[t] = Unknown /\ position'[t] # Unknown
                                  THEN clock ELSE arrived[t]]
  BY DEF ChainStep, TypeInv, TypeOK
<1> QED BY <1>1 DEF Arrivals, TypeInv, TypeOK

LEMMA ChainKeepsSnapshot ==
  ASSUME TypeInv, ChainStep, NEW address, NEW at \in Nat, NEW height \in Nat, NEW known,
         Snapshot(address, at, height, known)
  PROVE  Snapshot(address, at, height, known)'
<1>1. /\ clock' = clock /\ clock \in Nat /\ tip \in Nat
      /\ arrived' = [t \in Tx |-> IF position[t] = Unknown /\ position'[t] # Unknown
                                  THEN clock ELSE arrived[t]]
  BY TipIsAHeight DEF ChainStep, TypeInv, TypeOK
<1>2. height <= lowest' => height <= lowest /\ height <= tip'
  BY <1>1, ChainMoves DEF Snapshot
<1>3. ASSUME NEW t \in HistoryOf(address)' \ known
      PROVE  /\ arrived'[t] >= at
             /\ height <= lowest' /\ position'[t] > 0 => position'[t] > height
  <2>1. t \in Tx /\ position'[t] # Unknown
    BY DEF HistoryOf
  <2>2. CASE position[t] = Unknown
    <3>1. arrived'[t] = clock
      BY <1>1, <2>1, <2>2
    <3>2. position'[t] = 0
      BY <2>1, <2>2, ChainMoves DEF InMempool
    <3> QED BY <1>1, <3>1, <3>2 DEF Snapshot
  <2>3. CASE position[t] # Unknown
    <3>1. t \in HistoryOf(address) \ known
      BY <2>1, <2>3 DEF HistoryOf
    <3>2. arrived'[t] = arrived[t]
      BY <1>1, <2>1, <2>3
    <3>3. ASSUME height <= lowest', position'[t] > 0 PROVE position'[t] > height
      <4>1. position'[t] = position[t] \/ position'[t] = tip + 1
        BY <2>1, <3>3, ChainMoves DEF Unknown, InMempool
      <4> QED BY <1>1, <1>2, <3>1, <3>3, <4>1 DEF Snapshot
    <3> QED BY <3>1, <3>2, <3>3 DEF Snapshot
  <2> QED BY <2>2, <2>3
<1> QED BY <1>1, <1>2, <1>3 DEF Snapshot

(* A chain event or a tick of the clock leaves every snapshot without a    *)
(* gap.                                                                    *)
LEMMA SnapshotsKept ==
  ASSUME SnapshotInv, IInv', Arrivals', UNCHANGED <<payments, baseline, create>>,
         \A address, known : \A at, height \in Nat :
           Snapshot(address, at, height, known) => Snapshot(address, at, height, known)',
         clock' >= clock, clock' \in Nat,
         \A height \in Nat : height <= lowest' =>
           height <= lowest /\ (height <= tip => height <= tip')
  PROVE  SnapshotInv'
<1>1. /\ clock \in Nat /\ tip \in Nat
      /\ \A r \in PaymentIds : create[r].at \in Nat /\ create[r].height \in Nat
      /\ \A p \in DOMAIN payments : payments[p].created_at \in Nat
                                    /\ payments[p].created_height \in Nat
  BY TipIsAHeight DEF SnapshotInv, IInv, TypeInv, TypeOK, CreateLocals, PaymentRowOK
<1>2. RequestSnapshots'
  <2> SUFFICES ASSUME NEW r \in PaymentIds
               PROVE  /\ create[r].pc \in {"address", "tip", "history"} => create[r].at <= clock'
                      /\ create[r].pc = "history" =>
                           /\ create[r].height <= MaxHeight
                           /\ create[r].height <= lowest' => create[r].height <= tip'
                      /\ create[r].pc \in {"save_tip", "insert"} =>
                           Snapshot(Request[r].address, create[r].at, create[r].height,
                                    create[r].txids)'
    BY DEF RequestSnapshots
  <2> QED BY <1>1 DEF SnapshotInv, RequestSnapshots
<1>3. PaymentSnapshots'
  BY <1>1 DEF SnapshotInv, PaymentSnapshots
<1> QED BY <1>2, <1>3 DEF SnapshotInv

(* Where nothing a snapshot speaks of has changed.                         *)
LEMMA SnapshotUnmoved ==
  ASSUME NEW address, NEW at, NEW height, NEW known, UNCHANGED <<chainVars, clock, arrived>>
  PROVE  Snapshot(address, at, height, known)' <=> Snapshot(address, at, height, known)
  BY DEF Snapshot, HistoryOf, chainVars

(* A step of a request moves on to the next part of the snapshot.          *)
LEMMA CreateKeepsSnapshots ==
  ASSUME SnapshotInv, IInv', NEW r \in PaymentIds, CreateStep(r)
  PROVE  SnapshotInv'
<1>1. UNCHANGED <<chainVars, clock, arrived>>
  BY DEF CreateStep, CheckReplay, CheckReference, CheckAddress, SnapshotTip,
         SnapshotHistory, SnapshotFails, SaveTip, Insert
<1>2. /\ create \in [PaymentIds -> CreateLocals]
      /\ clock \in Nat /\ tip \in Nat /\ TypeOK /\ ChainTypeOK
  BY TipIsAHeight DEF SnapshotInv, IInv, TypeInv, TypeOK
<1>3. Arrivals'
  BY <1>1 DEF SnapshotInv, Arrivals, chainVars
<1>4. ASSUME create'[r].pc \in {"reference", "tip", "done"},
             create'[r].pc = "tip" => create[r].pc = "address" /\ create'[r].at = create[r].at,
             \A s \in PaymentIds : s # r => create'[s] = create[s]
      PROVE  RequestSnapshots'
  <2> SUFFICES ASSUME NEW s \in PaymentIds
               PROVE  /\ create'[s].pc \in {"address", "tip", "history"}
                           => create'[s].at <= clock
                      /\ create'[s].pc = "history" =>
                           /\ create'[s].height <= MaxHeight
                           /\ create'[s].height <= lowest => create'[s].height <= tip
                      /\ create'[s].pc \in {"save_tip", "insert"} =>
                           Snapshot(Request[s].address, create'[s].at, create'[s].height,
                                    create'[s].txids)
    BY <1>1, SnapshotUnmoved DEF RequestSnapshots, chainVars
  <2> QED BY <1>4 DEF SnapshotInv, RequestSnapshots
<1>5. ASSUME NEW c \in CreateLocals, create' = [create EXCEPT ![r] = c],
             c.pc \in {"address", "tip", "history"} => c.at <= clock,
             c.pc = "history" => /\ c.height <= MaxHeight
                                 /\ c.height <= lowest => c.height <= tip,
             c.pc \in {"save_tip", "insert"} =>
               Snapshot(Request[r].address, c.at, c.height, c.txids)
      PROVE  RequestSnapshots'
  <2> SUFFICES ASSUME NEW s \in PaymentIds
               PROVE  /\ create'[s].pc \in {"address", "tip", "history"}
                           => create'[s].at <= clock
                      /\ create'[s].pc = "history" =>
                           /\ create'[s].height <= MaxHeight
                           /\ create'[s].height <= lowest => create'[s].height <= tip
                      /\ create'[s].pc \in {"save_tip", "insert"} =>
                           Snapshot(Request[s].address, create'[s].at, create'[s].height,
                                    create'[s].txids)
    BY <1>1, SnapshotUnmoved DEF RequestSnapshots, chainVars
  <2>1. CASE s = r
    BY <1>2, <1>5, <2>1
  <2>2. CASE s # r
    BY <1>2, <1>5, <2>2 DEF SnapshotInv, RequestSnapshots
  <2> QED BY <2>1, <2>2
<1>6. ASSUME NEW result, NEW p, Respond(r, result, p) PROVE RequestSnapshots'
  BY <1>2, <1>4, <1>6 DEF Respond, Local
<1>7. RequestSnapshots'
  <2>1. CASE CheckReplay(r)
    <3>1. CASE Goto(r, "reference")
      BY <1>2, <1>4, <3>1 DEF Goto, CreateLocals
    <3> QED BY <1>6, <2>1, <3>1 DEF CheckReplay
  <2>2. CASE CheckReference(r)
    <3>1. CASE create' = [create EXCEPT ![r] = [@ EXCEPT !.pc = "address", !.at = clock]]
      <4> DEFINE c == [create[r] EXCEPT !.pc = "address", !.at = clock]
      <4>1. c \in CreateLocals /\ c.pc = "address" /\ c.at = clock
        BY <1>2 DEF CreateLocals, CreatePcs
      <4>2. create' = [create EXCEPT ![r] = c]
        BY <3>1
      <4> HIDE DEF c
      <4>3. c.at <= clock /\ c.pc # "history" /\ c.pc \notin {"save_tip", "insert"}
        BY <1>2, <4>1
      <4> QED BY <1>5, <4>1, <4>2, <4>3
    <3> QED BY <1>6, <2>2, <3>1 DEF CheckReference
  <2>3. CASE CheckAddress(r)
    <3>1. CASE Goto(r, "tip")
      BY <1>2, <1>4, <2>3, <3>1 DEF Goto, CreateLocals, CheckAddress
    <3> QED BY <1>6, <2>3, <3>1 DEF CheckAddress
  <2>4. CASE SnapshotTip(r)
    <3> DEFINE c == [create[r] EXCEPT !.pc = "history", !.height = tip]
    <3>1. c \in CreateLocals /\ c.pc = "history" /\ c.at = create[r].at /\ c.height = tip
      BY <1>2 DEF CreateLocals, CreatePcs
    <3>2. create' = [create EXCEPT ![r] = c] /\ create[r].pc = "tip"
      BY <2>4 DEF SnapshotTip
    <3>3. create[r].at <= clock
      BY <3>2 DEF SnapshotInv, RequestSnapshots
    <3> HIDE DEF c
    <3>4. /\ c.at <= clock /\ c.height <= tip /\ c.height <= MaxHeight
          /\ c.pc \notin {"save_tip", "insert"}
      BY <1>2, <3>1, <3>3, ChainAssumption DEF ChainTypeOK
    <3> QED BY <1>5, <3>1, <3>2, <3>4
  <2>5. CASE SnapshotHistory(r)
    <3> DEFINE c == [create[r] EXCEPT !.pc = "save_tip",
                                      !.txids = HistoryOf(Request[r].address)]
    <3>1. HistoryOf(Request[r].address) \in SUBSET Tx
      BY DEF HistoryOf
    <3>2. /\ c \in CreateLocals /\ c.pc = "save_tip" /\ c.at = create[r].at
          /\ c.height = create[r].height /\ c.txids = HistoryOf(Request[r].address)
      BY <1>2, <3>1 DEF CreateLocals, CreatePcs
    <3>3. create' = [create EXCEPT ![r] = c] /\ create[r].pc = "history"
      BY <2>5 DEF SnapshotHistory
    <3>4. /\ create[r].at <= clock /\ create[r].height <= MaxHeight
          /\ create[r].height <= lowest => create[r].height <= tip
      BY <3>3 DEF SnapshotInv, RequestSnapshots
    <3>5. Snapshot(Request[r].address, c.at, c.height, c.txids)
      BY <3>2, <3>4 DEF Snapshot
    <3> HIDE DEF c
    <3> QED BY <1>5, <3>2, <3>3, <3>5
  <2>6. CASE SnapshotFails(r)
    BY <1>6, <2>6 DEF SnapshotFails
  <2>7. CASE SaveTip(r)
    <3> DEFINE c == [create[r] EXCEPT !.pc = "insert"]
    <3>1. /\ c \in CreateLocals /\ c.pc = "insert" /\ c.at = create[r].at
          /\ c.height = create[r].height /\ c.txids = create[r].txids
      BY <1>2 DEF CreateLocals, CreatePcs
    <3>2. create' = [create EXCEPT ![r] = c] /\ create[r].pc = "save_tip"
      BY <2>7 DEF SaveTip, Goto
    <3>3. Snapshot(Request[r].address, c.at, c.height, c.txids)
      BY <3>1, <3>2 DEF SnapshotInv, RequestSnapshots
    <3> HIDE DEF c
    <3> QED BY <1>5, <3>1, <3>2, <3>3
  <2>8. CASE Insert(r)
    BY <1>6, <2>8 DEF Insert
  <2> QED BY <2>1, <2>2, <2>3, <2>4, <2>5, <2>6, <2>7, <2>8 DEF CreateStep
<1>8. PaymentSnapshots'
  <2>1. CASE Opens(r)
    <3>1. /\ create[r].at \in Nat /\ create[r].height \in Nat
          /\ create[r].txids \in SUBSET Tx /\ baseline \in [PaymentIds -> SUBSET Tx]
          /\ DOMAIN payments \subseteq PaymentIds
      BY <1>2 DEF CreateLocals, TypeOK
    <3>2. /\ DOMAIN payments' = DOMAIN payments \cup {r}
          /\ payments'[r] = PaymentRow(Request[r], create[r].at, create[r].height)
          /\ \A x \in DOMAIN payments : x # r => payments'[x] = payments[x]
          /\ baseline' = [baseline EXCEPT ![r] = create[r].txids]
      BY <1>2, <2>1, <3>1, CreateAddsOnePayment DEF Opens, CreatePayment
    <3>3. /\ payments'[r].address = Request[r].address
          /\ payments'[r].created_at = create[r].at
          /\ payments'[r].created_height = create[r].height
      BY <3>1, <3>2, PaymentRowIsARow
    <3>4. Snapshot(Request[r].address, create[r].at, create[r].height, create[r].txids)
      BY <2>1 DEF Opens, SnapshotInv, RequestSnapshots
    <3>5. ASSUME NEW p \in DOMAIN payments'
          PROVE  Snapshot(payments'[p].address, payments'[p].created_at,
                          payments'[p].created_height, baseline'[p])
      <4>1. CASE p = r
        BY <3>1, <3>2, <3>3, <3>4, <4>1
      <4>2. CASE p # r
        BY <3>1, <3>2, <4>2 DEF SnapshotInv, PaymentSnapshots
      <4> QED BY <4>1, <4>2
    <3> QED BY <1>1, <3>5, SnapshotUnmoved DEF PaymentSnapshots
  <2>2. CASE UNCHANGED <<payments, baseline>>
    BY <1>1, <2>2, SnapshotUnmoved DEF SnapshotInv, PaymentSnapshots
  <2>3. Opens(r) \/ UNCHANGED <<payments, baseline>>
    <3>1. CASE Insert(r)
      <4>1. create[r].pc = "insert" /\ r \notin DOMAIN payments
        BY <3>1 DEF Insert, SnapshotInv, IInv, OpenedByReturn
      <4> QED BY <3>1, <4>1 DEF Insert, Opens, storeVars
    <3>2. CASE SaveTip(r)
      BY <3>2 DEF SaveTip, SetChainTip
    <3>3. CASE ~Insert(r) /\ ~SaveTip(r)
      BY <3>3 DEF CreateStep, CheckReplay, CheckReference, CheckAddress, SnapshotTip,
                  SnapshotHistory, SnapshotFails, storeVars
    <3> QED BY <3>1, <3>2, <3>3
  <2> QED BY <2>1, <2>2, <2>3
<1> QED BY <1>3, <1>7, <1>8 DEF SnapshotInv

(* A refresh keeps what the snapshots speak of.                            *)
LEMMA RefreshKeepsSnapshots ==
  ASSUME SnapshotInv, IInv', UNCHANGED <<baseline, create, chainVars, clock, arrived>>,
         DOMAIN payments' = DOMAIN payments,
         \A p \in DOMAIN payments : SameIdentity(payments'[p], payments[p])
  PROVE  SnapshotInv'
<1>1. Arrivals'
  BY DEF SnapshotInv, Arrivals, chainVars
<1>2. RequestSnapshots'
  BY SnapshotUnmoved DEF SnapshotInv, RequestSnapshots, chainVars
<1>3. PaymentSnapshots'
  BY SnapshotUnmoved DEF SnapshotInv, PaymentSnapshots, SameIdentity
<1> QED BY <1>1, <1>2, <1>3 DEF SnapshotInv

LEMMA StepSnapshotInv == ASSUME SnapshotInv, PlatformStep PROVE SnapshotInv'
<1>1. IInv'
  BY StepIInv DEF SnapshotInv
<1>2. CASE \E r \in PaymentIds : CreateStep(r)
  BY <1>1, <1>2, CreateKeepsSnapshots
<1>3. ASSUME NEW p, NEW now \in Nat, RefreshPayment(p, now),
             UNCHANGED <<create, chainVars, clock, arrived>>
      PROVE  SnapshotInv'
  <2>1. /\ DOMAIN payments' = DOMAIN payments
        /\ \A x \in DOMAIN payments : SameIdentity(payments'[x], payments[x])
    BY <1>3, RefreshKeepsIdentity DEF SnapshotInv, IInv, TypeInv
  <2>2. UNCHANGED baseline
    BY <1>3 DEF RefreshPayment
  <2> QED BY <1>1, <1>3, <2>1, <2>2, RefreshKeepsSnapshots
<1>4. ASSUME UNCHANGED <<payments, baseline, create, chainVars, clock, arrived>>
      PROVE  SnapshotInv'
  BY <1>1, <1>4, RefreshKeepsSnapshots DEF SameIdentity
<1>5. CASE \E g \in Readers : GetStep(g)
  <2> PICK g \in Readers : GetStep(g)
    BY <1>5
  <2>1. CASE \E p \in PaymentIds : BeginGet(g, p)
    BY <1>4, <2>1 DEF BeginGet, storeVars
  <2>2. CASE FinishGet(g)
    <3>1. /\ RefreshPayment(read[g].payment, read[g].at) /\ read[g].at \in Nat
          /\ UNCHANGED <<create, chainVars, clock, arrived>>
      BY <2>2 DEF FinishGet, SnapshotInv, IInv, TypeInv, TypeOK
    <3> QED BY <1>3, <3>1
  <2> QED BY <2>1, <2>2 DEF GetStep
<1>6. CASE ChainStep
  <2>1. UNCHANGED <<payments, baseline, create, clock>>
    BY <1>6 DEF ChainStep, storeVars
  <2>2. TypeInv /\ clock \in Nat
    BY DEF SnapshotInv, IInv, TypeInv, TypeOK
  <2>3. Arrivals'
    BY <1>6, <2>2, ChainArrivals DEF SnapshotInv
  <2>4. \A address, known : \A at, height \in Nat :
          Snapshot(address, at, height, known) => Snapshot(address, at, height, known)'
    BY <1>6, <2>2, ChainKeepsSnapshot
  <2>5. \A height \in Nat : height <= lowest' =>
          height <= lowest /\ (height <= tip => height <= tip')
    BY <1>6, <2>2, ChainMoves
  <2> QED BY <1>1, <2>1, <2>2, <2>3, <2>4, <2>5, SnapshotsKept
<1>7. CASE Tick
  <2>1. UNCHANGED <<payments, baseline, create, chainVars, arrived>>
    BY <1>7 DEF Tick, storeVars
  <2>2. clock \in Nat /\ clock' = clock + 1 /\ tip \in Nat
    BY <1>7, TipIsAHeight DEF Tick, SnapshotInv, IInv, TypeInv, TypeOK
  <2>3. arrived \in [Tx -> Nat \cup {None}] /\ None \in Int
    BY DEF SnapshotInv, IInv, TypeInv, TypeOK, None
  <2>4. Arrivals'
    BY <2>1, <2>2, <2>3 DEF SnapshotInv, Arrivals, chainVars
  <2>5. \A address, known : \A at, height \in Nat :
          Snapshot(address, at, height, known) => Snapshot(address, at, height, known)'
    BY <2>1, <2>2 DEF Snapshot, HistoryOf, chainVars
  <2>6. lowest' = lowest /\ tip' = tip
    BY <2>1 DEF chainVars
  <2> QED BY <1>1, <2>1, <2>2, <2>4, <2>5, <2>6, SnapshotsKept
<1>8. CASE RequestsForgotten
  <2>1. UNCHANGED <<payments, baseline, chainVars, clock, arrived>>
    BY <1>8 DEF RequestsForgotten, storeVars
  <2>2. Arrivals' /\ PaymentSnapshots'
    BY <2>1, SnapshotUnmoved DEF SnapshotInv, Arrivals, PaymentSnapshots, chainVars
  <2>3. \A r \in PaymentIds : create'[r].pc = "done" \/ create'[r] = create[r]
    BY <1>8 DEF RequestsForgotten, ForgetRequests, Local
  <2>4. RequestSnapshots'
    BY <2>1, <2>3, SnapshotUnmoved DEF SnapshotInv, RequestSnapshots, chainVars
  <2> QED BY <1>1, <2>2, <2>4 DEF SnapshotInv
<1>9. CASE WatcherTransaction
  <2>1. UNCHANGED <<create, chainVars, clock, arrived>>
    BY <1>9 DEF WatcherTransaction, gatewayVars
  <2>2. CASE \E p : \E now \in Nat : RefreshPayment(p, now)
    BY <1>3, <2>1, <2>2
  <2> QED BY <1>4, <1>9, <2>1, <2>2
       DEF WatcherTransaction, SetChainTip, UpsertTransaction, DeleteTransactionsNotIn
<1>10. CASE UNCHANGED vars
  BY <1>4, <1>10 DEF vars, storeVars, gatewayVars
<1> QED BY <1>2, <1>5, <1>6, <1>7, <1>8, <1>9, <1>10 DEF PlatformStep

LEMMA InitSnapshotInv == Init => SnapshotInv
<1> SUFFICES ASSUME Init PROVE SnapshotInv
  OBVIOUS
<1>1. Arrivals
  <2>1. position = [t \in Tx |-> Unknown] /\ arrived = [t \in Tx |-> None] /\ clock = 0
    BY GatewayAssumption DEF Init, GatewayInit, ChainInit
  <2> QED BY <2>1 DEF Arrivals, None
<1>2. RequestSnapshots
  BY DEF Init, GatewayInit, Local, RequestSnapshots
<1>3. PaymentSnapshots
  BY DEF Init, StoreInit, PaymentSnapshots
<1> QED BY <1>1, <1>2, <1>3, InitIInv DEF SnapshotInv

LEMMA SnapshotInductive == Spec => []SnapshotInv
  BY InitSnapshotInv, NextIsAPlatformStep, StepSnapshotInv, PTL DEF Spec

LEMMA SnapshotInvHasNoGap == SnapshotInv => SnapshotHasNoGap
<1>1. SnapshotInv /\ ~Disturbed =>
        \A height \in Nat : height <= MaxHeight => height <= lowest
  BY ChainAssumption DEF SnapshotInv, IInv, TypeInv, ChainTypeOK, Disturbed
<1>2. SnapshotInv => \A p \in DOMAIN payments : payments[p].created_height \in Nat
  BY DEF SnapshotInv, IInv, TypeInv, TypeOK, PaymentRowOK
<1> QED BY <1>1, <1>2 DEF SnapshotInv, PaymentSnapshots, Snapshot, SnapshotHasNoGap

(* The snapshot a payment is created from has no gap, for any requests and *)
(* any chain that disconnects no block: what is not in its baseline came   *)
(* after its creation time and above its creation height                   *)
(* (_snapshot_creation_state, create_persisted_payment).                   *)
THEOREM SnapshotsHaveNoGap == Spec => []SnapshotHasNoGap
  BY SnapshotInductive, SnapshotInvHasNoGap, PTL

-----------------------------------------------------------------------------
(* The store keeps the books of PaymentLedger: a create opens an entry, a  *)
(* refresh that finds a change appends one event to one entry, and nothing *)
(* else touches them.                                                      *)

(* By EventsMatchVersions the CHOOSE of TypeOf has one candidate, which    *)
(* stays the candidate when events are added.                              *)
LEMMA EventOfAVersion ==
  ASSUME EventsInv, NEW p \in DOMAIN payments, NEW v \in 1..payments[p].version
  PROVE  \E e \in events : /\ e.payment = p /\ e.version = v /\ TypeOf(p, v) = e.type
                           /\ \A f \in events : f.payment = p /\ f.version = v => f = e
<1>1. PICK e \in events : e.payment = p /\ e.version = v
  BY DEF EventsInv, EventsMatchVersions
<1>2. \A f \in events : f.payment = p /\ f.version = v => f = e
  BY <1>1 DEF EventsInv, EventsMatchVersions
<1>3. EventsOf(p, v) = {e}
  BY <1>1, <1>2 DEF EventsOf
<1> QED BY <1>1, <1>2, <1>3 DEF TypeOf

LEMMA TypesStay ==
  ASSUME EventsInv, EventsInv', events \subseteq events',
         NEW p \in DOMAIN payments, NEW v \in 1..payments[p].version,
         p \in DOMAIN payments', v \in 1..payments'[p].version
  PROVE  TypeOf(p, v)' = TypeOf(p, v)
<1>1. PICK e \in events : e.payment = p /\ e.version = v /\ TypeOf(p, v) = e.type
  BY EventOfAVersion
<1>2. PICK f \in events' : /\ f.payment = p /\ f.version = v /\ TypeOf(p, v)' = f.type
                           /\ \A g \in events' : g.payment = p /\ g.version = v => g = f
  <2>1. \E f \in events' : f.payment = p /\ f.version = v
    BY DEF EventsInv, EventsMatchVersions
  <2>2. PICK f \in events' : f.payment = p /\ f.version = v
    BY <2>1
  <2>3. \A g \in events' : g.payment = p /\ g.version = v => g = f
    BY <2>2 DEF EventsInv, EventsMatchVersions
  <2>4. EventsOf(p, v)' = {f}
    BY <2>2, <2>3 DEF EventsOf
  <2> QED BY <2>2, <2>3, <2>4 DEF TypeOf
<1> QED BY <1>1, <1>2

(* The type an event has is the type of its version.                       *)
LEMMA TypeOfEvent ==
  EventsInv => \A p \in DOMAIN payments : \A v \in 1..payments[p].version : \A type :
                 Event(p, v, type) \in events => TypeOf(p, v) = type
<1> SUFFICES ASSUME EventsInv, NEW p \in DOMAIN payments, NEW v \in 1..payments[p].version,
                    NEW type, Event(p, v, type) \in events
             PROVE  TypeOf(p, v) = type
  OBVIOUS
<1>1. PICK e \in events : /\ TypeOf(p, v) = e.type
                          /\ \A f \in events : f.payment = p /\ f.version = v => f = e
  BY EventOfAVersion
<1>2. Event(p, v, type).payment = p /\ Event(p, v, type).version = v
      /\ Event(p, v, type).type = type
  BY DEF Event
<1> QED BY <1>1, <1>2

(* An entry, and its fields.                                               *)
History(p) == [v \in 1..payments[p].version |-> TypeOf(p, v)]

EntryOf(row, key, history) ==
  [merchant |-> row.merchant, address |-> row.address, key |-> key,
   reference |-> row.reference, from |-> row.created_at, until |-> row.expires_at,
   history |-> history]

Entry(p) == EntryOf(payments[p], Request[p].key, History(p))

LEMMA EntryFields ==
  ASSUME NEW row, NEW key, NEW history
  PROVE  /\ EntryOf(row, key, history).merchant = row.merchant
         /\ EntryOf(row, key, history).address = row.address
         /\ EntryOf(row, key, history).key = key
         /\ EntryOf(row, key, history).reference = row.reference
         /\ EntryOf(row, key, history).from = row.created_at
         /\ EntryOf(row, key, history).until = row.expires_at
         /\ EntryOf(row, key, history).history = history
  BY DEF EntryOf

LEMMA EntryWithHistory ==
  ASSUME NEW a, NEW b, NEW key, NEW old, NEW new, SameIdentity(b, a)
  PROVE  EntryOf(b, key, new) = [EntryOf(a, key, old) EXCEPT !.history = new]
  BY DEF EntryOf, SameIdentity

LEMMA BooksAreEntries ==
  /\ DOMAIN Books = DOMAIN payments
  /\ Books = [p \in DOMAIN payments |-> Entry(p)]
  BY DEF Books, Entry, EntryOf, History

(* An entry whose payment is the same as before is the same as before.     *)
LEMMA EntryStays ==
  ASSUME EventsInv, EventsInv', events \subseteq events',
         NEW p \in DOMAIN payments, p \in DOMAIN payments', payments'[p] = payments[p]
  PROVE  Entry(p)' = Entry(p)
<1>1. \A v \in 1..payments[p].version : TypeOf(p, v)' = TypeOf(p, v)
  BY TypesStay
<1>2. [v \in 1..payments'[p].version |-> TypeOf(p, v)'] =
        [v \in 1..payments[p].version |-> TypeOf(p, v)]
  BY <1>1
<1> QED BY <1>2 DEF Entry, History

(* The same of the next state.                                             *)
LEMMA TypeOfEventNow ==
  EventsInv' => \A p \in DOMAIN payments' : \A v \in 1..payments'[p].version : \A type :
                  Event(p, v, type) \in events' => TypeOf(p, v)' = type
<1>1. (EventsInv => \A p \in DOMAIN payments : \A v \in 1..payments[p].version : \A type :
                      Event(p, v, type) \in events => TypeOf(p, v) = type)'
  BY TypeOfEvent, PTL
<1> QED BY <1>1 DEF Event

LEMMA BooksInPrimedState ==
  /\ DOMAIN Books' = DOMAIN payments'
  /\ Books' = [p \in DOMAIN payments' |-> Entry(p)']
<1>1. (/\ DOMAIN Books = DOMAIN payments
       /\ Books = [p \in DOMAIN payments |-> Entry(p)])'
  BY BooksAreEntries, PTL
<1> QED BY <1>1

LEMMA OpeningOpensAnEntry ==
  ASSUME EventsInv, EventsInv', NEW r \in PaymentIds, Opens(r)
  PROVE  Ledger!Open(r)
<1> DEFINE q == Request[r]
           at == create[r].at
<1>1. /\ TypeOK /\ r \in PaymentIds \ DOMAIN payments
      /\ at \in Nat /\ create[r].height \in Nat /\ create[r].txids \in SUBSET Tx
      /\ q.expires_in \in Nat
  BY GatewayAssumption DEF EventsInv, IInv, TypeInv, TypeOK, CreateLocals, Opens
<1>2. /\ DOMAIN payments' = DOMAIN payments \cup {r}
      /\ payments'[r] = PaymentRow(q, at, create[r].height)
      /\ \A x \in DOMAIN payments : x # r => payments'[x] = payments[x]
      /\ events' = events \cup {Event(r, 1, "payment.created")}
  BY <1>1, CreateAddsOnePayment DEF Opens
<1>3. /\ payments'[r].merchant = q.merchant
      /\ payments'[r].address = q.address
      /\ payments'[r].reference = q.reference
      /\ payments'[r].created_at = at
      /\ payments'[r].expires_at = at + q.expires_in
      /\ payments'[r].version = 1
  <2>1. /\ PaymentRow(q, at, create[r].height).merchant = q.merchant
        /\ PaymentRow(q, at, create[r].height).address = q.address
        /\ PaymentRow(q, at, create[r].height).reference = q.reference
        /\ PaymentRow(q, at, create[r].height).created_at = at
        /\ PaymentRow(q, at, create[r].height).expires_at = at + q.expires_in
        /\ PaymentRow(q, at, create[r].height).version = 1
    BY DEF PaymentRow
  <2> HIDE DEF q, at
  <2> QED BY <1>2, <2>1
<1>4. /\ DOMAIN Books = DOMAIN payments /\ DOMAIN Books' = DOMAIN payments'
      /\ \A p \in DOMAIN payments : Books[p] = Entry(p)
      /\ \A p \in DOMAIN payments' : Books'[p] = Entry(p)'
  BY BooksAreEntries, BooksInPrimedState
<1>5. \A p \in DOMAIN payments : Books'[p] = Books[p]
  BY <1>1, <1>2, <1>4, EntryStays
<1>6. ~AddressInUse(q, at)
  <2>1. CreateOutcome(q, at) = "created"
    BY DEF Opens, CreatePayment
  <2> HIDE DEF q, at
  <2> QED BY <2>1 DEF CreateOutcome
<1>7. ASSUME NEW p \in DOMAIN payments PROVE Ledger!Compatible(Books[p], Books'[r])
  <2>1. /\ Books[p].address = payments[p].address /\ Books[p].until = payments[p].expires_at
        /\ Books[p].merchant = payments[p].merchant /\ Books[p].key = Request[p].key
        /\ Books[p].reference = payments[p].reference
    BY <1>4, EntryFields DEF Entry
  <2>2. /\ Books'[r].address = q.address /\ Books'[r].from = at
        /\ Books'[r].merchant = q.merchant /\ Books'[r].key = q.key
        /\ Books'[r].reference = q.reference
    BY <1>2, <1>3, <1>4, EntryFields DEF Entry
  <2>3. p # r /\ p \in DOMAIN payments' /\ r \in DOMAIN payments' /\ payments'[p] = payments[p]
    BY <1>1, <1>2
  <2>4. payments[p].address = q.address => payments[p].expires_at < at
    <3>1. payments[p].expires_at \in Nat
      BY <1>1 DEF TypeOK, PaymentRowOK
    <3> QED BY <1>1, <1>6, <3>1 DEF AddressInUse
  <2>5. payments[p].merchant = q.merchant /\ Request[p].key = q.key => q.key = Absent
    BY <2>3 DEF EventsInv, IInv, OpenedByReturn, KeysUnique
  <2>6. payments[p].merchant = q.merchant /\ payments[p].reference = q.reference
          => q.reference = Absent
    BY <1>3, <2>3 DEF EventsInv, IInv, OnePaymentPerReference
  <2> QED BY <2>1, <2>2, <2>4, <2>5, <2>6 DEF Ledger!Compatible
<1>8. Books'[r].from <= Books'[r].until
  <2>1. Books'[r].from = at /\ Books'[r].until = at + q.expires_in
    BY <1>2, <1>3, <1>4, EntryFields DEF Entry
  <2> HIDE DEF at, q
  <2> QED BY <1>1, <2>1
<1>9. Books'[r].history = <<"payment.created">>
  <2>1. TypeOf(r, 1)' = "payment.created"
    BY <1>2, <1>3, TypeOfEventNow
  <2>2. Books'[r].history = [v \in 1..1 |-> TypeOf(r, v)']
    <3>1. Books'[r].history = History(r)'
      BY <1>2, <1>4, EntryFields DEF Entry
    <3>2. History(r)' = [v \in 1..payments'[r].version |-> TypeOf(r, v)']
      BY DEF History
    <3> QED BY <1>3, <3>1, <3>2
  <2>3. [v \in 1..1 |-> TypeOf(r, v)'] = [v \in 1..1 |-> "payment.created"]
    BY <2>1
  <2> QED BY <2>2, <2>3
<1> QED BY <1>1, <1>2, <1>4, <1>5, <1>7, <1>8, <1>9 DEF Ledger!Open

LEMMA NewVersionAdvancesAnEntry ==
  ASSUME EventsInv, EventsInv', NEW p, NEW now \in Nat, NewVersion(p, now)
  PROVE  Ledger!Advance(p) /\ p \in PaymentIds
<1> DEFINE type == EventType(payments'[p].status)
<1> PICK n : n = payments[p].version
  OBVIOUS
<1>1. /\ p \in DOMAIN payments /\ p \in PaymentIds
      /\ DOMAIN payments' = DOMAIN payments
      /\ \A x \in DOMAIN payments : x # p => payments'[x] = payments[x]
      /\ SameIdentity(payments'[p], payments[p])
      /\ payments'[p].version = n + 1
      /\ n \in Nat \ {0}
      /\ events' = events \cup {Event(p, n + 1, type)}
      /\ payments'[p].status \in Statuses
  BY DEF NewVersion, InsertEvent, EventsInv, IInv, TypeInv, TypeOK, PaymentRowOK, Positions
<1>2. /\ DOMAIN Books = DOMAIN payments /\ DOMAIN Books' = DOMAIN payments'
      /\ \A x \in DOMAIN payments : Books[x] = Entry(x)
      /\ \A x \in DOMAIN payments' : Books'[x] = Entry(x)'
  BY BooksAreEntries, BooksInPrimedState
<1>3. \A x \in DOMAIN payments : x # p => Books'[x] = Books[x]
  BY <1>1, <1>2, EntryStays
<1>4. TypeOf(p, n + 1)' = type
  <2>1. n + 1 \in 1..payments'[p].version /\ p \in DOMAIN payments'
    BY <1>1
  <2> HIDE DEF type
  <2>2. Event(p, n + 1, type) \in events'
    BY <1>1
  <2> QED BY <2>1, <2>2, TypeOfEventNow
<1>5. \A v \in 1..n : TypeOf(p, v)' = TypeOf(p, v)
  BY <1>1, TypesStay
<1> DEFINE old == History(p)
           new == History(p)'
<1>6. Books[p].history = old /\ Books'[p].history = new
  BY <1>1, <1>2, EntryFields DEF Entry
<1>7. new = Append(old, type)
  <2>1. /\ old = [v \in 1..n |-> TypeOf(p, v)]
        /\ new = [v \in 1..(n + 1) |-> TypeOf(p, v)']
    BY <1>1 DEF History
  <2> HIDE DEF type, old, new
  <2>2. Append(old, type) = [v \in 1..(n + 1) |-> IF v = n + 1 THEN type ELSE old[v]]
    <3> DEFINE S == { TypeOf(p, v) : v \in 1..n } \cup {type}
    <3>1. n \in Nat /\ type \in S /\ old \in [1..n -> S]
      BY <1>1, <2>1
    <3> HIDE DEF S
    <3>2. old \in Seq(S) /\ Len(old) = n
      BY <3>1
    <3>3. /\ Append(old, type) \in [1..(n + 1) -> S]
          /\ \A v \in 1..n : Append(old, type)[v] = old[v]
          /\ Append(old, type)[n + 1] = type
      <4> DEFINE longer == Append(old, type)
      <4>1. /\ longer \in Seq(S) /\ Len(longer) = Len(old) + 1
            /\ \A v \in 1..Len(old) : longer[v] = old[v]
            /\ longer[Len(old) + 1] = type
        BY <3>1, <3>2, AppendProperties
      <4> HIDE DEF longer
      <4>2. longer \in [1..(n + 1) -> S]
        BY <3>1, <3>2, <4>1
      <4> QED BY <3>2, <4>1, <4>2 DEF longer
    <3>4. \A v \in 1..(n + 1) : Append(old, type)[v] = IF v = n + 1 THEN type ELSE old[v]
      BY <3>1, <3>3
    <3> QED BY <3>3, <3>4
  <2>3. ASSUME NEW v \in 1..(n + 1)
        PROVE  TypeOf(p, v)' = IF v = n + 1 THEN type ELSE old[v]
    BY <1>1, <1>4, <1>5, <2>1
  <2> QED BY <2>1, <2>2, <2>3
<1>8. Books' = [Books EXCEPT ![p].history = Books'[p].history]
  <2>1. Books[p] = Entry(p) /\ Books'[p] = Entry(p)'
    BY <1>1, <1>2
  <2>2. Entry(p)' = [Entry(p) EXCEPT !.history = new]
    <3> HIDE DEF old, new
    <3>1. Entry(p)' = EntryOf(payments'[p], Request[p].key, new)
      BY DEF Entry, new
    <3> QED BY <1>1, <3>1, EntryWithHistory DEF Entry
  <2>3. Books = [x \in DOMAIN Books |-> Books[x]] /\ Books' = [x \in DOMAIN Books' |-> Books'[x]]
    BY BooksAreEntries, BooksInPrimedState
  <2> HIDE DEF old, new
  <2> QED BY <1>1, <1>2, <1>3, <1>6, <2>1, <2>2, <2>3
<1>9. type \in { EventType(s) : s \in Statuses }
  BY <1>1
<1> HIDE DEF type, old, new
<1> QED BY <1>1, <1>2, <1>6, <1>7, <1>8, <1>9 DEF Ledger!Advance

LEMMA BooksOpenEmpty == Init => Ledger!LedgerInit
  BY BooksAreEntries DEF Init, StoreInit, Ledger!LedgerInit

(* Every step of the platform is a step of the books, or none.             *)
LEMMA StepKeepsTheBooks ==
  ASSUME EventsInv, EventsInv', PlatformStep
  PROVE  [Ledger!LedgerNext]_Books
<1>1. CASE UNCHANGED TablesOfRecord
  <2>1. UNCHANGED <<payments, events>>
    BY <1>1 DEF TablesOfRecord
  <2> QED BY <2>1 DEF Books, TypeOf, EventsOf
<1>2. CASE \E r \in PaymentIds : Opens(r)
  BY <1>2, OpeningOpensAnEntry DEF Ledger!LedgerNext
<1>3. CASE \E p : \E now \in Nat : NewVersion(p, now)
  BY <1>3, NewVersionAdvancesAnEntry DEF Ledger!LedgerNext
<1> QED BY <1>1, <1>2, <1>3, StepEffects DEF EventsInv

(* The store implements the abstract ledger: under every interleaving of   *)
(* requests, reads and restarts, each step of it is a step of the books or *)
(* leaves them alone (create_payment, refresh_payment).                    *)
THEOREM StoreImplementsLedger == Spec => KeepsTheLedger
<1>1. EventsInv /\ EventsInv' /\ [Next]_vars => [Ledger!LedgerNext]_Books
  BY NextIsAPlatformStep, StepKeepsTheBooks
<1>2. Spec => Ledger!LedgerSpec
  BY <1>1, BooksOpenEmpty, EventsInductive, PTL DEF Spec, Ledger!LedgerSpec
<1> QED BY <1>2 DEF KeepsTheLedger
=============================================================================
