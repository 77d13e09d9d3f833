------------------------ MODULE PaymentWatcherProofs ------------------------
(***************************************************************************)
(* Proofs about PaymentWatcher: the whole payment platform, with any       *)
(* number of requests and reads, any chain, any queue limit and any number *)
(* of subscriptions and faults.                                            *)
(***************************************************************************)
EXTENDS PaymentWatcher, PaymentGatewayProofs, PaymentStateProofs

-----------------------------------------------------------------------------
(* Types of the watcher.                                                   *)

RequestAddresses == { Request[r].address : r \in PaymentIds }

Locals == {"stage", "mode", "height", "at", "pending", "ids", "address", "history",
           "payment", "upserts", "fetched"}

LocalOK(c) ==
  /\ DOMAIN c = Locals
  /\ c.stage \in Stages
  /\ c.mode \in Modes
  /\ c.height \in Nat
  /\ c.at \in Nat

(* The subscriptions of a session, those a pass has still to make          *)
(* included, are within the cap.                                           *)
SessionOK(subs, pending) ==
  /\ subs \cup pending \subseteq RequestAddresses
  /\ IsFiniteSet(subs \cup pending)
  /\ Cardinality(subs \cup pending) <= MaxSubscriptions

CoroutineOK ==
  /\ connected \in BOOLEAN
  /\ LocalOK(w)
  /\ SessionOK(subscribed, w.pending)

LEMMA SmallerSession ==
  ASSUME NEW S, NEW P, SessionOK(S, P), NEW T, NEW Q, T \cup Q \subseteq S \cup P
  PROVE  SessionOK(T, Q)
<1>1. /\ IsFiniteSet(T \cup Q)
      /\ Cardinality(T \cup Q) <= Cardinality(S \cup P)
  BY FS_Subset DEF SessionOK
<1>2. Cardinality(T \cup Q) \in Nat /\ Cardinality(S \cup P) \in Nat
  BY <1>1, FS_CardinalityType DEF SessionOK
<1> QED BY <1>1, <1>2, WatcherAssumption DEF SessionOK

LEMMA AtIsLocal ==
  ASSUME NEW stage \in Stages, NEW mode \in Modes
  PROVE  /\ LocalOK(At(stage, mode))
         /\ At(stage, mode).pending = {}
         /\ At(stage, mode).stage = stage
         /\ At(stage, mode).ids = {}
         /\ At(stage, mode).upserts = {}
  BY DEF At, LocalOK, Locals

(* What has to be shown of the next state.                                 *)
LEMMA CoroutineNext ==
  ASSUME connected' \in BOOLEAN, LocalOK(w'), SessionOK(subscribed', w'.pending)
  PROVE  CoroutineOK'
  BY DEF CoroutineOK, LocalOK, SessionOK, RequestAddresses

(* The ways out of a step.                                                 *)
LEMMA RaiseTyped == ASSUME Raise PROVE CoroutineOK'
<1>1. SessionOK({}, {})
  BY FS_EmptySet, WatcherAssumption DEF SessionOK
<1>2. LocalOK(w') /\ w'.pending = {} /\ subscribed' = {} /\ connected' = FALSE
  BY AtIsLocal DEF Raise, Stages, Modes
<1> QED BY <1>1, <1>2, CoroutineNext

LEMMA ContinueTyped ==
  ASSUME CoroutineOK, NEW c, LocalOK(c), Continue(c),
         subscribed \cup c.pending \subseteq subscribed \cup w.pending
  PROVE  CoroutineOK'
<1>1. w' = c /\ subscribed' = subscribed /\ connected' = connected
  BY DEF Continue
<1>2. SessionOK(subscribed, c.pending)
  BY SmallerSession DEF CoroutineOK
<1> QED BY <1>1, <1>2, CoroutineNext DEF CoroutineOK

LEMMA FullPass ==
  ASSUME NEW a, NEW pending
  PROVE  LET c == [At("history", "full") EXCEPT !.address = a, !.pending = pending]
         IN  LocalOK(c) /\ c.pending = pending
  BY DEF At, LocalOK, Locals, Stages, Modes

LEMMA SubscribePass ==
  ASSUME NEW mode \in Modes, NEW pending
  PROVE  LET c == [At("subscribe", mode) EXCEPT !.pending = pending]
         IN  LocalOK(c) /\ c.pending = pending
  BY DEF At, LocalOK, Locals, Stages

LEMMA LoopTyped == ASSUME CoroutineOK, Loop PROVE CoroutineOK'
<1>1. CASE Raise
  BY <1>1, RaiseTyped
<1>2. CASE Continue(At("wait", "none"))
  <2>1. LocalOK(At("wait", "none")) /\ At("wait", "none").pending = {}
    BY AtIsLocal DEF Stages, Modes
  <2> QED BY <1>2, <2>1, ContinueTyped
<1> QED BY <1>1, <1>2 DEF Loop

LEMMA EndPassTyped == ASSUME CoroutineOK, EndPass PROVE CoroutineOK'
<1>1. CASE Loop
  BY <1>1, LoopTyped
<1>2. ASSUME NEW a \in subscribed,
             Continue([At("history", "full") EXCEPT !.address = a, !.pending = subscribed \ {a}])
      PROVE  CoroutineOK'
  <2> DEFINE c == [At("history", "full") EXCEPT !.address = a, !.pending = subscribed \ {a}]
  <2>1. LocalOK(c) /\ c.pending = subscribed \ {a}
    BY FullPass
  <2> HIDE DEF c
  <2>2. Continue(c)
    BY <1>2 DEF c
  <2> QED BY <2>1, <2>2, ContinueTyped
<1> QED BY <1>1, <1>2 DEF EndPass

LEMMA EndReconcileTyped == ASSUME CoroutineOK, EndReconcile PROVE CoroutineOK'
<1>1. CASE Loop
  BY <1>1, LoopTyped
<1>2. CASE Continue([At("subscribe", w.mode) EXCEPT !.pending = w.pending])
  <2> DEFINE c == [At("subscribe", w.mode) EXCEPT !.pending = w.pending]
  <2>1. LocalOK(c) /\ c.pending = w.pending
    BY SubscribePass DEF CoroutineOK, LocalOK
  <2> HIDE DEF c
  <2>2. Continue(c)
    BY <1>2 DEF c
  <2> QED BY <2>1, <2>2, ContinueTyped
<1>3. CASE EndPass
  BY <1>3, EndPassTyped
<1>4. ASSUME NEW a \in w.pending,
             Continue([At("history", "full") EXCEPT !.address = a, !.pending = w.pending \ {a}])
      PROVE  CoroutineOK'
  <2> DEFINE c == [At("history", "full") EXCEPT !.address = a, !.pending = w.pending \ {a}]
  <2>1. LocalOK(c) /\ c.pending = w.pending \ {a}
    BY FullPass
  <2> HIDE DEF c
  <2>2. Continue(c)
    BY <1>4 DEF c
  <2> QED BY <2>1, <2>2, ContinueTyped
<1> QED BY <1>1, <1>2, <1>3, <1>4 DEF EndReconcile

LEMMA NextPaymentIsLocal ==
  ASSUME LocalOK(w), NEW ids, NEW n \in Nat
  PROVE  LocalOK(NextPayment(ids, n)) /\ NextPayment(ids, n).pending = w.pending
<1> DEFINE p == CHOOSE x \in ids : \A y \in ids : payments[x].created_at <= payments[y].created_at
           h == { x \in w.history : x.tx \notin baseline[p] }
           o == UNION { MatchTransactionOutputs(x.tx, Pays[x.tx], payments[p].address,
                                                x.height, n) : x \in h }
           stage == IF o = {} THEN "delete" ELSE "upsert"
<1>1. NextPayment(ids, n) = [w EXCEPT !.stage = stage, !.at = n, !.payment = p,
                                      !.ids = ids \ {p}, !.upserts = o]
  BY DEF NextPayment
<1>2. stage \in Stages
  BY DEF Stages
<1> HIDE DEF p, o, stage
<1> DEFINE c == [w EXCEPT !.stage = stage, !.at = n, !.payment = p, !.ids = ids \ {p},
                          !.upserts = o]
<1>3. LocalOK(c) /\ c.pending = w.pending
  BY <1>2 DEF LocalOK, Locals
<1> HIDE DEF c
<1> QED BY <1>1, <1>3 DEF c

LEMMA FlagTyped ==
  ASSUME needsFull \in BOOLEAN, EndPass \/ EndReconcile
  PROVE  needsFull' \in BOOLEAN
<1>1. CASE EndPass
  BY <1>1 DEF EndPass
<1>2. CASE EndReconcile
  BY <1>1, <1>2 DEF EndReconcile
<1> QED BY <1>1, <1>2

-----------------------------------------------------------------------------
(* What the steps of the watcher keep true of the watcher, given the       *)
(* invariant of the gateway.                                               *)

Notifications ==
  { <<"header", height>> : height \in Nat } \cup { <<"script", a>> : a \in RequestAddresses }

WatcherInv ==
  /\ IInv
  /\ CoroutineOK
  /\ needsFull \in BOOLEAN
  /\ queue \in Seq(Notifications)
  /\ Len(queue) <= QueueLimit
  /\ faults \in 0..MaxFaults
  /\ IsFiniteSet(DOMAIN payments)

(* list_watch_scripthashes answers at most as many addresses as asked for. *)
LEMMA WatchListed ==
  ASSUME WatcherInv, NEW desired \in WatchScripthashes(MaxSubscriptions)
  PROVE  SessionOK(desired, {})
<1> DEFINE S == { payments[p].address : p \in DOMAIN payments }
           f == [p \in DOMAIN payments |-> payments[p].address]
<1>1. f \in Surjection(DOMAIN payments, S)
  BY DEF Surjection
<1>2. IsFiniteSet(S)
  BY <1>1, FS_Surjection DEF WatcherInv
<1>3. S \subseteq RequestAddresses
  BY DEF WatcherInv, IInv, TypeInv, TypeOK, OpenedByReturn, RequestAddresses
<1> HIDE DEF S, f
<1>4. /\ desired \in SUBSET S
      /\ Cardinality(desired) = IF Cardinality(S) < MaxSubscriptions THEN Cardinality(S)
                                ELSE MaxSubscriptions
  BY DEF WatchScripthashes, TopBy, S
<1>5. IsFiniteSet(desired) /\ Cardinality(S) \in Nat
  BY <1>2, <1>4, FS_Subset, FS_CardinalityType
<1>6. Cardinality(desired) <= MaxSubscriptions
  BY <1>4, <1>5, WatcherAssumption
<1>7. desired \cup {} = desired
  OBVIOUS
<1> QED BY <1>3, <1>4, <1>5, <1>6, <1>7 DEF SessionOK

LEMMA SyncTyped == ASSUME WatcherInv, Sync PROVE CoroutineOK' /\ needsFull' \in BOOLEAN
<1>1. PICK desired \in WatchScripthashes(MaxSubscriptions) :
        \/ /\ Displaced(desired)
           /\ Raise
           /\ UNCHANGED needsFull
        \/ /\ ~Displaced(desired)
           /\ desired \ subscribed # {}
           /\ Continue([w EXCEPT !.stage = "subscribe", !.pending = desired \ subscribed])
           /\ UNCHANGED needsFull
        \/ /\ ~Displaced(desired)
           /\ desired \ subscribed = {}
           /\ EndPass
  BY DEF Sync
<1>2. CASE Raise /\ UNCHANGED needsFull
  BY <1>2, RaiseTyped DEF WatcherInv
<1>3. CASE /\ ~Displaced(desired)
           /\ Continue([w EXCEPT !.stage = "subscribe", !.pending = desired \ subscribed])
           /\ UNCHANGED needsFull
  <2> DEFINE c == [w EXCEPT !.stage = "subscribe", !.pending = desired \ subscribed]
  <2>1. LocalOK(c) /\ c.pending = desired \ subscribed
    BY DEF WatcherInv, CoroutineOK, LocalOK, Locals, Stages
  <2> HIDE DEF c
  <2>2. w' = c /\ subscribed' = subscribed /\ connected' = connected
    BY <1>3 DEF c, Continue
  <2>3. subscribed \subseteq desired
    BY <1>3 DEF Displaced
  <2>4. SessionOK(subscribed, c.pending)
    BY <2>1, <2>3, WatchListed, SmallerSession
  <2> QED BY <1>3, <2>1, <2>2, <2>4, CoroutineNext DEF WatcherInv, CoroutineOK
<1>4. CASE EndPass
  BY <1>4, EndPassTyped, FlagTyped DEF WatcherInv
<1> QED BY <1>1, <1>2, <1>3, <1>4

LEMMA SubscribeTyped == ASSUME WatcherInv, Subscribe PROVE CoroutineOK'
<1>1. CASE Raise
  BY <1>1, RaiseTyped
<1>2. ASSUME NEW a \in w.pending, subscribed' = subscribed \cup {a},
             w' = [w EXCEPT !.stage = "history", !.address = a, !.pending = @ \ {a}],
             UNCHANGED connected
      PROVE  CoroutineOK'
  <2> DEFINE c == [w EXCEPT !.stage = "history", !.address = a, !.pending = @ \ {a}]
  <2>1. LocalOK(c) /\ c.pending = w.pending \ {a}
    BY DEF WatcherInv, CoroutineOK, LocalOK, Locals, Stages
  <2> HIDE DEF c
  <2>2. SessionOK(subscribed', c.pending)
    BY <1>2, <2>1, SmallerSession DEF WatcherInv, CoroutineOK
  <2>3. w' = c
    BY <1>2 DEF c
  <2> QED BY <1>2, <2>1, <2>2, <2>3, CoroutineNext DEF WatcherInv, CoroutineOK
<1> QED BY <1>1, <1>2 DEF Subscribe

(* The steps that only look at the store, or change it in ways the         *)
(* coroutine's own variables do not depend on.                             *)
LEMMA HeaderTyped ==
  ASSUME WatcherInv, Connect \/ ApplyTip \/ ListRefreshable \/ RefreshListed
  PROVE  CoroutineOK'
<1> USE DEF WatcherInv
<1>1. LocalOK(w) /\ w.mode \in Modes /\ clock \in Nat /\ tip \in Nat
  BY TipIsAHeight DEF CoroutineOK, LocalOK, IInv, TypeInv, TypeOK
<1>2. ASSUME EndHeader PROVE CoroutineOK'
  <2>1. CASE Continue(At("sync", "init"))
    <3>1. LocalOK(At("sync", "init")) /\ At("sync", "init").pending = {}
      BY AtIsLocal DEF Stages, Modes
    <3> QED BY <2>1, <3>1, ContinueTyped
  <2>2. CASE Loop
    BY <2>2, LoopTyped
  <2> QED BY <1>2, <2>1, <2>2 DEF EndHeader
<1>3. CASE Connect
  <2> DEFINE c == [At("apply", "init") EXCEPT !.height = tip]
  <2>1. LocalOK(c) /\ c.pending = {}
    BY <1>1 DEF At, LocalOK, Locals, Stages, Modes
  <2> HIDE DEF c
  <2>2. w' = c /\ connected' = TRUE /\ subscribed' = subscribed
    BY <1>3 DEF Connect, c
  <2>3. SessionOK(subscribed, c.pending)
    BY <2>1, SmallerSession DEF CoroutineOK
  <2> QED BY <2>1, <2>2, <2>3, CoroutineNext
<1>4. CASE ApplyTip
  <2> DEFINE c == [At("list", w.mode) EXCEPT !.at = clock]
  <2>1. LocalOK(c) /\ c.pending = {}
    BY <1>1 DEF At, LocalOK, Locals, Stages
  <2> HIDE DEF c
  <2>2. Continue(c)
    BY <1>4 DEF ApplyTip, c
  <2> QED BY <2>1, <2>2, ContinueTyped
<1>5. CASE ListRefreshable
  <2>1. PICK ids : IF ids = {} THEN EndHeader
                   ELSE Continue([w EXCEPT !.stage = "refresh", !.ids = ids])
    BY <1>5 DEF ListRefreshable
  <2> DEFINE c == [w EXCEPT !.stage = "refresh", !.ids = ids]
  <2>2. LocalOK(c) /\ c.pending = w.pending
    BY <1>1 DEF LocalOK, Locals, Stages
  <2> HIDE DEF c
  <2>3. EndHeader \/ Continue(c)
    BY <2>1 DEF c
  <2> QED BY <1>2, <2>2, <2>3, ContinueTyped
<1>6. CASE RefreshListed
  <2>1. PICK p : EndHeader \/ Continue([w EXCEPT !.ids = @ \ {p}])
    BY <1>6 DEF RefreshListed
  <2> DEFINE c == [w EXCEPT !.ids = @ \ {p}]
  <2>2. LocalOK(c) /\ c.pending = w.pending
    BY <1>1 DEF LocalOK, Locals
  <2> HIDE DEF c
  <2>3. EndHeader \/ Continue(c)
    BY <2>1 DEF c
  <2> QED BY <1>2, <2>2, <2>3, ContinueTyped
<1> QED BY <1>3, <1>4, <1>5, <1>6

LEMMA ReconcileTyped ==
  ASSUME WatcherInv, ReadHistory \/ LoadPayments \/ Upsert \/ Delete \/ Evaluate
  PROVE  CoroutineOK' /\ needsFull' \in BOOLEAN
<1> USE DEF WatcherInv
<1>1. LocalOK(w) /\ clock \in Nat /\ w.at \in Nat
  BY DEF CoroutineOK, LocalOK, IInv, TypeInv, TypeOK
<1>2. ASSUME Raise, UNCHANGED needsFull PROVE CoroutineOK' /\ needsFull' \in BOOLEAN
  BY <1>2, RaiseTyped
<1>3. ASSUME EndReconcile PROVE CoroutineOK' /\ needsFull' \in BOOLEAN
  BY <1>3, EndReconcileTyped, FlagTyped
<1>4. ASSUME NEW ids, NEW n \in Nat, Continue(NextPayment(ids, n)), UNCHANGED needsFull
      PROVE  CoroutineOK' /\ needsFull' \in BOOLEAN
  BY <1>1, <1>4, NextPaymentIsLocal, ContinueTyped
<1>5. CASE ReadHistory
  <2> DEFINE h == { [tx |-> t, height |-> position[t]] : t \in HistoryOf(w.address) }
             c == [w EXCEPT !.stage = "load", !.history = h]
  <2> HIDE DEF h
  <2>1. LocalOK(c) /\ c.pending = w.pending
    BY <1>1 DEF LocalOK, Locals, Stages
  <2> HIDE DEF c
  <2>2. UNCHANGED needsFull /\ (Raise \/ Continue(c))
    BY <1>5 DEF ReadHistory, c, h
  <2> QED BY <1>2, <2>1, <2>2, ContinueTyped
<1>6. CASE LoadPayments
  BY <1>1, <1>3, <1>4, <1>6 DEF LoadPayments
<1>7. CASE Upsert
  <2>1. PICK o : \/ Continue([w EXCEPT !.upserts = @ \ {o}, !.fetched = @ \cup {o.tx},
                                !.stage = IF w.upserts = {o} THEN "delete" ELSE "upsert"])
                 \/ Raise
    BY <1>7 DEF Upsert
  <2> DEFINE c == [w EXCEPT !.upserts = @ \ {o}, !.fetched = @ \cup {o.tx},
                            !.stage = IF w.upserts = {o} THEN "delete" ELSE "upsert"]
  <2>2. LocalOK(c) /\ c.pending = w.pending
    BY <1>1 DEF LocalOK, Locals, Stages
  <2> HIDE DEF c
  <2>3. UNCHANGED needsFull /\ (Raise \/ Continue(c))
    BY <1>7, <2>1 DEF Upsert, c
  <2> QED BY <1>2, <2>2, <2>3, ContinueTyped
<1>8. CASE Delete
  <2> DEFINE c == [w EXCEPT !.stage = "evaluate"]
  <2>1. LocalOK(c) /\ c.pending = w.pending
    BY <1>1 DEF LocalOK, Locals, Stages
  <2> HIDE DEF c
  <2>2. UNCHANGED needsFull /\ Continue(c)
    BY <1>8 DEF Delete, c
  <2> QED BY <2>1, <2>2, ContinueTyped
<1>9. CASE Evaluate
  BY <1>1, <1>3, <1>4, <1>9 DEF Evaluate
<1> QED BY <1>5, <1>6, <1>7, <1>8, <1>9

LEMMA LoopStepTyped ==
  ASSUME WatcherInv, TakeNotification \/ Timeout
  PROVE  CoroutineOK' /\ queue' \in Seq(Notifications) /\ Len(queue') <= QueueLimit
<1> USE DEF WatcherInv
<1>1. CASE Timeout
  <2>1. LocalOK(At("sync", "timeout")) /\ At("sync", "timeout").pending = {}
    BY AtIsLocal DEF Stages, Modes
  <2>2. Continue(At("sync", "timeout")) /\ UNCHANGED queue
    BY <1>1 DEF Timeout
  <2> QED BY <2>1, <2>2, ContinueTyped
<1>2. CASE TakeNotification
  <2> DEFINE n == Head(queue)
  <2>1. queue # <<>> /\ queue' = Tail(queue)
    BY <1>2 DEF TakeNotification
  <2>2. n \in Notifications /\ queue' \in Seq(Notifications) /\ Len(queue') <= QueueLimit
    BY <2>1, WatcherAssumption
  <2>3. n[1] = "header" => n[2] \in Nat
    BY <2>2 DEF Notifications
  <2> HIDE DEF n
  <2>4. CASE n[1] = "header" /\ Continue([At("apply", "notify") EXCEPT !.height = n[2]])
    <3> DEFINE c == [At("apply", "notify") EXCEPT !.height = n[2]]
    <3>1. LocalOK(c) /\ c.pending = {}
      BY <2>3, <2>4 DEF At, LocalOK, Locals, Stages, Modes
    <3> HIDE DEF c
    <3>2. Continue(c)
      BY <2>4 DEF c
    <3> QED BY <2>2, <3>1, <3>2, ContinueTyped
  <2>5. CASE Continue([At("history", "notify") EXCEPT !.address = n[2]])
    <3> DEFINE c == [At("history", "notify") EXCEPT !.address = n[2]]
    <3>1. LocalOK(c) /\ c.pending = {}
      BY DEF At, LocalOK, Locals, Stages, Modes
    <3> HIDE DEF c
    <3>2. Continue(c)
      BY <2>5 DEF c
    <3> QED BY <2>2, <3>1, <3>2, ContinueTyped
  <2>6. CASE Loop
    BY <2>2, <2>6, LoopTyped
  <2> QED BY <1>2, <2>4, <2>5, <2>6 DEF TakeNotification, n
<1> QED BY <1>1, <1>2

(* What arrives at a full queue is dropped.                                *)
LEMMA ReceiveTyped ==
  ASSUME queue \in Seq(Notifications), Len(queue) <= QueueLimit, needsFull \in BOOLEAN,
         NEW arriving \in Seq(Notifications), Receive(arriving)
  PROVE  /\ queue' \in Seq(Notifications)
         /\ Len(queue') <= QueueLimit
         /\ needsFull' \in BOOLEAN
<1> DEFINE room == QueueLimit - Len(queue)
           n == IF Len(arriving) < room THEN Len(arriving) ELSE room
           taken == SubSeq(arriving, 1, n)
<1>1. /\ QueueLimit \in Nat /\ Len(queue) \in Nat /\ Len(arriving) \in Nat
      /\ n \in Nat /\ n <= Len(arriving) /\ Len(queue) + n <= QueueLimit
  BY WatcherAssumption, LenProperties
<1>2. queue' = queue \o taken /\ needsFull' = (needsFull \/ Len(arriving) > room)
  BY DEF Receive
<1> HIDE DEF n, room
<1>3. taken \in Seq(Notifications) /\ Len(taken) = n
  <2>1. \A i \in 1..n : arriving[i] \in Notifications
    BY <1>1, ElementOfSeq
  <2> QED BY <1>1, <2>1, SubSeqProperties
<1> HIDE DEF taken
<1>4. queue' \in Seq(Notifications) /\ Len(queue') = Len(queue) + n
  BY <1>2, <1>3, ConcatProperties
<1> QED BY <1>1, <1>2, <1>4

LEMMA ServerTyped ==
  ASSUME WatcherInv, TypeInv', ServerStep
  PROVE  /\ CoroutineOK'
         /\ queue' \in Seq(Notifications)
         /\ Len(queue') <= QueueLimit
         /\ needsFull' \in BOOLEAN
<1> USE DEF WatcherInv
<1>1. UNCHANGED <<connected, subscribed, w>>
  BY DEF ServerStep
<1>2. CoroutineOK'
  BY <1>1, CoroutineNext DEF CoroutineOK
<1>3. CASE UNCHANGED <<queue, needsFull>>
  BY <1>2, <1>3
<1>4. CASE \E scripts \in SetToSeqs({ <<"script", a>> : a \in Touched }) :
             Receive((IF tip' # tip THEN << <<"header", tip'>> >> ELSE <<>>) \o scripts)
  <2> DEFINE S == { <<"script", a>> : a \in Touched }
             f == [a \in Touched |-> <<"script", a>>]
             header == IF tip' # tip THEN << <<"header", tip'>> >> ELSE <<>>
  <2>1. PICK scripts \in SetToSeqs(S) : Receive(header \o scripts)
    BY <1>4
  <2>2. IsFiniteSet(subscribed) /\ subscribed \subseteq RequestAddresses
    BY FS_Subset DEF CoroutineOK, SessionOK
  <2>3. Touched \subseteq subscribed
    BY DEF Touched
  <2>4. IsFiniteSet(S)
    <3>1. f \in Surjection(Touched, S)
      BY DEF Surjection
    <3>2. IsFiniteSet(Touched)
      BY <2>2, <2>3, FS_Subset
    <3> QED BY <3>1, <3>2, FS_Surjection
  <2>5. S \subseteq Notifications
    BY <2>2, <2>3 DEF Notifications
  <2> HIDE DEF S, f
  <2>6. scripts \in Seq(Notifications)
    <3>1. scripts \in [1..Cardinality(S) -> S]
      BY <2>1 DEF SetToSeqs
    <3>2. Cardinality(S) \in Nat
      BY <2>4, FS_CardinalityType
    <3> QED BY <2>5, <3>1, <3>2
  <2>7. header \in Seq(Notifications)
    <3>1. tip' \in Nat
      BY ChainAssumption DEF TypeInv, ChainTypeOK
    <3>2. <<"header", tip'>> \in Notifications
      BY <3>1 DEF Notifications
    <3> QED BY <3>2
  <2> HIDE DEF header
  <2>8. header \o scripts \in Seq(Notifications)
    BY <2>6, <2>7, ConcatProperties
  <2> QED BY <1>2, <2>1, <2>8, ReceiveTyped
<1> QED BY <1>3, <1>4 DEF ServerStep, Notify

-----------------------------------------------------------------------------
(* Every step of the platform is one PaymentGatewayProofs speaks of.       *)

LEMMA WatcherStepIsAPlatformStep ==
  ASSUME WatcherInv, WatcherStep
  PROVE  WatcherTransaction \/ UNCHANGED vars
<1>1. w.at \in Nat /\ w.height \in Nat
  BY DEF WatcherInv, CoroutineOK, LocalOK
<1>2. CASE ApplyTip
  BY <1>1, <1>2 DEF ApplyTip, WatcherTransaction
<1>3. CASE RefreshListed
  BY <1>1, <1>3 DEF RefreshListed, WatcherTransaction
<1>4. CASE Evaluate
  BY <1>1, <1>4 DEF Evaluate, WatcherTransaction
<1>5. CASE Upsert
  <2>1. UNCHANGED <<chainVars, gatewayVars>>
    BY <1>5 DEF Upsert
  <2>2. (\E o : UpsertTransaction(w.payment, o)) \/ UNCHANGED storeVars
    BY <1>5 DEF Upsert
  <2> QED BY <2>1, <2>2 DEF WatcherTransaction, vars
<1>6. CASE Delete
  BY <1>6 DEF Delete, WatcherTransaction
<1>7. CASE \/ Connect \/ ListRefreshable \/ Sync \/ Subscribe \/ ReadHistory
           \/ LoadPayments \/ TakeNotification \/ Timeout
  BY <1>7 DEF Connect, ListRefreshable, Sync, Subscribe, ReadHistory, LoadPayments,
              TakeNotification, Timeout, vars
<1> QED BY <1>2, <1>3, <1>4, <1>5, <1>6, <1>7 DEF WatcherStep

LEMMA WatcherNextIsAPlatformStep ==
  ASSUME WatcherInv, [WatcherNext]_allVars
  PROVE  PlatformStep
<1>1. CASE WatcherStep
  BY <1>1, WatcherStepIsAPlatformStep DEF PlatformStep
<1>2. CASE ApiStep \/ ServerStep
  BY <1>2 DEF ApiStep, ServerStep, PlatformStep
<1>3. CASE ServiceRestart
  BY <1>3 DEF ServiceRestart, RequestsForgotten, PlatformStep
<1>4. CASE Disconnect \/ CycleFails \/ UNCHANGED allVars
  BY <1>4 DEF Disconnect, CycleFails, allVars, codeVars, PlatformStep
<1> QED BY <1>1, <1>2, <1>3, <1>4 DEF WatcherNext, PlatformMoves

(* A step opens at most one payment.                                       *)
LEMMA PaymentsStayFinite ==
  ASSUME IInv, PlatformStep, IsFiniteSet(DOMAIN payments)
  PROVE  IsFiniteSet(DOMAIN payments')
<1>1. CASE UNCHANGED TablesOfRecord
  BY <1>1 DEF TablesOfRecord
<1>2. ASSUME NEW r \in PaymentIds, Opens(r) PROVE IsFiniteSet(DOMAIN payments')
  <2>1. DOMAIN payments' = DOMAIN payments \cup {r}
    BY <1>2 DEF Opens, CreatePayment
  <2> QED BY <2>1, FS_AddElement
<1>3. CASE \E p : \E now \in Nat : NewVersion(p, now)
  BY <1>3 DEF NewVersion
<1> QED BY <1>1, <1>2, <1>3, StepEffects

-----------------------------------------------------------------------------
LEMMA InitWatcherInv == WatcherSystemInit => WatcherInv
<1> SUFFICES ASSUME WatcherSystemInit PROVE WatcherInv
  OBVIOUS
<1>1. IInv
  BY InitIInv DEF WatcherSystemInit
<1>2. CoroutineOK
  <2>1. w = At("down", "none") /\ subscribed = {} /\ connected = FALSE
    BY DEF WatcherSystemInit, WatcherInit
  <2>2. LocalOK(w) /\ w.pending = {}
    BY <2>1, AtIsLocal DEF Stages, Modes
  <2>3. SessionOK(subscribed, w.pending)
    BY <2>1, <2>2, FS_EmptySet, WatcherAssumption DEF SessionOK
  <2> QED BY <2>1, <2>2, <2>3 DEF CoroutineOK
<1>3. queue = <<>> /\ needsFull \in BOOLEAN /\ faults = 0
  BY DEF WatcherSystemInit, WatcherInit
<1>4. queue \in Seq(Notifications) /\ Len(queue) <= QueueLimit /\ faults \in 0..MaxFaults
  BY <1>3, WatcherAssumption
<1>5. IsFiniteSet(DOMAIN payments)
  <2>1. DOMAIN payments = {}
    BY DEF WatcherSystemInit, Init, StoreInit
  <2> QED BY <2>1, FS_EmptySet
<1> QED BY <1>1, <1>2, <1>3, <1>4, <1>5 DEF WatcherInv

LEMMA StepWatcherInv ==
  ASSUME WatcherInv, [WatcherNext]_allVars
  PROVE  WatcherInv'
<1>1. PlatformStep
  BY WatcherNextIsAPlatformStep
<1>2. IInv'
  BY <1>1, StepIInv DEF WatcherInv
<1>3. IsFiniteSet(DOMAIN payments')
  BY <1>1, PaymentsStayFinite DEF WatcherInv
<1> DEFINE Typed == /\ CoroutineOK'
                    /\ needsFull' \in BOOLEAN
                    /\ queue' \in Seq(Notifications)
                    /\ Len(queue') <= QueueLimit
                    /\ faults' \in 0..MaxFaults
<1> SUFFICES Typed
  BY <1>2, <1>3 DEF WatcherInv
<1> USE DEF WatcherInv
<1>4. ASSUME Fault PROVE faults' \in 0..MaxFaults
  BY <1>4, WatcherAssumption DEF Fault
<1>5. <<>> \in Seq(Notifications) /\ Len(<<>>) <= QueueLimit
  BY WatcherAssumption
<1>6. CASE Connect
  BY <1>5, <1>6, HeaderTyped DEF Connect
<1>7. CASE ApplyTip \/ ListRefreshable \/ RefreshListed
  BY <1>7, HeaderTyped DEF ApplyTip, ListRefreshable, RefreshListed
<1>8. CASE Sync
  BY <1>8, SyncTyped DEF Sync
<1>9. CASE Subscribe
  BY <1>9, SubscribeTyped DEF Subscribe
<1>10. CASE ReadHistory \/ LoadPayments \/ Upsert \/ Delete \/ Evaluate
  BY <1>10, ReconcileTyped DEF ReadHistory, LoadPayments, Upsert, Delete, Evaluate
<1>11. CASE TakeNotification \/ Timeout
  BY <1>11, LoopStepTyped DEF TakeNotification, Timeout
<1>12. CASE ServerStep
  BY <1>2, <1>12, ServerTyped DEF ServerStep, IInv
<1>13. CASE Disconnect
  <2>1. connected' \in BOOLEAN /\ UNCHANGED <<w, subscribed, queue, needsFull>>
    BY <1>13 DEF Disconnect
  <2> QED BY <1>4, <1>13, <2>1, CoroutineNext DEF Disconnect, CoroutineOK
<1>14. CASE CycleFails
  BY <1>4, <1>14, RaiseTyped DEF CycleFails
<1>15. CASE ServiceRestart
  <2>1. Raise
    BY <1>15 DEF ServiceRestart, Raise
  <2> QED BY <1>4, <1>5, <1>15, <2>1, RaiseTyped DEF ServiceRestart
<1>16. CASE ApiStep \/ UNCHANGED allVars
  <2>1. UNCHANGED watcherVars
    BY <1>16 DEF ApiStep, allVars, codeVars
  <2> QED BY <2>1, CoroutineNext DEF watcherVars, CoroutineOK
<1> QED BY <1>6, <1>7, <1>8, <1>9, <1>10, <1>11, <1>12, <1>13, <1>14, <1>15, <1>16
        DEF WatcherNext, PlatformMoves, WatcherStep

LEMMA WatcherInductive == WatcherSpec => []WatcherInv
  BY InitWatcherInv, StepWatcherInv, PTL DEF WatcherSpec

(* Every reachable state of the platform is well typed, the queue within   *)
(* its limit included (_on_notification).                                  *)
THEOREM WatcherTyped == WatcherSpec => []WatcherTypeOK
<1>1. WatcherInv => WatcherTypeOK
  BY SmallerSession DEF WatcherInv, CoroutineOK, LocalOK, SessionOK, RequestAddresses,
                        WatcherTypeOK, IInv, TypeInv
<1> QED BY <1>1, WatcherInductive, PTL

(* However the addresses, their ranks and the session change, a session    *)
(* never holds more subscriptions than configured (_sync_subscriptions).   *)
THEOREM SessionStaysWithinTheCap == WatcherSpec => []SubscriptionsCapped
<1>1. WatcherInv => SubscriptionsCapped
  <2> SUFFICES ASSUME WatcherInv PROVE SubscriptionsCapped
    OBVIOUS
  <2>1. SessionOK(subscribed, {})
    BY SmallerSession DEF WatcherInv, CoroutineOK
  <2>2. subscribed \cup {} = subscribed
    OBVIOUS
  <2> QED BY <2>1, <2>2 DEF SessionOK, SubscriptionsCapped
<1> QED BY <1>1, WatcherInductive, PTL

-----------------------------------------------------------------------------
(* What PaymentGatewayProofs shows of a platform step, for the whole       *)
(* platform.                                                               *)

LEMMA InitPlatform == WatcherSystemInit => Init
  BY DEF WatcherSystemInit

LEMMA EventsOfThePlatform == WatcherSpec => []EventsInv
  BY WatcherInductive, InitPlatform, InitEventsInv, WatcherNextIsAPlatformStep, StepEventsInv,
     PTL DEF WatcherSpec

LEMMA SnapshotsOfThePlatform == WatcherSpec => []SnapshotInv
  BY WatcherInductive, InitPlatform, InitSnapshotInv, WatcherNextIsAPlatformStep,
     StepSnapshotInv, PTL DEF WatcherSpec

(* With the watcher refreshing, recording and restarting between any two   *)
(* awaits of the requests, the promises of the store still hold: windows   *)
(* never overlap, a reference names one payment, events match versions and *)
(* every event is owed once to the endpoints that asked for it.            *)
THEOREM StorePromisesHoldOnThePlatform ==
  WatcherSpec => [](WindowsDisjoint /\ OnePaymentPerReference
                      /\ EventsMatchVersions /\ DeliveriesMatchEvents)
<1>1. EventsInv => WindowsDisjoint /\ OnePaymentPerReference
                     /\ EventsMatchVersions /\ DeliveriesMatchEvents
  BY DeliveriesRowByRow DEF EventsInv, IInv
<1> QED BY <1>1, EventsOfThePlatform, PTL

(* An idempotency key still opens one payment, and every request answered  *)
(* under it is answered with that payment.                                 *)
THEOREM KeysOpenOnePaymentOnThePlatform == WatcherSpec => []OnePaymentPerKey
<1>1. WatcherInv => OnePaymentPerKey
  BY IInvBindsKeys DEF WatcherInv
<1> QED BY <1>1, WatcherInductive, PTL

(* The watcher's own writes leave no gap in the snapshot of a payment.     *)
THEOREM SnapshotsHaveNoGapOnThePlatform == WatcherSpec => []SnapshotHasNoGap
  BY SnapshotsOfThePlatform, SnapshotInvHasNoGap, PTL

(* The platform implements the ledger: each step of it, those of the       *)
(* watcher included, is one step of the books or leaves them alone.        *)
THEOREM PlatformImplementsLedger == WatcherSpec => KeepsTheLedger
<1>1. WatcherInv /\ EventsInv /\ EventsInv' /\ [WatcherNext]_allVars
        => [Ledger!LedgerNext]_Books
  BY WatcherNextIsAPlatformStep, StepKeepsTheBooks
<1>2. WatcherSpec => Ledger!LedgerSpec
  BY <1>1, InitPlatform, BooksOpenEmpty, WatcherInductive, EventsOfThePlatform, PTL
     DEF WatcherSpec, Ledger!LedgerSpec
<1> QED BY <1>2 DEF KeepsTheLedger

-----------------------------------------------------------------------------
(* The rows of a payment, and the observations of them that the coroutine  *)
(* still carries: each is of an output to the payment's address, of a      *)
(* transaction outside the baseline, and unless a transaction was evicted  *)
(* the server had that transaction by the row's first-seen time.           *)

Known(t) == ~evicted => position[t] # Unknown

Observed(t, at) == ~evicted => position[t] # Unknown /\ arrived[t] <= at

Traced(p, o) ==
  /\ p \in DOMAIN payments
  /\ DOMAIN o = {"tx", "vout", "value", "height", "first_seen"}
  /\ o.tx \in Tx \ baseline[p]
  /\ o.vout \in DOMAIN Pays[o.tx]
  /\ Pays[o.tx][o.vout].address = payments[p].address
  /\ Pays[o.tx][o.vout].value > 0
  /\ o.value = Pays[o.tx][o.vout].value
  /\ o.first_seen \in Nat
  /\ Observed(o.tx, o.first_seen)

LocalsTraced(c) ==
  /\ c.stage \in {"load", "upsert", "delete", "evaluate"} =>
       \A h \in c.history : h.tx \in Tx /\ Known(h.tx)
  /\ c.stage \in {"upsert", "delete", "evaluate"} =>
       /\ c.ids \subseteq DOMAIN payments
       /\ \A h \in c.history : Observed(h.tx, c.at)
  /\ c.stage = "upsert" => \A o \in c.upserts : Traced(c.payment, o)

RowsTraced ==
  /\ DOMAIN transactions = PaymentIds
  /\ \A p \in PaymentIds : \A r \in transactions[p] : Traced(p, r)

RowsInv ==
  /\ WatcherInv
  /\ SnapshotInv
  /\ LocalsTraced(w)
  /\ RowsTraced

(* An observation keeps its trace, whatever the platform does: payments    *)
(* keep their address and baseline, and only an eviction loses a           *)
(* transaction.                                                            *)
LEMMA ChainKeepsObserved ==
  ASSUME SnapshotInv, PlatformStep
  PROVE  \A t \in Tx : \A at : /\ Known(t) => Known(t)'
                               /\ Observed(t, at) => Observed(t, at)'
<1>1. CASE ChainStep
  <2>1. arrived' = [t \in Tx |-> IF position[t] = Unknown /\ position'[t] # Unknown
                                 THEN clock ELSE arrived[t]]
    BY <1>1 DEF ChainStep
  <2> QED BY <1>1, <2>1, ChainMoves DEF SnapshotInv, IInv, Known, Observed
<1>2. CASE UNCHANGED <<chainVars, arrived>>
  BY <1>2 DEF chainVars, Known, Observed
<1>3. PlatformStep /\ ~ChainStep => UNCHANGED <<chainVars, arrived>>
  BY DEF PlatformStep, CreateStep, CheckReplay, CheckReference, CheckAddress, SnapshotTip,
         SnapshotHistory, SnapshotFails, SaveTip, Insert, GetStep, BeginGet, FinishGet,
         RequestsForgotten, Tick, WatcherTransaction, vars, gatewayVars
<1> QED BY <1>1, <1>2, <1>3

LEMMA PaymentsKeepTheirOrigin ==
  ASSUME IInv, PlatformStep
  PROVE  \A p \in DOMAIN payments : /\ p \in DOMAIN payments'
                                    /\ payments'[p].address = payments[p].address
                                    /\ baseline'[p] = baseline[p]
<1>1. CASE UNCHANGED TablesOfRecord
  BY <1>1 DEF TablesOfRecord
<1>2. CASE \E r \in PaymentIds : Opens(r)
  BY <1>2 DEF Opens, CreatePayment, IInv, TypeInv, TypeOK
<1>3. CASE \E p : \E now \in Nat : NewVersion(p, now)
  BY <1>3 DEF NewVersion, SameIdentity
<1> QED BY <1>1, <1>2, <1>3, StepEffects

LEMMA TracesLast ==
  ASSUME SnapshotInv, PlatformStep
  PROVE  \A p, o : Traced(p, o) => Traced(p, o)'
<1> SUFFICES ASSUME NEW p, NEW o, Traced(p, o) PROVE Traced(p, o)'
  OBVIOUS
<1>1. Observed(o.tx, o.first_seen)'
  BY ChainKeepsObserved DEF Traced
<1>2. /\ p \in DOMAIN payments'
      /\ payments'[p].address = payments[p].address
      /\ baseline'[p] = baseline[p]
  BY PaymentsKeepTheirOrigin DEF SnapshotInv, Traced
<1> QED BY <1>1, <1>2 DEF Traced

LEMMA LocalsStayTraced ==
  ASSUME SnapshotInv, PlatformStep
  PROVE  \A c : LocalsTraced(c) => LocalsTraced(c)'
<1> SUFFICES ASSUME NEW c, LocalsTraced(c) PROVE LocalsTraced(c)'
  OBVIOUS
<1>1. DOMAIN payments \subseteq DOMAIN payments'
  BY PaymentsKeepTheirOrigin DEF SnapshotInv
<1>2. c.stage = "upsert" => \A o \in c.upserts : Traced(c.payment, o)'
  BY TracesLast DEF LocalsTraced
<1>3. c.stage \in {"load", "upsert", "delete", "evaluate"} =>
        \A h \in c.history : h.tx \in Tx /\ Known(h.tx)'
  BY ChainKeepsObserved DEF LocalsTraced
<1>4. c.stage \in {"upsert", "delete", "evaluate"} =>
        \A h \in c.history : Observed(h.tx, c.at)'
  BY ChainKeepsObserved DEF LocalsTraced
<1> QED BY <1>1, <1>2, <1>3, <1>4 DEF LocalsTraced

LEMMA NextLocalsTraced ==
  ASSUME NEW c, w' = c, LocalsTraced(c)'
  PROVE  LocalsTraced(w)'
  BY DEF LocalsTraced, Traced, Known, Observed

-----------------------------------------------------------------------------
(* Where the coroutine carries no observations.                            *)

Unburdened(c) == c.stage \notin {"load", "upsert", "delete", "evaluate"}

LEMMA WaysOutUnburdened ==
  ASSUME Raise \/ Loop \/ EndPass \/ EndReconcile
  PROVE  Unburdened(w')
<1>1. ASSUME Raise PROVE Unburdened(w')
  BY <1>1 DEF Raise, At, Unburdened
<1>2. ASSUME Loop PROVE Unburdened(w')
  BY <1>1, <1>2 DEF Loop, Continue, At, Unburdened
<1>3. ASSUME EndPass PROVE Unburdened(w')
  BY <1>2, <1>3 DEF EndPass, Continue, At, Unburdened
<1>4. ASSUME EndReconcile PROVE Unburdened(w')
  <2>1. CASE Loop
    BY <1>2, <2>1
  <2>2. CASE EndPass
    BY <1>3, <2>2
  <2>3. ASSUME NEW mode, NEW pending,
               Continue([At("subscribe", mode) EXCEPT !.pending = pending])
        PROVE  Unburdened(w')
    BY <2>3 DEF Continue, At, Unburdened
  <2>4. ASSUME NEW a, NEW pending,
               Continue([At("history", "full") EXCEPT !.address = a, !.pending = pending])
        PROVE  Unburdened(w')
    BY <2>4 DEF Continue, At, Unburdened
  <2> QED BY <1>4, <2>1, <2>2, <2>3, <2>4 DEF EndReconcile
<1> QED BY <1>1, <1>2, <1>3, <1>4

LEMMA SessionStepUnburdened ==
  ASSUME LocalOK(w), Connect \/ ApplyTip \/ ListRefreshable \/ RefreshListed \/ Sync
                       \/ Subscribe \/ TakeNotification \/ Timeout
  PROVE  Unburdened(w')
<1> USE DEF LocalOK, Locals
<1>1. ASSUME EndHeader PROVE Unburdened(w')
  BY <1>1, WaysOutUnburdened DEF EndHeader, Continue, At, Unburdened
<1>2. CASE Connect
  BY <1>2 DEF Connect, At, Unburdened
<1>3. CASE ApplyTip
  BY <1>3 DEF ApplyTip, Continue, At, Unburdened
<1>4. CASE ListRefreshable
  <2>1. PICK ids : EndHeader \/ Continue([w EXCEPT !.stage = "refresh", !.ids = ids])
    BY <1>4 DEF ListRefreshable
  <2> QED BY <1>1, <2>1 DEF Continue, Unburdened
<1>5. CASE RefreshListed
  <2>1. w.stage = "refresh"
    BY <1>5 DEF RefreshListed
  <2>2. PICK p : EndHeader \/ Continue([w EXCEPT !.ids = @ \ {p}])
    BY <1>5 DEF RefreshListed
  <2> QED BY <1>1, <2>1, <2>2 DEF Continue, Unburdened
<1>6. CASE Sync
  <2>1. PICK S : \/ Raise \/ EndPass
                 \/ Continue([w EXCEPT !.stage = "subscribe", !.pending = S])
    BY <1>6 DEF Sync
  <2> QED BY <2>1, WaysOutUnburdened DEF Continue, Unburdened
<1>7. CASE Subscribe
  <2>1. Raise \/ \E a : w' = [w EXCEPT !.stage = "history", !.address = a, !.pending = @ \ {a}]
    BY <1>7 DEF Subscribe
  <2> QED BY <2>1, WaysOutUnburdened DEF Unburdened
<1>8. CASE TakeNotification
  <2>1. PICK n : \/ Continue([At("apply", "notify") EXCEPT !.height = n])
                 \/ Continue([At("history", "notify") EXCEPT !.address = n])
                 \/ Loop
    BY <1>8 DEF TakeNotification
  <2> QED BY <2>1, WaysOutUnburdened DEF Continue, At, Unburdened
<1>9. CASE Timeout
  BY <1>9 DEF Timeout, Continue, At, Unburdened
<1> QED BY <1>2, <1>3, <1>4, <1>5, <1>6, <1>7, <1>8, <1>9

-----------------------------------------------------------------------------
(* The reconciliation of an address.                                       *)

(* The outputs matched for a payment come from the history read before the *)
(* time they are stamped with, outside the payment's baseline.             *)
LEMMA NextPaymentTraced ==
  ASSUME TypeInv, LocalOK(w), NEW ids, ids \subseteq DOMAIN payments, ids # {}, NEW n \in Nat,
         \A h \in w.history : h.tx \in Tx /\ Known(h.tx) /\ Observed(h.tx, n)
  PROVE  LocalsTraced(NextPayment(ids, n))
<1> DEFINE least(x) == \A y \in ids : payments[x].created_at <= payments[y].created_at
           p == CHOOSE x \in ids : \A y \in ids : payments[x].created_at <= payments[y].created_at
           h == { x \in w.history : x.tx \notin baseline[p] }
           o == UNION { MatchTransactionOutputs(x.tx, Pays[x.tx], payments[p].address,
                                                x.height, n) : x \in h }
           stage == IF o = {} THEN "delete" ELSE "upsert"
           c == [w EXCEPT !.stage = stage, !.at = n, !.payment = p, !.ids = ids \ {p},
                          !.upserts = o]
<1>1. NextPayment(ids, n) = c
  BY DEF NextPayment
<1>2. \E x \in ids : least(x)
  <2> DEFINE S == { payments[x].created_at : x \in ids }
  <2>1. S \in SUBSET Nat /\ S # {}
    BY DEF TypeInv, TypeOK, PaymentRowOK
  <2>2. PICK m \in S : \A y \in S : m <= y
    BY <2>1, LeastNumber
  <2> QED BY <2>2
<1>3. p \in DOMAIN payments
  BY <1>2
<1> HIDE DEF p
<1>4. ASSUME NEW y \in o PROVE Traced(p, y)
  <2>1. PICK x \in h : y \in MatchTransactionOutputs(x.tx, Pays[x.tx], payments[p].address,
                                                     x.height, n)
    BY <1>4
  <2>2. /\ DOMAIN y = {"tx", "vout", "value", "height", "first_seen"}
        /\ y.tx = x.tx
        /\ y.first_seen = n
        /\ y.vout \in DOMAIN Pays[x.tx]
        /\ Pays[x.tx][y.vout].address = payments[p].address
        /\ Pays[x.tx][y.vout].value > 0
        /\ y.value = Pays[x.tx][y.vout].value
    BY <2>1 DEF MatchTransactionOutputs
  <2> QED BY <1>3, <2>1, <2>2 DEF Traced
<1> HIDE DEF o
<1>5. /\ c.stage = stage /\ c.at = n /\ c.payment = p /\ c.ids = ids \ {p} /\ c.upserts = o
      /\ c.history = w.history
  BY DEF LocalOK, Locals
<1> HIDE DEF c, stage
<1> QED BY <1>1, <1>4, <1>5 DEF LocalsTraced

(* Where a step of the coroutine leads: to the top of the loop or another  *)
(* caller with nothing in hand, or on with observations that are traced.   *)
LEMMA ReconcileStepTraced ==
  ASSUME SnapshotInv, LocalOK(w), LocalsTraced(w),
         ReadHistory \/ LoadPayments \/ Upsert \/ Delete \/ Evaluate
  PROVE  Unburdened(w') \/ \E c : w' = c /\ LocalsTraced(c)
<1> USE DEF SnapshotInv
<1>1. TypeInv /\ clock \in Nat /\ w.at \in Nat
  BY DEF IInv, TypeInv, TypeOK, LocalOK
<1>2. CASE ReadHistory
  <2> DEFINE h == { [tx |-> t, height |-> position[t]] : t \in HistoryOf(w.address) }
             c == [w EXCEPT !.stage = "load", !.history = h]
  <2>1. \A x \in h : x.tx \in Tx /\ Known(x.tx)
    BY DEF HistoryOf, Known
  <2> HIDE DEF h
  <2>2. LocalsTraced(c)
    BY <2>1 DEF LocalsTraced, LocalOK, Locals
  <2> HIDE DEF c
  <2>3. Raise \/ w' = c
    BY <1>2 DEF ReadHistory, Continue, c, h
  <2> QED BY <2>2, <2>3, WaysOutUnburdened
<1>3. CASE LoadPayments
  <2> DEFINE ids == PaymentsAt(w.address)
  <2>1. CASE EndReconcile
    BY <2>1, WaysOutUnburdened
  <2>2. CASE ids # {} /\ Continue(NextPayment(ids, clock))
    <3>1. ids \subseteq DOMAIN payments
      BY DEF PaymentsAt
    <3>2. w.stage = "load"
      BY <1>3 DEF LoadPayments
    <3>3. \A h \in w.history : h.tx \in Tx /\ Known(h.tx) /\ Observed(h.tx, clock)
      BY <3>2 DEF LocalsTraced, Arrivals, Known, Observed
    <3> HIDE DEF ids
    <3>4. LocalsTraced(NextPayment(ids, clock))
      BY <1>1, <2>2, <3>1, <3>3, NextPaymentTraced
    <3> QED BY <2>2, <3>4 DEF Continue
  <2> QED BY <1>3, <2>1, <2>2 DEF LoadPayments
<1>4. CASE Upsert
  <2>1. w.stage = "upsert"
    BY <1>4 DEF Upsert
  <2>2. PICK o : \/ Continue([w EXCEPT !.upserts = @ \ {o}, !.fetched = @ \cup {o.tx},
                                !.stage = IF w.upserts = {o} THEN "delete" ELSE "upsert"])
                 \/ Raise
    BY <1>4 DEF Upsert
  <2> DEFINE stage == IF w.upserts = {o} THEN "delete" ELSE "upsert"
             c == [w EXCEPT !.upserts = @ \ {o}, !.fetched = @ \cup {o.tx}, !.stage = stage]
  <2>3. /\ c.stage \in {"delete", "upsert"} /\ c.upserts \subseteq w.upserts
        /\ c.ids = w.ids /\ c.history = w.history /\ c.at = w.at /\ c.payment = w.payment
    BY DEF LocalOK, Locals
  <2> HIDE DEF c
  <2>4. LocalsTraced(c)
    BY <2>1, <2>3 DEF LocalsTraced
  <2>5. Raise \/ w' = c
    BY <2>2 DEF c, Continue
  <2> QED BY <2>4, <2>5, WaysOutUnburdened
<1>5. CASE Delete
  <2> DEFINE c == [w EXCEPT !.stage = "evaluate"]
  <2>1. w.stage = "delete" /\ w' = c
    BY <1>5 DEF Delete, Continue
  <2>2. LocalsTraced(c)
    BY <2>1 DEF LocalsTraced, LocalOK, Locals
  <2> QED BY <2>1, <2>2
<1>6. CASE Evaluate
  <2>1. CASE EndReconcile
    BY <2>1, WaysOutUnburdened
  <2>2. CASE w.ids # {} /\ Continue(NextPayment(w.ids, w.at))
    <3>1. w.stage = "evaluate"
      BY <1>6 DEF Evaluate
    <3>2. /\ w.ids \subseteq DOMAIN payments
          /\ \A h \in w.history : h.tx \in Tx /\ Known(h.tx) /\ Observed(h.tx, w.at)
      BY <3>1 DEF LocalsTraced
    <3>3. LocalsTraced(NextPayment(w.ids, w.at))
      BY <1>1, <2>2, <3>2, NextPaymentTraced
    <3> QED BY <2>2, <3>3 DEF Continue
  <2> QED BY <1>6, <2>1, <2>2 DEF Evaluate
<1> QED BY <1>2, <1>3, <1>4, <1>5, <1>6

(* The same of every step of the platform.                                 *)
LEMMA StepLocalsTraced ==
  ASSUME WatcherInv, SnapshotInv, LocalsTraced(w), [WatcherNext]_allVars
  PROVE  LocalsTraced(w)'
<1>1. PlatformStep /\ LocalOK(w)
  BY WatcherNextIsAPlatformStep DEF WatcherInv, CoroutineOK
<1>2. ASSUME Unburdened(w') PROVE LocalsTraced(w)'
  BY <1>2 DEF LocalsTraced, Unburdened
<1>3. ASSUME NEW c, w' = c, LocalsTraced(c) PROVE LocalsTraced(w)'
  BY <1>1, <1>3, LocalsStayTraced, NextLocalsTraced
<1>4. CASE WatcherStep
  BY <1>1, <1>2, <1>3, <1>4, SessionStepUnburdened, ReconcileStepTraced DEF WatcherStep
<1>5. CASE CycleFails
  BY <1>2, <1>5, WaysOutUnburdened DEF CycleFails
<1>6. CASE ServiceRestart
  BY <1>2, <1>6 DEF ServiceRestart, At, Unburdened
<1>7. CASE ApiStep \/ ServerStep \/ Disconnect \/ UNCHANGED allVars
  <2>1. w' = w
    BY <1>7 DEF ApiStep, ServerStep, Disconnect, watcherVars, allVars, codeVars
  <2> QED BY <1>3, <2>1
<1> QED BY <1>4, <1>5, <1>6, <1>7 DEF WatcherNext, PlatformMoves

-----------------------------------------------------------------------------
(* The rows.                                                               *)

(* A row that an upsert leaves is an old one or carries the observation at *)
(* the first-seen time of an observation of the same output.               *)
LEMMA UpsertTraced ==
  ASSUME NEW p, NEW rows, \A r \in rows : Traced(p, r), NEW o, Traced(p, o)
  PROVE  \A r \in UpsertRow(rows, o) : Traced(p, r)
<1> DEFINE old == RowFor(rows, o)
           times == { r.first_seen : r \in old } \cup {o.first_seen}
           seen == EarliestSeen(times)
           new == [o EXCEPT !.first_seen = seen]
<1>1. times \in SUBSET Nat /\ times # {}
  BY DEF Traced, RowFor
<1>2. \A n \in times : Observed(o.tx, n)
  BY DEF Traced, RowFor, Outpoint
<1> HIDE DEF times
<1>3. seen \in Nat /\ Observed(o.tx, seen)
  BY <1>1, <1>2, EarliestIs
<1> HIDE DEF seen
<1>4. /\ new.tx = o.tx /\ new.vout = o.vout /\ new.value = o.value
      /\ new.first_seen = seen
      /\ DOMAIN new = DOMAIN o
  BY DEF Traced
<1> HIDE DEF new
<1>5. Traced(p, new)
  BY <1>3, <1>4 DEF Traced
<1>6. UpsertRow(rows, o) = (rows \ old) \cup {new}
  BY DEF UpsertRow, new, seen, times
<1> HIDE DEF old
<1> QED BY <1>5, <1>6

(* What the platform does to the rows: one upsert of an observation in     *)
(* hand, the removal of what the history in hand has not, or nothing.      *)
LEMMA RowEffects ==
  ASSUME WatcherInv, [WatcherNext]_allVars
  PROVE  \/ UNCHANGED transactions
         \/ /\ w.stage = "delete"
            /\ transactions' = [transactions EXCEPT
                 ![w.payment] = RowsWithin(@, { h.tx : h \in w.history })]
            /\ UNCHANGED payments
         \/ \E o \in w.upserts :
              /\ w.stage = "upsert"
              /\ ~UpsertRefused(transactions[w.payment], o)
              /\ transactions' = [transactions EXCEPT ![w.payment] = UpsertRow(@, o)]
              /\ UNCHANGED payments
<1>1. CASE Upsert
  BY <1>1 DEF Upsert, UpsertTransaction, storeVars
<1>2. CASE Delete
  BY <1>2 DEF Delete, DeleteTransactionsNotIn
<1>3. CASE WatcherStep /\ ~Upsert /\ ~Delete
  BY <1>3 DEF WatcherStep, Connect, ApplyTip, SetChainTip, ListRefreshable, RefreshListed,
              RefreshPayment, Sync, Subscribe, ReadHistory, LoadPayments, Evaluate,
              TakeNotification, Timeout, storeVars
<1>4. CASE \E r \in PaymentIds : CreateStep(r)
  BY <1>4 DEF CreateStep, CheckReplay, CheckReference, CheckAddress, SnapshotTip,
              SnapshotHistory, SnapshotFails, SaveTip, SetChainTip, Insert, CreatePayment,
              storeVars
<1>5. CASE (\E g \in Readers : GetStep(g)) \/ Tick
  BY <1>5 DEF GetStep, BeginGet, FinishGet, RefreshPayment, Tick, storeVars
<1>6. CASE ServerStep \/ Disconnect \/ CycleFails \/ ServiceRestart \/ UNCHANGED allVars
  BY <1>6 DEF ServerStep, ChainStep, Disconnect, CycleFails, ServiceRestart, allVars, codeVars, vars,
              storeVars
<1> QED BY <1>1, <1>2, <1>3, <1>4, <1>5, <1>6 DEF WatcherNext, PlatformMoves, ApiStep

LEMMA StepRowsTraced ==
  ASSUME RowsInv, [WatcherNext]_allVars
  PROVE  RowsTraced'
<1>1. ASSUME NEW rows, \A r \in rows : Traced(w.payment, r), NEW o \in w.upserts,
             w.stage = "upsert"
      PROVE  \A r \in UpsertRow(rows, o) : Traced(w.payment, r)
  BY <1>1, UpsertTraced DEF RowsInv, LocalsTraced
<1>2. /\ DOMAIN transactions' = PaymentIds
      /\ \A p \in PaymentIds : \A r \in transactions'[p] : Traced(p, r)
  <2>1. CASE UNCHANGED transactions
    BY <2>1 DEF RowsInv, RowsTraced
  <2>2. ASSUME NEW p, NEW txids,
               transactions' = [transactions EXCEPT ![p] = RowsWithin(@, txids)]
        PROVE  /\ DOMAIN transactions' = PaymentIds
               /\ \A q \in PaymentIds : \A r \in transactions'[q] : Traced(q, r)
    BY <2>2 DEF RowsInv, RowsTraced, RowsWithin
  <2>3. ASSUME NEW o \in w.upserts, w.stage = "upsert",
               transactions' = [transactions EXCEPT ![w.payment] = UpsertRow(@, o)]
        PROVE  /\ DOMAIN transactions' = PaymentIds
               /\ \A q \in PaymentIds : \A r \in transactions'[q] : Traced(q, r)
    <3>1. w.payment \in PaymentIds =>
            \A r \in UpsertRow(transactions[w.payment], o) : Traced(w.payment, r)
      BY <1>1, <2>3 DEF RowsInv, RowsTraced
    <3> QED BY <2>3, <3>1 DEF RowsInv, RowsTraced
  <2> QED BY <2>1, <2>2, <2>3, RowEffects DEF RowsInv
<1>3. \A p, r : Traced(p, r) => Traced(p, r)'
  BY TracesLast, WatcherNextIsAPlatformStep DEF RowsInv
<1>4. \A p \in PaymentIds : \A r \in transactions'[p] : Traced(p, r)'
  BY <1>2, <1>3
<1> QED BY <1>2, <1>4 DEF RowsTraced, Traced, Observed

LEMMA InitRowsInv == WatcherSystemInit => RowsInv
<1> SUFFICES ASSUME WatcherSystemInit PROVE RowsInv
  OBVIOUS
<1>1. WatcherInv /\ SnapshotInv
  BY InitWatcherInv, InitPlatform, InitSnapshotInv
<1>2. LocalsTraced(w)
  BY DEF WatcherSystemInit, WatcherInit, At, LocalsTraced
<1>3. RowsTraced
  BY DEF WatcherSystemInit, Init, StoreInit, RowsTraced
<1> QED BY <1>1, <1>2, <1>3 DEF RowsInv

LEMMA StepRowsInv == ASSUME RowsInv, [WatcherNext]_allVars PROVE RowsInv'
<1> USE DEF RowsInv
<1>1. WatcherInv'
  BY StepWatcherInv
<1>2. SnapshotInv'
  BY WatcherNextIsAPlatformStep, StepSnapshotInv
<1>3. LocalsTraced(w)'
  BY StepLocalsTraced
<1>4. RowsTraced'
  BY StepRowsTraced
<1> QED BY <1>1, <1>2, <1>3, <1>4

LEMMA RowsInductive == WatcherSpec => []RowsInv
  BY InitRowsInv, StepRowsInv, PTL DEF WatcherSpec

(* A row that counts for a payment is of a transaction that reached the    *)
(* server inside the payment's window.                                     *)
LEMMA CountedArrivesInWindow ==
  ASSUME RowsInv, ~evicted, NEW p \in DOMAIN payments, NEW r \in transactions[p],
         ObservationBelongsToPayment(r, ScopeOf(payments[p]))
  PROVE  /\ Traced(p, r)
         /\ arrived[r.tx] \in Nat
         /\ payments[p].created_at <= arrived[r.tx]
         /\ arrived[r.tx] <= payments[p].expires_at
<1>1. p \in PaymentIds /\ PaymentRowOK(payments[p])
  BY DEF RowsInv, SnapshotInv, IInv, TypeInv, TypeOK
<1>2. Traced(p, r)
  BY <1>1 DEF RowsInv, RowsTraced
<1>3. /\ position[r.tx] # Unknown
      /\ arrived[r.tx] \in Nat
      /\ arrived[r.tx] <= r.first_seen
  BY <1>2 DEF Traced, Observed, RowsInv, SnapshotInv, Arrivals
<1>4. r.first_seen <= payments[p].expires_at
  BY <1>1 DEF ObservationBelongsToPayment, ScopeOf, PaymentRowOK, None
<1>5. r.tx \in HistoryOf(payments[p].address) \ baseline[p]
  BY <1>2, <1>3 DEF Traced, HistoryOf
<1>6. payments[p].created_at <= arrived[r.tx]
  BY <1>1, <1>3, <1>5 DEF RowsInv, SnapshotInv, PaymentSnapshots, Snapshot, PaymentRowOK
<1>7. arrived[r.tx] <= payments[p].expires_at
  BY <1>1, <1>2, <1>3, <1>4 DEF Traced, PaymentRowOK
<1> QED BY <1>2, <1>3, <1>6, <1>7

(* Unless a transaction is evicted, only money that reached the server     *)
(* inside a payment's window counts for it, whatever its reconciliations,  *)
(* block events, disconnections and restarts, for any requests and chain   *)
(* (observation_belongs_to_payment, _reconcile_scripthash).                *)
THEOREM OnlyMoneyInTheWindowCounts == WatcherSpec => []CountedMoneyArrivedInWindow
<1>1. RowsInv => CountedMoneyArrivedInWindow
  BY CountedArrivesInWindow DEF CountedMoneyArrivedInWindow
<1> QED BY <1>1, RowsInductive, PTL

(* Nor is one output ever counted for two payments, though an address may  *)
(* be used for one payment after the other and every reconciliation of it  *)
(* looks at all of them.                                                   *)
THEOREM NoOutputCountsTwice == WatcherSpec => []CountedOnce
<1>1. RowsInv => CountedOnce
  <2> SUFFICES ASSUME RowsInv, ~evicted, NEW p \in DOMAIN payments, NEW q \in DOMAIN payments,
                      p # q, NEW k \in CountedFor(p) \cap CountedFor(q)
               PROVE  FALSE
    BY DEF CountedOnce
  <2>1. PICK r \in transactions[p] :
          k = Outpoint(r) /\ ObservationBelongsToPayment(r, ScopeOf(payments[p]))
    BY DEF CountedFor
  <2>2. PICK s \in transactions[q] :
          k = Outpoint(s) /\ ObservationBelongsToPayment(s, ScopeOf(payments[q]))
    BY DEF CountedFor
  <2>3. r.tx = s.tx /\ r.vout = s.vout
    BY <2>1, <2>2 DEF Outpoint
  <2>4. /\ Traced(p, r)
        /\ arrived[r.tx] \in Nat
        /\ payments[p].created_at <= arrived[r.tx]
        /\ arrived[r.tx] <= payments[p].expires_at
    BY <2>1, CountedArrivesInWindow
  <2>5. /\ Traced(q, s)
        /\ payments[q].created_at <= arrived[s.tx]
        /\ arrived[s.tx] <= payments[q].expires_at
    BY <2>2, CountedArrivesInWindow
  <2>6. payments[p].address = payments[q].address
    BY <2>3, <2>4, <2>5 DEF Traced
  <2>7. /\ PaymentRowOK(payments[p]) /\ PaymentRowOK(payments[q])
        /\ WindowsDisjoint
    BY DEF RowsInv, SnapshotInv, IInv, TypeInv, TypeOK
  <2>8. \/ payments[p].expires_at < payments[q].created_at
        \/ payments[q].expires_at < payments[p].created_at
    BY <2>6, <2>7 DEF WindowsDisjoint
  <2> QED BY <2>3, <2>4, <2>5, <2>7, <2>8 DEF PaymentRowOK
<1> QED BY <1>1, RowsInductive, PTL

-----------------------------------------------------------------------------
(***************************************************************************)
(* Paid stays paid.  A payment that shows paid rests on rows in its scope  *)
(* that sum up to its amount, PaidCovered, and no step takes one of them   *)
(* out of the scope or out of the table:                                   *)
(*  - an upsert writes a height from a history that may be old.  For any   *)
(*    payment of the address, even one that was opened after the history   *)
(*    was read, that height is above the creation height, HistoryAbove;    *)
(*  - an upsert keeps the earliest time, and the one it adds is not from   *)
(*    before the creation, InHand;                                         *)
(*  - the removal goes by the same history, which has every transaction    *)
(*    that any payment of the address has a row of, HistoryCovers.         *)
(***************************************************************************)

Reconciling == {"load", "upsert", "delete", "evaluate"}

(* A transaction that a snapshot does not know is in a block above it.     *)
MinedAbove(floor, known, height, h) ==
  h.tx \notin known /\ height <= floor /\ h.height > 0 => h.height > height

AboveSnapshots(address, h) ==
  /\ h.tx \in HistoryOf(address)
  /\ \A r \in PaymentIds :
       create[r].pc \in {"save_tip", "insert"} /\ Request[r].address = address
         => MinedAbove(lowest, create[r].txids, create[r].height, h)
  /\ \A p \in PaymentsAt(address) :
       MinedAbove(lowest, baseline[p], payments[p].created_height, h)

HistoryAbove(c) ==
  c.stage \in Reconciling =>
    \A h \in c.history : /\ h.height \in Nat
                         /\ ~evicted => AboveSnapshots(c.address, h)

HistoryCovers(c) ==
  c.stage \in Reconciling /\ ~evicted =>
    \A p \in PaymentsAt(c.address) : \A r \in transactions[p] :
      \E h \in c.history : h.tx = r.tx

InHand(c) ==
  /\ c.stage \in {"upsert", "delete", "evaluate"} =>
       \A p \in c.ids \cup {c.payment} :
         p \in PaymentsAt(c.address) /\ payments[p].created_at <= c.at
  /\ c.stage = "upsert" =>
       \A o \in c.upserts : /\ IsObservation(o)
                            /\ o.first_seen = c.at
                            /\ \E h \in c.history : h.tx = o.tx /\ h.height = o.height

Counted(p) == { r \in transactions[p] : ObservationBelongsToPayment(r, ScopeOf(payments[p])) }

PaidCovered ==
  ~evicted =>
    \A p \in DOMAIN payments :
      payments[p].status \in PaidStatuses /\ payments[p].created_height <= lowest
        => SumValues(Counted(p)) >= payments[p].amount

PaidInv ==
  /\ RowsInv
  /\ HistoryAbove(w)
  /\ HistoryCovers(w)
  /\ InHand(w)
  /\ \A p \in PaymentIds : RowsOK(transactions[p])
  /\ PaidCovered

(* What a step of the platform may do to the chain and to the snapshots of *)
(* requests and payments.                                                  *)
LEMMA ChainOnlyFalls ==
  ASSUME TypeInv, PlatformStep
  PROVE  /\ evicted => evicted'
         /\ \A height \in Nat : height <= lowest' => height <= lowest
         /\ \A address : ~evicted' => HistoryOf(address) \subseteq HistoryOf(address)'
<1>1. CASE ChainStep
  <2>1. /\ evicted => evicted'
        /\ \A height \in Nat : height <= lowest' => height <= lowest
        /\ \A t \in Tx : ~evicted' /\ position[t] # Unknown => position'[t] # Unknown
    BY <1>1, ChainMoves
  <2> QED BY <2>1 DEF HistoryOf
<1>2. CASE UNCHANGED chainVars
  BY <1>2 DEF chainVars, HistoryOf
<1>3. PlatformStep /\ ~ChainStep => UNCHANGED chainVars
  BY DEF PlatformStep, CreateStep, CheckReplay, CheckReference, CheckAddress, SnapshotTip,
         SnapshotHistory, SnapshotFails, SaveTip, Insert, GetStep, BeginGet, FinishGet,
         RequestsForgotten, Tick, WatcherTransaction, vars
<1> QED BY <1>1, <1>2, <1>3

LEMMA SnapshotsComeFromHistory ==
  ASSUME TypeInv, PlatformStep, NEW r \in PaymentIds, create'[r].pc \in {"save_tip", "insert"}
  PROVE  \/ /\ create[r].pc \in {"save_tip", "insert"}
            /\ create'[r].txids = create[r].txids
            /\ create'[r].height = create[r].height
         \/ create'[r].txids = HistoryOf(Request[r].address)
<1>1. create \in [PaymentIds -> CreateLocals]
  BY DEF TypeInv, TypeOK
<1>2. ASSUME NEW s \in PaymentIds, CreateStep(s)
      PROVE  \/ /\ create[r].pc \in {"save_tip", "insert"}
                /\ create'[r].txids = create[r].txids
                /\ create'[r].height = create[r].height
             \/ create'[r].txids = HistoryOf(Request[r].address)
  <2>1. CASE r # s
    <3>1. create'[r] = create[r]
      BY <1>1, <1>2, <2>1
         DEF CreateStep, CheckReplay, CheckReference, CheckAddress, SnapshotTip,
             SnapshotHistory, SnapshotFails, SaveTip, Insert, Goto, Respond
    <3> QED BY <3>1
  <2>2. CASE r = s
    <3>1. CASE SnapshotHistory(r)
      BY <1>1, <3>1 DEF SnapshotHistory, CreateLocals
    <3>2. CASE SaveTip(r)
      BY <1>1, <3>2 DEF SaveTip, Goto, CreateLocals
    <3>3. ASSUME NEW result, NEW p, Respond(r, result, p) PROVE FALSE
      BY <1>1, <3>3 DEF Respond, Local
    <3>4. CASE CheckReplay(r)
      BY <1>1, <3>3, <3>4 DEF CheckReplay, Goto, CreateLocals
    <3>5. CASE CheckReference(r)
      BY <1>1, <3>3, <3>5 DEF CheckReference, CreateLocals
    <3>6. CASE CheckAddress(r)
      BY <1>1, <3>3, <3>6 DEF CheckAddress, Goto, CreateLocals
    <3>7. CASE SnapshotTip(r)
      BY <1>1, <3>7 DEF SnapshotTip, CreateLocals
    <3>8. CASE SnapshotFails(r)
      BY <3>3, <3>8 DEF SnapshotFails
    <3>9. CASE Insert(r)
      BY <3>3, <3>9 DEF Insert
    <3> QED BY <1>2, <2>2, <3>1, <3>2, <3>4, <3>5, <3>6, <3>7, <3>8, <3>9 DEF CreateStep
  <2> QED BY <2>1, <2>2
<1>3. CASE RequestsForgotten
  BY <1>1, <1>3 DEF RequestsForgotten, ForgetRequests, Local
<1>4. CASE UNCHANGED create
  BY <1>4
<1>5. \/ \E s \in PaymentIds : CreateStep(s)
      \/ RequestsForgotten
      \/ UNCHANGED create
  BY DEF PlatformStep, GetStep, BeginGet, FinishGet, ChainStep, Tick, WatcherTransaction,
         vars, gatewayVars
<1> QED BY <1>2, <1>3, <1>4, <1>5

(* Where the payments of the next state come from.                         *)
LEMMA PaymentOrigins ==
  ASSUME IInv, PlatformStep, NEW p \in DOMAIN payments'
  PROVE  \/ /\ p \in DOMAIN payments
            /\ SameIdentity(payments'[p], payments[p])
            /\ baseline'[p] = baseline[p]
            /\ \/ payments'[p].status = payments[p].status
               \/ \E now : payments'[p].status = EvaluatePersisted(p, now).status
         \/ /\ p \in PaymentIds \ DOMAIN payments
            /\ create[p].pc = "insert"
            /\ payments'[p].address = Request[p].address
            /\ payments'[p].created_height = create[p].height
            /\ baseline'[p] = create[p].txids
            /\ payments'[p].status = "waiting"
<1>1. CASE UNCHANGED TablesOfRecord
  BY <1>1 DEF TablesOfRecord, SameIdentity
<1>2. CASE \E r \in PaymentIds : Opens(r)
  <2> PICK r \in PaymentIds : Opens(r)
    BY <1>2
  <2>1. /\ create[r].at \in Nat /\ create[r].height \in Nat
        /\ create[r].txids \in SUBSET Tx /\ baseline \in [PaymentIds -> SUBSET Tx]
    BY DEF IInv, TypeInv, TypeOK, CreateLocals
  <2>2. /\ r \notin DOMAIN payments /\ create[r].pc = "insert"
        /\ payments' = [x \in DOMAIN payments \cup {r} |->
                          IF x = r THEN PaymentRow(Request[r], create[r].at, create[r].height)
                          ELSE payments[x]]
        /\ baseline' = [baseline EXCEPT ![r] = create[r].txids]
    BY DEF Opens, CreatePayment
  <2>3. CASE p = r
    <3>1. payments'[p] = PaymentRow(Request[r], create[r].at, create[r].height)
      BY <2>2, <2>3
    <3> QED BY <2>1, <2>2, <2>3, <3>1, PaymentRowIsARow
  <2>4. CASE p # r
    BY <2>1, <2>2, <2>4 DEF SameIdentity
  <2> QED BY <2>3, <2>4
<1>3. CASE \E q : \E now \in Nat : NewVersion(q, now)
  BY <1>3 DEF NewVersion, SameIdentity
<1> QED BY <1>1, <1>2, <1>3, StepEffects

(* A history in hand stays above all snapshots, those taken or opened      *)
(* meanwhile included: what it has is in every later history.              *)
LEMMA AboveStaysAbove ==
  ASSUME SnapshotInv, PlatformStep, ~evicted', NEW address, NEW h, h.height \in Nat,
         AboveSnapshots(address, h)
  PROVE  AboveSnapshots(address, h)'
<1>1. IInv /\ TypeInv
  BY DEF SnapshotInv, IInv
<1>2. /\ h.tx \in HistoryOf(address)'
      /\ \A height \in Nat : height <= lowest' => height <= lowest
  BY <1>1, ChainOnlyFalls DEF AboveSnapshots
<1>3. /\ create \in [PaymentIds -> CreateLocals]
      /\ \A p \in DOMAIN payments : payments[p].created_height \in Nat
  BY <1>1 DEF TypeInv, TypeOK, PaymentRowOK
<1>4. \A known : \A height \in Nat :
        MinedAbove(lowest, known, height, h) => MinedAbove(lowest', known, height, h)
  BY <1>2 DEF MinedAbove
<1>5. ASSUME NEW r \in PaymentIds, create'[r].pc \in {"save_tip", "insert"},
             Request[r].address = address
      PROVE  MinedAbove(lowest', create'[r].txids, create'[r].height, h)
  <2>1. CASE /\ create[r].pc \in {"save_tip", "insert"}
             /\ create'[r].txids = create[r].txids
             /\ create'[r].height = create[r].height
    <3>1. /\ MinedAbove(lowest, create[r].txids, create[r].height, h)
          /\ create[r].height \in Nat
      BY <1>3, <1>5, <2>1 DEF AboveSnapshots, CreateLocals
    <3> QED BY <1>4, <2>1, <3>1
  <2>2. CASE create'[r].txids = HistoryOf(Request[r].address)
    BY <1>5, <2>2 DEF AboveSnapshots, MinedAbove
  <2> QED BY <1>1, <1>5, <2>1, <2>2, SnapshotsComeFromHistory
<1>6. ASSUME NEW p \in DOMAIN payments', payments'[p].address = address
      PROVE  MinedAbove(lowest', baseline'[p], payments'[p].created_height, h)
  <2>1. CASE /\ p \in DOMAIN payments
             /\ SameIdentity(payments'[p], payments[p])
             /\ baseline'[p] = baseline[p]
    <3>1. /\ MinedAbove(lowest, baseline[p], payments[p].created_height, h)
          /\ payments[p].created_height \in Nat
      BY <1>3, <1>6, <2>1 DEF AboveSnapshots, PaymentsAt, SameIdentity
    <3> QED BY <1>4, <2>1, <3>1 DEF SameIdentity
  <2>2. CASE /\ p \in PaymentIds
             /\ create[p].pc = "insert"
             /\ payments'[p].address = Request[p].address
             /\ payments'[p].created_height = create[p].height
             /\ baseline'[p] = create[p].txids
    <3>1. /\ MinedAbove(lowest, create[p].txids, create[p].height, h)
          /\ create[p].height \in Nat
      BY <1>3, <1>6, <2>2 DEF AboveSnapshots, CreateLocals
    <3> QED BY <1>4, <2>2, <3>1
  <2> QED BY <1>1, <2>1, <2>2, PaymentOrigins
<1> QED BY <1>2, <1>5, <1>6 DEF AboveSnapshots, PaymentsAt

LEMMA HistoryStaysAbove ==
  ASSUME SnapshotInv, PlatformStep, NEW c, HistoryAbove(c)
  PROVE  HistoryAbove(c)'
<1> SUFFICES ASSUME c.stage \in Reconciling, NEW h \in c.history
             PROVE  h.height \in Nat /\ (~evicted' => AboveSnapshots(c.address, h)')
  BY DEF HistoryAbove
<1>1. h.height \in Nat /\ (~evicted => AboveSnapshots(c.address, h))
  BY DEF HistoryAbove
<1>2. evicted => evicted'
  BY ChainOnlyFalls DEF SnapshotInv, IInv
<1>3. PICK address : address = c.address
  OBVIOUS
<1>4. ~evicted' => AboveSnapshots(address, h)'
  BY <1>1, <1>2, <1>3, AboveStaysAbove
<1> QED BY <1>1, <1>3, <1>4

(* What is read from the server is above all snapshots.                    *)
LEMMA HistoryReadIsAbove ==
  ASSUME SnapshotInv, NEW address, NEW t \in HistoryOf(address), NEW h,
         h.tx = t, h.height = position[t]
  PROVE  h.height \in Nat /\ AboveSnapshots(address, h)
<1>1. /\ t \in Tx /\ position[t] # Unknown
      /\ position \in [Tx -> {Unknown, InMempool} \cup 1 .. MaxHeight]
  BY GatewayAssumption DEF HistoryOf, SnapshotInv, IInv, TypeInv, ChainTypeOK
<1>2. h.height \in Nat
  BY <1>1 DEF Unknown, InMempool
<1>3. ASSUME NEW r \in PaymentIds, create[r].pc \in {"save_tip", "insert"},
             Request[r].address = address
      PROVE  MinedAbove(lowest, create[r].txids, create[r].height, h)
  BY <1>1, <1>3 DEF SnapshotInv, RequestSnapshots, Snapshot, MinedAbove
<1>4. ASSUME NEW p \in PaymentsAt(address)
      PROVE  MinedAbove(lowest, baseline[p], payments[p].created_height, h)
  BY <1>1, <1>4 DEF PaymentsAt, SnapshotInv, PaymentSnapshots, Snapshot, MinedAbove
<1> QED BY <1>2, <1>3, <1>4 DEF AboveSnapshots

(* The rows of a payment of the address are of transactions in the history *)
(* that is read for it, and stay so.                                       *)
LEMMA HistoryReadCovers ==
  ASSUME RowsInv, ~evicted, NEW address, NEW p \in PaymentsAt(address),
         NEW r \in transactions[p]
  PROVE  r.tx \in HistoryOf(address)
<1>1. p \in PaymentIds /\ payments[p].address = address
  BY DEF PaymentsAt, RowsInv, SnapshotInv, IInv, TypeInv, TypeOK
<1>2. Traced(p, r)
  BY <1>1 DEF RowsInv, RowsTraced
<1> QED BY <1>1, <1>2 DEF Traced, Observed, HistoryOf

LEMMA PaymentsStay ==
  ASSUME IInv, PlatformStep
  PROVE  /\ \A p \in DOMAIN payments : /\ p \in DOMAIN payments'
                                       /\ SameIdentity(payments'[p], payments[p])
         /\ \A address : PaymentsAt(address) \subseteq PaymentsAt(address)'
<1>1. \A p \in DOMAIN payments : /\ p \in DOMAIN payments'
                                 /\ SameIdentity(payments'[p], payments[p])
  BY PaymentsKeepTheirOrigin, PaymentOrigins
<1> QED BY <1>1 DEF PaymentsAt, SameIdentity

LEMMA HandStays ==
  ASSUME IInv, PlatformStep, NEW c, InHand(c)
  PROVE  InHand(c)'
<1>1. ASSUME c.stage \in {"upsert", "delete", "evaluate"}, NEW p \in c.ids \cup {c.payment}
      PROVE  p \in PaymentsAt(c.address)' /\ payments'[p].created_at <= c.at
  <2>1. p \in PaymentsAt(c.address) /\ payments[p].created_at <= c.at
    BY <1>1 DEF InHand
  <2>2. payments'[p].created_at = payments[p].created_at
    BY <2>1, PaymentsStay DEF PaymentsAt, SameIdentity
  <2>3. PICK address : address = c.address
    OBVIOUS
  <2>4. p \in PaymentsAt(address)'
    BY <2>1, <2>3, PaymentsStay
  <2> QED BY <2>1, <2>2, <2>3, <2>4
<1> QED BY <1>1 DEF InHand

LEMMA CoverStays ==
  ASSUME PaidInv, [WatcherNext]_allVars, NEW c, HistoryCovers(c),
         w.stage = "upsert" => c.history = w.history
  PROVE  HistoryCovers(c)'
<1> SUFFICES ASSUME c.stage \in Reconciling, ~evicted', NEW p \in PaymentsAt(c.address)',
                    NEW r \in transactions'[p]
             PROVE  \E h \in c.history : h.tx = r.tx
  BY DEF HistoryCovers
<1>1. PlatformStep /\ IInv /\ WatcherInv /\ RowsInv /\ DOMAIN transactions = PaymentIds
  BY WatcherNextIsAPlatformStep DEF PaidInv, RowsInv, RowsTraced, SnapshotInv
<1>2. ~evicted
  BY <1>1, ChainOnlyFalls DEF IInv
<1>3. p \in PaymentIds /\ p \in DOMAIN payments' /\ payments'[p].address = c.address
  BY <1>1, StepRowsInv DEF PaymentsAt, RowsInv, SnapshotInv, IInv, TypeInv, TypeOK
<1>4. ASSUME r \in transactions[p] PROVE \E h \in c.history : h.tx = r.tx
  <2>1. p \in DOMAIN payments
    BY <1>1, <1>3, <1>4 DEF RowsInv, RowsTraced, Traced
  <2>2. p \in PaymentsAt(c.address)
    BY <1>1, <1>3, <2>1, PaymentsStay DEF PaymentsAt, SameIdentity
  <2> QED BY <1>2, <1>4, <2>2 DEF HistoryCovers
<1>5. CASE r \notin transactions[p]
  <2>1. PICK o \in w.upserts :
          /\ w.stage = "upsert"
          /\ transactions' = [transactions EXCEPT ![w.payment] = UpsertRow(@, o)]
    BY <1>1, <1>3, <1>5, RowEffects DEF RowsWithin
  <2>2. r \in UpsertRow(transactions[p], o) /\ p = w.payment
    BY <1>1, <1>3, <1>5, <2>1
  <2>3. r = Renewed(transactions[p], o)
    BY <1>5, <2>2, UpsertIs
  <2>4. IsObservation(o) /\ \E h \in w.history : h.tx = o.tx
    BY <2>1 DEF PaidInv, InHand
  <2>5. r.tx = o.tx
    BY <1>3, <2>3, <2>4, RenewedIs DEF PaidInv, RowsOK
  <2> QED BY <2>1, <2>4, <2>5
<1> QED BY <1>4, <1>5

(* The outputs matched for the payment that comes next are in hand.        *)
LEMMA NextPaymentInHand ==
  ASSUME TypeInv, LocalOK(w), NEW ids, ids \subseteq PaymentsAt(w.address), ids # {},
         NEW n \in Nat, \A p \in ids : payments[p].created_at <= n,
         \A h \in w.history : h.tx \in Tx /\ h.height \in Nat, NEW c, c = NextPayment(ids, n)
  PROVE  /\ c.stage \in {"upsert", "delete"}
         /\ c.history = w.history /\ c.address = w.address
         /\ InHand(c)
<1> DEFINE p == CHOOSE x \in ids : \A y \in ids : payments[x].created_at <= payments[y].created_at
           h == { x \in w.history : x.tx \notin baseline[p] }
           o == UNION { MatchTransactionOutputs(x.tx, Pays[x.tx], payments[p].address,
                                                x.height, n) : x \in h }
           stage == IF o = {} THEN "delete" ELSE "upsert"
<1>1. c = [w EXCEPT !.stage = stage, !.at = n, !.payment = p, !.ids = ids \ {p},
                    !.upserts = o]
  BY DEF NextPayment
<1>2. \E x \in ids : \A y \in ids : payments[x].created_at <= payments[y].created_at
  <2> DEFINE S == { payments[x].created_at : x \in ids }
  <2>1. S \in SUBSET Nat /\ S # {}
    BY DEF PaymentsAt, TypeInv, TypeOK, PaymentRowOK
  <2>2. PICK m \in S : \A y \in S : m <= y
    BY <2>1, LeastNumber
  <2> QED BY <2>2
<1>3. p \in ids
  BY <1>2
<1> HIDE DEF p
<1>4. ASSUME NEW y \in o
      PROVE  /\ IsObservation(y)
             /\ y.first_seen = n
             /\ \E x \in w.history : x.tx = y.tx /\ x.height = y.height
  <2>1. PICK x \in h : y \in MatchTransactionOutputs(x.tx, Pays[x.tx], payments[p].address,
                                                     x.height, n)
    BY <1>4
  <2>2. x.tx \in Tx /\ x.height \in Nat
    OBVIOUS
  <2>3. PICK i \in DOMAIN Pays[x.tx] :
          y = [tx |-> x.tx, vout |-> i, value |-> Pays[x.tx][i].value,
               height |-> x.height, first_seen |-> n]
    BY <2>1 DEF MatchTransactionOutputs
  <2>4. Pays[x.tx][i].value \in Nat
    BY <2>2, GatewayAssumption
  <2> QED BY <2>2, <2>3, <2>4 DEF IsObservation
<1> HIDE DEF o
<1>5. /\ c.stage = stage /\ c.at = n /\ c.payment = p /\ c.ids = ids \ {p} /\ c.upserts = o
      /\ c.history = w.history /\ c.address = w.address
  BY <1>1 DEF LocalOK, Locals
<1>6. \A x \in c.ids \cup {c.payment} : x \in PaymentsAt(c.address) /\ payments[x].created_at <= c.at
  BY <1>3, <1>5
<1>7. \A y \in c.upserts : /\ IsObservation(y)
                           /\ y.first_seen = c.at
                           /\ \E x \in c.history : x.tx = y.tx /\ x.height = y.height
  BY <1>4, <1>5
<1> QED BY <1>5, <1>6, <1>7 DEF InHand

(* What the coroutine keeps in hand from a step to the next.               *)
InOrder(c) == HistoryAbove(c) /\ HistoryCovers(c) /\ InHand(c)

LEMMA SameHistoryInOrder ==
  ASSUME HistoryAbove(w), HistoryCovers(w), w.stage \in Reconciling, NEW c,
         c.history = w.history, c.address = w.address, InHand(c)
  PROVE  InOrder(c)
BY DEF InOrder, HistoryAbove, HistoryCovers

LEMMA ReconcileStepInOrder ==
  ASSUME PaidInv, ReadHistory \/ LoadPayments \/ Upsert \/ Delete \/ Evaluate
  PROVE  \/ Unburdened(w')
         \/ \E c : w' = c /\ InOrder(c) /\ (w.stage = "upsert" => c.history = w.history)
<1>1. /\ RowsInv /\ SnapshotInv /\ TypeInv /\ clock \in Nat /\ w.at \in Nat /\ LocalOK(w)
      /\ HistoryAbove(w) /\ HistoryCovers(w) /\ InHand(w) /\ LocalsTraced(w)
  BY DEF PaidInv, RowsInv, WatcherInv, CoroutineOK, LocalOK, SnapshotInv, IInv, TypeInv, TypeOK
<1>2. CASE ReadHistory
  <2> DEFINE h == { [tx |-> t, height |-> position[t]] : t \in HistoryOf(w.address) }
             c == [w EXCEPT !.stage = "load", !.history = h]
  <2>1. \A x \in h : x.height \in Nat /\ AboveSnapshots(w.address, x)
    BY <1>1, HistoryReadIsAbove
  <2>2. ~evicted => \A p \in PaymentsAt(w.address) : \A r \in transactions[p] :
                      \E x \in h : x.tx = r.tx
    <3>1. ASSUME NEW t \in HistoryOf(w.address) PROVE \E x \in h : x.tx = t
      <4>1. PICK x : x = [tx |-> t, height |-> position[t]]
        OBVIOUS
      <4>2. x \in h /\ x.tx = t
        BY <4>1
      <4> QED BY <4>2
    <3> HIDE DEF h
    <3> QED BY <1>1, <3>1, HistoryReadCovers
  <2> HIDE DEF h
  <2>3. c.stage = "load" /\ c.history = h /\ c.address = w.address
    BY <1>1 DEF LocalOK, Locals
  <2> HIDE DEF c
  <2>4. HistoryAbove(c) /\ HistoryCovers(c)
    BY <2>1, <2>2, <2>3 DEF HistoryAbove, HistoryCovers
  <2>5. InHand(c)
    BY <2>3 DEF InHand
  <2>6. w.stage = "history" /\ (Raise \/ w' = c)
    BY <1>2 DEF ReadHistory, Continue, c, h
  <2> QED BY <2>4, <2>5, <2>6, WaysOutUnburdened DEF InOrder
<1>3. ASSUME NEW ids, ids \subseteq PaymentsAt(w.address), ids # {}, NEW n \in Nat,
             \A p \in ids : payments[p].created_at <= n, w.stage \in {"load", "evaluate"},
             Continue(NextPayment(ids, n))
      PROVE  \E c : w' = c /\ InOrder(c) /\ (w.stage = "upsert" => c.history = w.history)
  <2>1. PICK c : c = NextPayment(ids, n)
    OBVIOUS
  <2>2. \A h \in w.history : h.tx \in Tx /\ h.height \in Nat
    BY <1>1, <1>3 DEF LocalsTraced, HistoryAbove, Reconciling
  <2>3. /\ c.history = w.history /\ c.address = w.address
        /\ InHand(c)
    BY <1>1, <1>3, <2>1, <2>2, NextPaymentInHand
  <2>4. InOrder(c)
    BY <1>1, <1>3, <2>3, SameHistoryInOrder DEF Reconciling
  <2> QED BY <1>3, <2>1, <2>3, <2>4 DEF Continue
<1>4. CASE LoadPayments
  <2>1. CASE EndReconcile
    BY <2>1, WaysOutUnburdened
  <2>2. CASE PaymentsAt(w.address) # {} /\ Continue(NextPayment(PaymentsAt(w.address), clock))
    <3>1. \A p \in PaymentsAt(w.address) : payments[p].created_at <= clock
      BY <1>1 DEF PaymentsAt, SnapshotInv, PaymentSnapshots, Snapshot
    <3>2. w.stage = "load"
      BY <1>4 DEF LoadPayments
    <3> QED BY <1>1, <1>3, <2>2, <3>1, <3>2
  <2> QED BY <1>4, <2>1, <2>2 DEF LoadPayments
<1>5. CASE Upsert
  <2>1. w.stage = "upsert"
    BY <1>5 DEF Upsert
  <2>2. PICK o : \/ Continue([w EXCEPT !.upserts = @ \ {o}, !.fetched = @ \cup {o.tx},
                                !.stage = IF w.upserts = {o} THEN "delete" ELSE "upsert"])
                 \/ Raise
    BY <1>5 DEF Upsert
  <2> DEFINE stage == IF w.upserts = {o} THEN "delete" ELSE "upsert"
             c == [w EXCEPT !.upserts = @ \ {o}, !.fetched = @ \cup {o.tx}, !.stage = stage]
  <2>3. /\ c.stage \in {"delete", "upsert"} /\ c.upserts \subseteq w.upserts
        /\ c.ids = w.ids /\ c.history = w.history /\ c.at = w.at /\ c.payment = w.payment
        /\ c.address = w.address
    BY <1>1 DEF LocalOK, Locals
  <2> HIDE DEF c
  <2>4. InHand(c)
    BY <1>1, <2>1, <2>3 DEF InHand
  <2>5. InOrder(c)
    BY <1>1, <2>1, <2>3, <2>4, SameHistoryInOrder DEF Reconciling
  <2>6. Raise \/ w' = c
    BY <2>2 DEF c, Continue
  <2> QED BY <2>3, <2>5, <2>6, WaysOutUnburdened
<1>6. CASE Delete
  <2> DEFINE c == [w EXCEPT !.stage = "evaluate"]
  <2>1. w.stage = "delete" /\ w' = c
    BY <1>6 DEF Delete, Continue
  <2>2. /\ c.stage = "evaluate" /\ c.ids = w.ids /\ c.history = w.history /\ c.at = w.at
        /\ c.payment = w.payment /\ c.address = w.address
    BY <1>1 DEF LocalOK, Locals
  <2> HIDE DEF c
  <2>3. InHand(c)
    BY <1>1, <2>1, <2>2 DEF InHand
  <2> QED BY <1>1, <2>1, <2>2, <2>3, SameHistoryInOrder DEF Reconciling
<1>7. CASE Evaluate
  <2>1. CASE EndReconcile
    BY <2>1, WaysOutUnburdened
  <2>2. CASE w.ids # {} /\ Continue(NextPayment(w.ids, w.at))
    <3>1. w.stage = "evaluate"
      BY <1>7 DEF Evaluate
    <3>2. w.ids \subseteq PaymentsAt(w.address) /\ \A p \in w.ids : payments[p].created_at <= w.at
      BY <1>1, <3>1 DEF InHand
    <3> QED BY <1>1, <1>3, <2>2, <3>1, <3>2
  <2> QED BY <1>7, <2>1, <2>2 DEF Evaluate
<1> QED BY <1>2, <1>4, <1>5, <1>6, <1>7

LEMMA UnburdenedInOrder ==
  ASSUME Unburdened(w')
  PROVE  HistoryAbove(w)' /\ HistoryCovers(w)' /\ InHand(w)'
BY DEF Unburdened, Reconciling, HistoryAbove, HistoryCovers, InHand

LEMMA NextInOrder ==
  ASSUME NEW c, w' = c, HistoryAbove(c)', HistoryCovers(c)', InHand(c)'
  PROVE  HistoryAbove(w)' /\ HistoryCovers(w)' /\ InHand(w)'
BY DEF HistoryAbove, HistoryCovers, InHand, AboveSnapshots, PaymentsAt

LEMMA StepInOrder ==
  ASSUME PaidInv, [WatcherNext]_allVars
  PROVE  HistoryAbove(w)' /\ HistoryCovers(w)' /\ InHand(w)'
<1>1. PlatformStep /\ IInv /\ SnapshotInv /\ LocalOK(w)
  BY WatcherNextIsAPlatformStep DEF PaidInv, RowsInv, WatcherInv, CoroutineOK, SnapshotInv
<1>2. ASSUME NEW c, w' = c, InOrder(c), w.stage = "upsert" => c.history = w.history
      PROVE  HistoryAbove(w)' /\ HistoryCovers(w)' /\ InHand(w)'
  <2>1. HistoryAbove(c)' /\ InHand(c)'
    BY <1>1, <1>2, HistoryStaysAbove, HandStays DEF InOrder
  <2>2. HistoryCovers(c)'
    BY <1>2, CoverStays DEF InOrder
  <2> QED BY <1>2, <2>1, <2>2, NextInOrder
<1>3. CASE WatcherStep
  BY <1>1, <1>2, <1>3, SessionStepUnburdened, ReconcileStepInOrder, UnburdenedInOrder
     DEF WatcherStep
<1>4. CASE CycleFails
  BY <1>4, WaysOutUnburdened, UnburdenedInOrder DEF CycleFails
<1>5. CASE ServiceRestart
  <2>1. Unburdened(w')
    BY <1>5 DEF ServiceRestart, At, Unburdened
  <2> QED BY <2>1, UnburdenedInOrder
<1>6. CASE ApiStep \/ ServerStep \/ Disconnect \/ UNCHANGED allVars
  <2>1. w' = w
    BY <1>6 DEF ApiStep, ServerStep, Disconnect, watcherVars, allVars, codeVars
  <2> QED BY <1>2, <2>1 DEF InOrder, PaidInv
<1> QED BY <1>3, <1>4, <1>5, <1>6 DEF WatcherNext, PlatformMoves

(* The rows stay rows, and what a paid payment rests on stays there.       *)
LEMMA StepRowsOK ==
  ASSUME PaidInv, [WatcherNext]_allVars
  PROVE  \A p \in PaymentIds : RowsOK(transactions'[p])
<1>1. /\ WatcherInv /\ DOMAIN transactions = PaymentIds
      /\ \A p \in PaymentIds : RowsOK(transactions[p])
  BY DEF PaidInv, RowsInv, RowsTraced
<1>2. \A rows : \A txids : RowsOK(rows) => RowsOK(RowsWithin(rows, txids))
  <2> SUFFICES ASSUME NEW rows, NEW txids, RowsOK(rows) PROVE RowsOK(RowsWithin(rows, txids))
    OBVIOUS
  <2>1. RowsWithin(rows, txids) \subseteq rows
    BY DEF RowsWithin
  <2>2. IsFiniteSet(RowsWithin(rows, txids))
    BY <2>1, FS_Subset DEF RowsOK, FiniteOutputs
  <2> QED BY <2>1, <2>2 DEF RowsOK, FiniteOutputs
<1>3. CASE UNCHANGED transactions
  BY <1>1, <1>3
<1>4. ASSUME NEW q, NEW txids, transactions' = [transactions EXCEPT ![q] = RowsWithin(@, txids)]
      PROVE  \A p \in PaymentIds : RowsOK(transactions'[p])
  BY <1>1, <1>2, <1>4
<1>5. ASSUME NEW o \in w.upserts, w.stage = "upsert",
             transactions' = [transactions EXCEPT ![w.payment] = UpsertRow(@, o)]
      PROVE  \A p \in PaymentIds : RowsOK(transactions'[p])
  <2>1. IsObservation(o)
    BY <1>5 DEF PaidInv, InHand
  <2> QED BY <1>1, <1>5, <2>1, UpsertKeepsRows
<1> QED BY <1>1, <1>3, <1>4, <1>5, RowEffects

(* The scope and the rows a payment is paid by.                            *)
Paying(rows, row) == { r \in rows : ObservationBelongsToPayment(r, ScopeOf(row)) }

LEMMA EvaluatedPaid ==
  ASSUME PaidInv, NEW p \in DOMAIN payments, NEW now
  PROVE  EvaluatePersisted(p, now).status \in PaidStatuses
           <=> SumValues(Counted(p)) >= payments[p].amount
<1>1. p \in PaymentIds /\ payments[p].amount \in Nat
  BY DEF PaidInv, RowsInv, SnapshotInv, IInv, TypeInv, TypeOK, PaymentRowOK
<1>2. FiniteOutputs(Counted(p))
  <2>1. Counted(p) \subseteq transactions[p] /\ FiniteOutputs(transactions[p])
    BY <1>1 DEF Counted, PaidInv, RowsOK
  <2> QED BY <2>1, FS_Subset DEF FiniteOutputs
<1> DEFINE height == IF chainTip = None THEN payments[p].created_height ELSE chainTip
<1>3. EvaluatePersisted(p, now) =
        EvaluateOutputs(payments[p].amount, Counted(p), height, payments[p].confirmations,
                        payments[p].expires_at, now)
  BY DEF EvaluatePersisted, EvaluateRows, Counted, ScopeOf
<1> HIDE DEF height
<1> QED BY <1>1, <1>2, <1>3, PaidIsReceived

(* An upsert of an observation in hand does not take from what a payment   *)
(* counts.                                                                 *)
LEMMA UpsertKeepsCounted ==
  ASSUME PaidInv, w.stage = "upsert", NEW o \in w.upserts,
         NEW rows, rows = transactions[w.payment], ~UpsertRefused(rows, o), ~evicted,
         NEW row, row = payments[w.payment], row.created_height <= lowest
  PROVE  /\ w.payment \in DOMAIN payments
         /\ SumValues(Paying(rows, row)) <= SumValues(Paying(UpsertRow(rows, o), row))
<1>1. /\ w.payment \in PaymentsAt(w.address) /\ row.created_at <= w.at
      /\ IsObservation(o) /\ o.first_seen = w.at
      /\ \E h \in w.history : h.tx = o.tx /\ h.height = o.height
  BY DEF PaidInv, InHand
<1>2. w.payment \in PaymentIds /\ PaymentRowOK(row) /\ w.payment \in DOMAIN payments
  BY <1>1 DEF PaymentsAt, PaidInv, RowsInv, SnapshotInv, IInv, TypeInv, TypeOK
<1>3. RowsOK(rows)
  BY <1>2 DEF PaidInv
<1>4. o.tx \notin baseline[w.payment]
  BY DEF PaidInv, RowsInv, LocalsTraced, Traced
<1>5. o.height > 0 => o.height > row.created_height
  <2>1. PICK h \in w.history : h.tx = o.tx /\ h.height = o.height
    BY <1>1
  <2>2. MinedAbove(lowest, baseline[w.payment], row.created_height, h)
    BY <1>1, <2>1 DEF PaidInv, HistoryAbove, AboveSnapshots, Reconciling
  <2> QED BY <1>4, <2>1, <2>2 DEF MinedAbove
<1> DEFINE scope == ScopeOf(row)
<1>6. /\ scope.created_at = row.created_at /\ scope.created_at \in Nat
      /\ scope.created_height = row.created_height /\ scope.created_height \in Nat
      /\ scope.expires_at \in Nat
  BY <1>2 DEF PaymentRowOK, ScopeOf
<1> HIDE DEF scope
<1>7. ASSUME NEW x \in Paying(rows, row), Outpoint(x) = Outpoint(o)
      PROVE  Renewed(rows, o) \in Paying(UpsertRow(rows, o), row)
  <2>1. x \in RowFor(rows, o) /\ ObservationBelongsToPayment(x, scope)
    BY <1>7 DEF Paying, RowFor, scope
  <2>2. ObservationBelongsToPayment(Renewed(rows, o), scope)
    BY <1>1, <1>3, <1>5, <1>6, <2>1, RenewedBelongs
  <2>3. Renewed(rows, o) \in UpsertRow(rows, o)
    BY UpsertIs
  <2> QED BY <2>2, <2>3 DEF Paying, scope
<1>8. ASSUME NEW x \in Paying(rows, row), Outpoint(x) # Outpoint(o)
      PROVE  x \in Paying(UpsertRow(rows, o), row)
  BY <1>8, UpsertIs DEF Paying, RowFor
<1>9. /\ Paying(rows, row) \in SUBSET rows
      /\ Paying(UpsertRow(rows, o), row) \in SUBSET UpsertRow(rows, o)
  BY DEF Paying
<1>10. SumValues(Paying(rows, row)) <= SumValues(Paying(UpsertRow(rows, o), row))
  BY <1>1, <1>3, <1>7, <1>8, <1>9, UpsertKeepsTheSum
<1> QED BY <1>2, <1>10

LEMMA PayingIsNatural ==
  ASSUME NEW rows, RowsOK(rows), NEW row
  PROVE  SumValues(Paying(rows, row)) \in Nat
<1>1. IsFiniteSet(Paying(rows, row)) /\ Amounts(Paying(rows, row))
  BY FS_Subset DEF RowsOK, FiniteOutputs, IsObservation, Amounts, Paying
<1> QED BY <1>1, SumIsNatural

LEMMA StepPaidCovered ==
  ASSUME PaidInv, [WatcherNext]_allVars
  PROVE  PaidCovered'
<1> SUFFICES ASSUME ~evicted', NEW p \in DOMAIN payments',
                    payments'[p].status \in PaidStatuses,
                    payments'[p].created_height <= lowest'
             PROVE  SumValues(Paying(transactions'[p], payments'[p])) >= payments'[p].amount
  BY DEF PaidCovered, Counted, Paying, ScopeOf, ObservationBelongsToPayment
<1>1. PlatformStep /\ IInv /\ WatcherInv /\ DOMAIN transactions = PaymentIds
  BY WatcherNextIsAPlatformStep DEF PaidInv, RowsInv, RowsTraced, SnapshotInv
<1>2. /\ p \in DOMAIN payments
      /\ SameIdentity(payments'[p], payments[p])
      /\ \/ payments'[p].status = payments[p].status
         \/ \E now : payments'[p].status = EvaluatePersisted(p, now).status
  BY <1>1, PaymentOrigins DEF PaidStatuses
<1>3. p \in PaymentIds /\ payments[p].created_height \in Nat
  BY <1>1, <1>2 DEF IInv, TypeInv, TypeOK, PaymentRowOK
<1>4. ~evicted /\ payments[p].created_height <= lowest
  BY <1>1, <1>2, <1>3, ChainOnlyFalls DEF IInv, SameIdentity
<1>5. \A rows : Paying(rows, payments'[p]) = Paying(rows, payments[p])
  BY <1>2 DEF Paying, ScopeOf, SameIdentity
<1>6. SumValues(Paying(transactions[p], payments[p])) >= payments[p].amount
  <2>1. CASE payments'[p].status = payments[p].status
    BY <1>2, <1>4, <2>1 DEF PaidInv, PaidCovered, Counted, Paying
  <2>2. ASSUME NEW now, payments'[p].status = EvaluatePersisted(p, now).status
        PROVE  SumValues(Paying(transactions[p], payments[p])) >= payments[p].amount
    BY <1>2, <2>2, EvaluatedPaid DEF Counted, Paying
  <2> QED BY <1>2, <2>1, <2>2
<1>7. SumValues(Paying(transactions'[p], payments[p])) >= payments[p].amount
  <2>1. CASE transactions'[p] = transactions[p]
    BY <1>6, <2>1
  <2>2. CASE /\ w.stage = "delete"
             /\ transactions' = [transactions EXCEPT
                  ![w.payment] = RowsWithin(@, { h.tx : h \in w.history })]
             /\ p = w.payment
    <3>1. w.payment \in PaymentsAt(w.address)
      BY <2>2 DEF PaidInv, InHand
    <3>2. \A r \in transactions[p] : \E h \in w.history : h.tx = r.tx
      BY <1>4, <2>2, <3>1 DEF PaidInv, HistoryCovers, Reconciling
    <3>3. RowsWithin(transactions[p], { h.tx : h \in w.history }) = transactions[p]
      BY <3>2 DEF RowsWithin
    <3> QED BY <1>1, <1>3, <1>6, <2>2, <3>3
  <2>3. ASSUME NEW o \in w.upserts, w.stage = "upsert",
               ~UpsertRefused(transactions[w.payment], o),
               transactions' = [transactions EXCEPT ![w.payment] = UpsertRow(@, o)],
               p = w.payment
        PROVE  SumValues(Paying(transactions'[p], payments[p])) >= payments[p].amount
    <3>1. SumValues(Paying(transactions[p], payments[p]))
            <= SumValues(Paying(UpsertRow(transactions[p], o), payments[p]))
      BY <1>4, <2>3, UpsertKeepsCounted
    <3>2. transactions'[p] = UpsertRow(transactions[p], o)
      BY <1>1, <1>3, <2>3
    <3>3. /\ RowsOK(transactions[p]) /\ RowsOK(transactions'[p])
          /\ payments[p].amount \in Nat
      BY <1>1, <1>2, <1>3, StepRowsOK DEF PaidInv, IInv, TypeInv, TypeOK, PaymentRowOK
    <3>4. /\ SumValues(Paying(transactions[p], payments[p])) \in Nat
          /\ SumValues(Paying(transactions'[p], payments[p])) \in Nat
      BY <3>3, PayingIsNatural
    <3> QED BY <1>6, <3>1, <3>2, <3>3, <3>4
  <2> QED BY <1>1, <1>3, <2>1, <2>2, <2>3, RowEffects
<1> QED BY <1>2, <1>5, <1>7 DEF SameIdentity

LEMMA InitPaidInv == WatcherSystemInit => PaidInv
<1> SUFFICES ASSUME WatcherSystemInit PROVE PaidInv
  OBVIOUS
<1>1. RowsInv
  BY InitRowsInv
<1>2. HistoryAbove(w) /\ HistoryCovers(w) /\ InHand(w)
  BY DEF WatcherSystemInit, WatcherInit, At, HistoryAbove, HistoryCovers, InHand, Reconciling
<1>3. \A p \in PaymentIds : RowsOK(transactions[p])
  BY FS_EmptySet DEF WatcherSystemInit, Init, StoreInit, RowsOK, FiniteOutputs
<1>4. PaidCovered
  BY DEF WatcherSystemInit, Init, StoreInit, PaidCovered
<1> QED BY <1>1, <1>2, <1>3, <1>4 DEF PaidInv

LEMMA StepPaidInv == ASSUME PaidInv, [WatcherNext]_allVars PROVE PaidInv'
<1>1. RowsInv'
  BY StepRowsInv DEF PaidInv
<1>2. HistoryAbove(w)' /\ HistoryCovers(w)' /\ InHand(w)'
  BY StepInOrder
<1>3. \A p \in PaymentIds : RowsOK(transactions[p])'
  BY StepRowsOK DEF RowsOK
<1>4. PaidCovered'
  BY StepPaidCovered
<1> QED BY <1>1, <1>2, <1>3, <1>4 DEF PaidInv

LEMMA PaidInductive == WatcherSpec => []PaidInv
  BY InitPaidInv, StepPaidInv, PTL DEF WatcherSpec

(* Unless a transaction is evicted, or blocks are disconnected below the   *)
(* height a payment was created at, a payment that shows paid shows paid   *)
(* from then on, for any requests, chain and interleaving: no stale        *)
(* history, stale tip, stale clock or half-done reconciliation takes the   *)
(* money back (_reconcile_scripthash, upsert_transaction,                  *)
(* delete_transactions_not_in, refresh_payment).                           *)
THEOREM PaidIsForGood == WatcherSpec => PaidStaysPaid
<1>1. ASSUME PaidInv, [WatcherNext]_allVars, ~evicted', NEW p \in DOMAIN payments,
             payments[p].status \in PaidStatuses, lowest' >= payments[p].created_height
      PROVE  payments'[p].status \in PaidStatuses
  <2>1. PlatformStep /\ IInv /\ payments[p].created_height \in Nat
    BY <1>1, WatcherNextIsAPlatformStep
       DEF PaidInv, RowsInv, SnapshotInv, IInv, TypeInv, TypeOK, PaymentRowOK
  <2>2. ~evicted /\ payments[p].created_height <= lowest
    BY <1>1, <2>1, ChainOnlyFalls DEF IInv
  <2>3. SumValues(Counted(p)) >= payments[p].amount
    BY <1>1, <2>2 DEF PaidInv, PaidCovered
  <2>4. \/ payments'[p].status = payments[p].status
        \/ \E now : payments'[p].status = EvaluatePersisted(p, now).status
    BY <2>1, PaymentsStay, PaymentOrigins
  <2> QED BY <1>1, <2>3, <2>4, EvaluatedPaid
<1>2. PaidInv /\ [WatcherNext]_allVars
        => [~evicted' => \A p \in DOMAIN payments :
              payments[p].status \in PaidStatuses /\ lowest' >= payments[p].created_height
                => payments'[p].status \in PaidStatuses]_allVars
  BY <1>1
<1> QED BY <1>2, PaidInductive, PTL DEF PaidStaysPaid, WatcherSpec

-----------------------------------------------------------------------------
(***************************************************************************)
(* Quiet means reconciled.  The reconciliation of an address may be under  *)
(* way while the chain, the requests and the session go on.  What holds    *)
(* all along is that every subscribed address that is not missed           *)
(*  - is due: something makes the coroutine read its history later on, or  *)
(*    the session is lost and its subscriptions with it;                   *)
(*  - or is being reconciled with a history that is still that of the      *)
(*    server, and each of its payments is waiting, is at a point of the    *)
(*    loop that leaves it what the history has, or is reconciled;          *)
(*  - or is reconciled.                                                    *)
(* When the watcher is quiet nothing is due and nothing under way.         *)
(***************************************************************************)

Amount(o) == <<o.tx, o.vout, o.value, o.height>>
Amounted(S) == { Amount(o) : o \in S }

(* What a payment of the address with this baseline should hold.           *)
PaidBy(t, address, height) ==
  { <<t, i, Pays[t][i].value, height>> :
      i \in { j \in DOMAIN Pays[t] : /\ Pays[t][j].address = address
                                     /\ Pays[t][j].value > 0 } }

Owing(address, known) ==
  UNION { PaidBy(t, address, position[t]) : t \in HistoryOf(address) \ known }

OwedRows(p) == Owing(payments[p].address, baseline[p])

(* The amounts shown are those of the rows.                                *)
Shows(row, rows) ==
  /\ row.received = SumValues(Paying(rows, row))
  /\ row.confirmed = SumValues({ r \in Paying(rows, row) : r.height > 0 })

LEMMA EvaluationShows ==
  ASSUME NEW p, NEW now
  PROVE  LET e == EvaluatePersisted(p, now)
             paying == Paying(transactions[p], payments[p])
         IN  /\ e.received = SumValues(paying)
             /\ e.confirmed = SumValues({ r \in paying : r.height > 0 })
BY DEF EvaluatePersisted, EvaluateRows, EvaluateOutputs, Paying

LEMMA ReconciledIs ==
  \A p : Reconciled(p) <=>
           /\ Amounted(transactions[p]) = OwedRows(p)
           /\ Shows(payments[p], transactions[p])
<1> SUFFICES ASSUME NEW p
             PROVE  Reconciled(p) <=>
                      /\ Amounted(transactions[p]) = OwedRows(p)
                      /\ Shows(payments[p], transactions[p])
  OBVIOUS
<1>1. /\ StoredOutputs(p) = Amounted(transactions[p])
      /\ ExpectedOutputs(p) = OwedRows(p)
  BY DEF StoredOutputs, ExpectedOutputs, OwedRows, Owing, PaidBy, Amounted, Amount
<1> QED BY <1>1, EvaluationShows DEF Reconciled, Shows

(* A refresh shows what the rows of its payment sum up to, whenever it is  *)
(* and whatever the tip; other payments it leaves alone.                   *)
LEMMA RefreshShows ==
  ASSUME TypeOK, NEW p, NEW now, RefreshPayment(p, now)
  PROVE  /\ p \in DOMAIN payments
         /\ UNCHANGED transactions
         /\ Shows(payments'[p], transactions[p])
         /\ \A x \in DOMAIN payments : x # p => payments'[x] = payments[x]
<1> DEFINE row == payments[p]
           e == EvaluatePersisted(p, now)
           rows == transactions[p]
           new == [row EXCEPT !.status = e.status, !.received = e.received,
                              !.confirmed = e.confirmed, !.policy = e.policy,
                              !.version = @ + 1, !.updated_at = now]
<1>1. p \in DOMAIN payments /\ UNCHANGED transactions
  BY DEF RefreshPayment
<1>2. PaymentRowOK(row)
  BY <1>1 DEF TypeOK
<1>3. /\ e.received = SumValues(Paying(rows, row))
      /\ e.confirmed = SumValues({ r \in Paying(rows, row) : r.height > 0 })
  BY EvaluationShows
<1>4. CASE UNCHANGED payments /\ row.received = e.received /\ row.confirmed = e.confirmed
  BY <1>1, <1>3, <1>4 DEF Shows
<1>5. CASE payments' = [payments EXCEPT ![p] = new]
  <2>1. /\ new.received = e.received /\ new.confirmed = e.confirmed
        /\ ScopeOf(new) = ScopeOf(row)
    <3> HIDE DEF row, e
    <3> QED BY <1>2 DEF PaymentRowOK, PaymentColumns, ScopeOf
  <2> HIDE DEF new, e, row
  <2>2. Paying(rows, new) = Paying(rows, row)
    BY <2>1 DEF Paying
  <2>3. Shows(new, rows)
    BY <1>3, <2>1, <2>2 DEF Shows
  <2> QED BY <1>1, <1>5, <2>3
<1> QED BY <1>4, <1>5 DEF RefreshPayment

(* Whoever takes a step, an amount that is shown stays right as long as    *)
(* the rows of the payment stay.                                           *)
RowMoves(p) ==
  \/ payments'[p] = payments[p]
  \/ UNCHANGED transactions /\ Shows(payments'[p], transactions[p])

LEMMA PaymentRowsMove ==
  ASSUME IInv, PlatformStep, NEW p \in DOMAIN payments
  PROVE  RowMoves(p)
<1>1. TypeOK
  BY DEF IInv, TypeInv
<1>2. ASSUME NEW q, NEW now, RefreshPayment(q, now) PROVE RowMoves(p)
  <2>1. CASE q = p
    BY <1>1, <1>2, <2>1, RefreshShows DEF RowMoves
  <2>2. CASE q # p
    BY <1>1, <1>2, <2>2, RefreshShows DEF RowMoves
  <2> QED BY <2>1, <2>2
<1>3. CASE \E r \in PaymentIds : CreateStep(r)
  <2> PICK r \in PaymentIds : CreateStep(r)
    BY <1>3
  <2>1. CASE Insert(r)
    <3>1. r # p
      BY <2>1 DEF Insert, IInv, OpenedByReturn
    <3>2. CASE UNCHANGED storeVars
      BY <3>2 DEF storeVars, RowMoves
    <3>3. CASE payments' = [x \in DOMAIN payments \cup {r} |->
                              IF x = r THEN PaymentRow(Request[r], create[r].at, create[r].height)
                              ELSE payments[x]]
      BY <3>1, <3>3 DEF RowMoves
    <3> QED BY <2>1, <3>2, <3>3 DEF Insert, CreatePayment
  <2>2. CASE UNCHANGED payments
    BY <2>2 DEF RowMoves
  <2>3. Insert(r) \/ UNCHANGED payments
    BY DEF CreateStep, CheckReplay, CheckReference, CheckAddress, SnapshotTip, SnapshotHistory,
           SnapshotFails, SaveTip, SetChainTip, storeVars
  <2> QED BY <2>1, <2>2, <2>3
<1>4. CASE \E g \in Readers : GetStep(g)
  <2>1. (\E q, now : RefreshPayment(q, now)) \/ UNCHANGED payments
    BY <1>4 DEF GetStep, BeginGet, FinishGet, storeVars
  <2> QED BY <1>2, <2>1 DEF RowMoves
<1>5. CASE WatcherTransaction
  <2>1. (\E q, now : RefreshPayment(q, now)) \/ UNCHANGED payments
    BY <1>5 DEF WatcherTransaction, SetChainTip, UpsertTransaction, DeleteTransactionsNotIn
  <2> QED BY <1>2, <2>1 DEF RowMoves
<1>6. CASE ChainStep \/ RequestsForgotten \/ Tick \/ UNCHANGED vars
  BY <1>6 DEF ChainStep, RequestsForgotten, Tick, vars, storeVars, RowMoves
<1> QED BY <1>3, <1>4, <1>5, <1>6 DEF PlatformStep

LEMMA ShownStays ==
  ASSUME IInv, PlatformStep, NEW p \in DOMAIN payments,
         Shows(payments[p], transactions[p]), transactions'[p] = transactions[p]
  PROVE  Shows(payments'[p], transactions'[p])
BY PaymentRowsMove DEF RowMoves

(* The history of an address, and nothing of it moves.                     *)
HistoryNow(a) == { [tx |-> t, height |-> position[t]] : t \in HistoryOf(a) }

Still(a) ==
  \A t \in Tx : (\E i \in DOMAIN Pays[t] : Pays[t][i].address = a) => position'[t] = position[t]

LEMMA StillOwed ==
  ASSUME NEW a, Still(a)
  PROVE  /\ HistoryNow(a)' = HistoryNow(a)
         /\ \A known : Owing(a, known)' = Owing(a, known)
<1>1. HistoryOf(a)' = HistoryOf(a)
  BY DEF HistoryOf, Still
<1>2. \A t \in HistoryOf(a) : position'[t] = position[t]
  BY DEF HistoryOf, Still
<1>3. HistoryNow(a)' = HistoryNow(a)
  BY <1>1, <1>2 DEF HistoryNow
<1>4. \A known : Owing(a, known)' = Owing(a, known)
  BY <1>1, <1>2 DEF Owing
<1> QED BY <1>3, <1>4

LEMMA ReconciledNext ==
  (\A p : Reconciled(p) <=>
            /\ Amounted(transactions[p]) = OwedRows(p)
            /\ Shows(payments[p], transactions[p]))'
  BY ReconciledIs, PTL

LEMMA OwedStays ==
  ASSUME IInv, PlatformStep, NEW p \in DOMAIN payments, Still(payments[p].address)
  PROVE  OwedRows(p)' = OwedRows(p)
<1>1. PICK a, known : a = payments[p].address /\ known = baseline[p]
  OBVIOUS
<1>2. payments'[p].address = a /\ baseline'[p] = known
  BY <1>1, PaymentsKeepTheirOrigin
<1>3. Owing(a, known)' = Owing(a, known)
  BY <1>1, StillOwed
<1> QED BY <1>1, <1>2, <1>3 DEF OwedRows, Owing, HistoryOf

LEMMA ReconciledStays ==
  ASSUME IInv, PlatformStep, NEW p \in DOMAIN payments, Reconciled(p),
         transactions'[p] = transactions[p], Still(payments[p].address)
  PROVE  Reconciled(p)'
<1>1. Amounted(transactions[p]) = OwedRows(p) /\ Shows(payments[p], transactions[p])
  BY ReconciledIs
<1>2. Shows(payments'[p], transactions'[p]) /\ OwedRows(p)' = OwedRows(p)
  BY <1>1, ShownStays, OwedStays
<1>3. Amounted(transactions'[p]) = OwedRows(p)'
  BY <1>1, <1>2
<1> QED BY <1>2, <1>3, ReconciledNext DEF Amounted, Amount, Shows, Paying

-----------------------------------------------------------------------------
(* The reconciliation of a payment: before its upserts, its removal and    *)
(* its evaluation.                                                         *)
ProgressOf(stage, upserts, rows, owed) ==
  \/ /\ stage = "upsert"
     /\ Amounted(upserts) \subseteq owed
     /\ owed \subseteq Amounted(rows) \cup Amounted(upserts)
  \/ stage = "delete" /\ owed \subseteq Amounted(rows)
  \/ stage = "evaluate" /\ Amounted(rows) = owed

(* An output is owed at one height.                                        *)
LEMMA OwedOnce ==
  ASSUME NEW address, NEW known, NEW k \in Owing(address, known),
         NEW l \in Owing(address, known), k[1] = l[1], k[2] = l[2]
  PROVE  k = l
<1>1. PICK t \in HistoryOf(address) \ known : k \in PaidBy(t, address, position[t])
  BY DEF Owing
<1>2. PICK u \in HistoryOf(address) \ known : l \in PaidBy(u, address, position[u])
  BY DEF Owing
<1>3. PICK i : k = <<t, i, Pays[t][i].value, position[t]>>
  BY <1>1 DEF PaidBy
<1>4. PICK j : l = <<u, j, Pays[u][j].value, position[u]>>
  BY <1>2 DEF PaidBy
<1>5. t = u /\ i = j
  BY <1>3, <1>4
<1> QED BY <1>3, <1>4, <1>5

LEMMA UpsertProgresses ==
  ASSUME NEW rows, RowsOK(rows), NEW upserts, NEW o \in upserts, IsObservation(o),
         NEW address, NEW known, NEW owed, owed = Owing(address, known),
         ProgressOf("upsert", upserts, rows, owed)
  PROVE  ProgressOf(IF upserts = {o} THEN "delete" ELSE "upsert", upserts \ {o},
                    UpsertRow(rows, o), owed)
<1> DEFINE after == UpsertRow(rows, o)
<1>1. /\ Amounted(upserts) \subseteq owed
      /\ owed \subseteq Amounted(rows) \cup Amounted(upserts)
  BY DEF ProgressOf
<1>2. PICK new : new = Renewed(rows, o)
  OBVIOUS
<1>3. after = (rows \ RowFor(rows, o)) \cup {new}
  BY <1>2, UpsertIs
<1>4. Amount(new) = Amount(o)
  BY <1>2, RenewedIs DEF RowsOK, Amount
<1> HIDE DEF after
<1>5. Amount(o) \in owed /\ Amount(o) \in Amounted(after)
  BY <1>1, <1>3, <1>4 DEF Amounted
<1>6. ASSUME NEW r \in rows, Amount(r) \in owed PROVE Amount(r) \in Amounted(after)
  <2>1. CASE Outpoint(r) = Outpoint(o)
    <3>1. Amount(r)[1] = Amount(o)[1] /\ Amount(r)[2] = Amount(o)[2]
      BY <2>1 DEF Outpoint, Amount
    <3>2. Amount(r) = Amount(o)
      BY <1>5, <1>6, <3>1, OwedOnce
    <3> QED BY <1>5, <3>2
  <2>2. CASE Outpoint(r) # Outpoint(o)
    BY <1>3, <2>2 DEF RowFor, Amounted
  <2> QED BY <2>1, <2>2
<1>7. ASSUME NEW k \in owed PROVE k \in Amounted(after) \cup Amounted(upserts \ {o})
  <2>1. CASE k \in Amounted(rows)
    BY <1>6, <1>7, <2>1 DEF Amounted
  <2>2. CASE k \in Amounted(upserts)
    BY <1>5, <2>2 DEF Amounted
  <2> QED BY <1>1, <1>7, <2>1, <2>2
<1>8. Amounted(upserts \ {o}) \subseteq owed
  BY <1>1 DEF Amounted
<1>9. upserts = {o} => Amounted(upserts \ {o}) = {}
  BY DEF Amounted
<1> QED BY <1>7, <1>8, <1>9 DEF ProgressOf, after

LEMMA DeleteProgresses ==
  ASSUME NEW p \in DOMAIN payments, NEW rows, RowsOK(rows), \A r \in rows : Traced(p, r),
         NEW upserts, NEW txids, txids = HistoryOf(payments[p].address),
         ProgressOf("delete", upserts, rows, OwedRows(p))
  PROVE  Amounted(RowsWithin(rows, txids)) = OwedRows(p)
<1> DEFINE address == payments[p].address
           after == RowsWithin(rows, txids)
<1>1. OwedRows(p) \subseteq Amounted(rows)
  BY DEF ProgressOf
<1>2. ASSUME NEW k \in OwedRows(p) PROVE k \in Amounted(after)
  <2>1. PICK r \in rows : k = Amount(r)
    BY <1>1 DEF Amounted
  <2>2. PICK t \in HistoryOf(address) : k \in PaidBy(t, address, position[t])
    BY DEF OwedRows, Owing
  <2>3. k[1] = t
    BY <2>2 DEF PaidBy
  <2>4. r.tx = t
    BY <2>1, <2>3 DEF Amount
  <2> QED BY <2>1, <2>4 DEF RowsWithin, Amounted
<1>3. ASSUME NEW r \in after PROVE Amount(r) \in OwedRows(p)
  <2>1. r \in rows /\ r.tx \in HistoryOf(address) \ baseline[p]
    BY DEF RowsWithin, Traced
  <2>2. /\ r.vout \in DOMAIN Pays[r.tx] /\ Pays[r.tx][r.vout].address = address
        /\ Pays[r.tx][r.vout].value > 0 /\ r.value = Pays[r.tx][r.vout].value
    BY <2>1 DEF Traced
  <2>3. PICK k : k = <<r.tx, r.vout, Pays[r.tx][r.vout].value, position[r.tx]>>
    OBVIOUS
  <2>4. k \in PaidBy(r.tx, address, position[r.tx])
    BY <2>2, <2>3 DEF PaidBy
  <2>5. k \in OwedRows(p)
    BY <2>1, <2>4 DEF OwedRows, Owing
  <2>6. PICK s \in rows : k = Amount(s)
    BY <1>1, <2>5 DEF Amounted
  <2>7. Outpoint(s) = Outpoint(r)
    BY <2>3, <2>6 DEF Amount, Outpoint
  <2>8. s = r
    BY <2>1, <2>7 DEF RowsOK
  <2> QED BY <2>5, <2>6, <2>8
<1> HIDE DEF after
<1>4. Amounted(after) = OwedRows(p)
  BY <1>2, <1>3 DEF Amounted
<1> QED BY <1>4 DEF after

(* What is matched in a history that is the server's is what is owed.      *)
Matched(p, history, n) ==
  UNION { MatchTransactionOutputs(x.tx, Pays[x.tx], payments[p].address, x.height, n) :
          x \in { y \in history : y.tx \notin baseline[p] } }

LEMMA MatchedIsOwed ==
  ASSUME NEW p \in DOMAIN payments, NEW history, history = HistoryNow(payments[p].address),
         NEW n, NEW matched, matched = Matched(p, history, n)
  PROVE  Amounted(matched) = OwedRows(p)
<1> USE DEF Matched
<1> DEFINE address == payments[p].address
           h == { y \in history : y.tx \notin baseline[p] }
<1>1. ASSUME NEW o \in matched PROVE Amount(o) \in OwedRows(p)
  <2>1. PICK x \in h : o \in MatchTransactionOutputs(x.tx, Pays[x.tx], address, x.height, n)
    BY <1>1
  <2>2. PICK t \in HistoryOf(address) : x = [tx |-> t, height |-> position[t]]
    BY <2>1 DEF HistoryNow
  <2>3. x.tx = t /\ x.height = position[t] /\ t \notin baseline[p]
    BY <2>1, <2>2
  <2>4. o \in MatchTransactionOutputs(t, Pays[t], address, position[t], n)
    BY <2>1, <2>3
  <2> HIDE DEF address
  <2>5. PICK i \in { j \in DOMAIN Pays[t] : Pays[t][j].address = address /\ Pays[t][j].value > 0 } :
          o = [tx |-> t, vout |-> i, value |-> Pays[t][i].value,
               height |-> position[t], first_seen |-> n]
    BY <2>4 DEF MatchTransactionOutputs
  <2>6. Amount(o) = <<t, i, Pays[t][i].value, position[t]>>
    BY <2>5 DEF Amount
  <2>7. Amount(o) \in PaidBy(t, address, position[t])
    BY <2>5, <2>6 DEF PaidBy
  <2>8. t \in HistoryOf(address) \ baseline[p]
    BY <2>2, <2>3
  <2> QED BY <2>7, <2>8 DEF OwedRows, Owing, address
<1>2. ASSUME NEW k \in OwedRows(p) PROVE k \in Amounted(matched)
  <2>1. PICK t \in HistoryOf(address) \ baseline[p] : k \in PaidBy(t, address, position[t])
    BY DEF OwedRows, Owing
  <2> HIDE DEF address
  <2>2. PICK i \in { j \in DOMAIN Pays[t] : Pays[t][j].address = address /\ Pays[t][j].value > 0 } :
          k = <<t, i, Pays[t][i].value, position[t]>>
    BY <2>1 DEF PaidBy
  <2>3. PICK x : x = [tx |-> t, height |-> position[t]]
    OBVIOUS
  <2>4. x.tx = t /\ x.height = position[t] /\ x \in h
    BY <2>1, <2>3 DEF HistoryNow, address
  <2>5. PICK o : o = [tx |-> t, vout |-> i, value |-> Pays[t][i].value,
                      height |-> position[t], first_seen |-> n]
    OBVIOUS
  <2>6. o \in MatchTransactionOutputs(t, Pays[t], address, position[t], n)
    BY <2>2, <2>5 DEF MatchTransactionOutputs
  <2>7. o \in MatchTransactionOutputs(x.tx, Pays[x.tx], address, x.height, n)
    BY <2>4, <2>6
  <2>8. o \in matched
    BY <2>4, <2>7 DEF address
  <2>9. Amount(o) = k
    BY <2>2, <2>5 DEF Amount
  <2> QED BY <2>8, <2>9 DEF Amounted
<1> QED BY <1>1, <1>2 DEF Amounted

(* The locals at the first of the payments that are left.                  *)
AtFirst(c, ids) ==
  /\ c.payment \in ids /\ c.ids = ids \ {c.payment}
  /\ c.history = w.history /\ c.address = w.address
  /\ c.stage \in {"upsert", "delete"}
  /\ ProgressOf(c.stage, c.upserts, transactions[c.payment], OwedRows(c.payment))

LEMMA NextPaymentProgresses ==
  ASSUME TypeInv, LocalOK(w), NEW ids, ids \subseteq PaymentsAt(w.address), ids # {},
         NEW n \in Nat, w.history = HistoryNow(w.address), NEW c, c = NextPayment(ids, n)
  PROVE  AtFirst(c, ids)
<1> DEFINE p == CHOOSE x \in ids : \A y \in ids : payments[x].created_at <= payments[y].created_at
           h == { x \in w.history : x.tx \notin baseline[p] }
           o == UNION { MatchTransactionOutputs(x.tx, Pays[x.tx], payments[p].address,
                                                x.height, n) : x \in h }
           stage == IF o = {} THEN "delete" ELSE "upsert"
<1>1. c = [w EXCEPT !.stage = stage, !.at = n, !.payment = p, !.ids = ids \ {p},
                    !.upserts = o]
  BY DEF NextPayment
<1>2. \E x \in ids : \A y \in ids : payments[x].created_at <= payments[y].created_at
  <2> DEFINE S == { payments[x].created_at : x \in ids }
  <2>1. S \in SUBSET Nat /\ S # {}
    BY DEF PaymentsAt, TypeInv, TypeOK, PaymentRowOK
  <2>2. PICK m \in S : \A y \in S : m <= y
    BY <2>1, LeastNumber
  <2> QED BY <2>2
<1>3. p \in ids
  BY <1>2
<1> HIDE DEF p
<1>4. p \in DOMAIN payments /\ payments[p].address = w.address
  BY <1>3 DEF PaymentsAt
<1>5. Amounted(o) = OwedRows(p)
  <2>1. o = Matched(p, w.history, n)
    BY DEF Matched
  <2> HIDE DEF o
  <2> QED BY <1>4, <2>1, MatchedIsOwed
<1> HIDE DEF o
<1>6. /\ c.stage = stage /\ c.payment = p /\ c.ids = ids \ {p} /\ c.upserts = o
      /\ c.history = w.history /\ c.address = w.address
  BY <1>1 DEF LocalOK, Locals
<1>7. ProgressOf(stage, o, transactions[p], OwedRows(p)) /\ stage \in {"upsert", "delete"}
  BY <1>5 DEF ProgressOf, Amounted
<1> HIDE DEF stage
<1> QED BY <1>3, <1>6, <1>7 DEF AtFirst

-----------------------------------------------------------------------------
(* What makes the coroutine read the history of an address later on.       *)
DueFor(c, a) ==
  \/ ~connected
  \/ needsFull /\ c.mode # "full"
  \/ <<"script", a>> \in ToSet(queue)
  \/ c.mode = "full" /\ a \in c.pending
  \/ c.stage = "history" /\ c.address = a

(* Where a payment of the address that is being reconciled may be.         *)
Underway(c, p) ==
  \/ c.stage = "load"
  \/ p \in c.ids
  \/ p = c.payment /\ ProgressOf(c.stage, c.upserts, transactions[p], OwedRows(p))
  \/ p # c.payment /\ Reconciled(p)

BeingReconciled(c, a) ==
  /\ c.stage \in Reconciling /\ c.address = a
  /\ c.history = HistoryNow(a)
  /\ \A p \in PaymentsAt(a) : Underway(c, p)

AtRest(c, a) ==
  /\ ~(c.stage \in Reconciling /\ c.address = a)
  /\ \A p \in PaymentsAt(a) : Reconciled(p)

AddressOK(c, a) == DueFor(c, a) \/ BeingReconciled(c, a) \/ AtRest(c, a)

(* A coroutine that is down has no subscriptions, and the full             *)
(* reconciliation only reads histories and reconciles.                     *)
SessionKept ==
  /\ w.stage = "down" => subscribed = {}
  /\ w.mode = "full" => w.stage \in {"history"} \cup Reconciling

QuietInv ==
  /\ PaidInv
  /\ SessionKept
  /\ \A a \in subscribed \ missed : AddressOK(w, a)

-----------------------------------------------------------------------------
(* What is due stays due.                                                  *)

LEMMA StillDue ==
  ASSUME NEW a, DueFor(w, a), ~(w.stage = "history" /\ w.address = a),
         NEW c, w' = c, UNCHANGED <<connected, needsFull, queue>>,
         \/ c.mode = w.mode /\ c.pending = w.pending
         \/ c.mode # "full" /\ w.mode # "full"
  PROVE  DueFor(w, a)'
BY DEF DueFor

LEMMA LoopDue ==
  ASSUME NEW a, DueFor(w, a), w.mode # "full", w.stage # "history", a \in subscribed',
         UNCHANGED <<needsFull, queue>>, Loop
  PROVE  DueFor(w, a)'
<1>1. CASE connected
  BY <1>1 DEF Loop, Continue, At, DueFor
<1>2. CASE ~connected
  BY <1>2 DEF Loop, Raise
<1> QED BY <1>1, <1>2

LEMMA FullPassDue ==
  ASSUME NEW a, NEW b, NEW pending, a \in pending \cup {b},
         Continue([At("history", "full") EXCEPT !.address = b, !.pending = pending])
  PROVE  DueFor(w, a)'
<1>1. PICK c : c = [At("history", "full") EXCEPT !.address = b, !.pending = pending]
  OBVIOUS
<1>2. w' = c
  BY <1>1 DEF Continue
<1>3. c.mode = "full" /\ c.stage = "history" /\ c.address = b /\ c.pending = pending
  BY <1>1 DEF At
<1>4. \/ w'.mode = "full" /\ a \in w'.pending
      \/ w'.stage = "history" /\ w'.address = a
  BY <1>2, <1>3
<1> QED BY <1>4 DEF DueFor

LEMMA EndPassDue ==
  ASSUME NEW a, DueFor(w, a), w.mode # "full", w.stage # "history", a \in subscribed',
         UNCHANGED queue, EndPass
  PROVE  DueFor(w, a)'
<1>1. CASE w.mode = "timeout" /\ needsFull /\ subscribed # {}
  <2>1. PICK b \in subscribed :
          Continue([At("history", "full") EXCEPT !.address = b, !.pending = subscribed \ {b}])
    BY <1>1 DEF EndPass
  <2>2. PICK pending : pending = subscribed \ {b}
    OBVIOUS
  <2>3. a \in pending \cup {b}
    BY <2>1, <2>2 DEF Continue
  <2>4. Continue([At("history", "full") EXCEPT !.address = b, !.pending = pending])
    BY <2>1, <2>2
  <2> QED BY <2>3, <2>4, FullPassDue
<1>2. CASE ~(w.mode = "timeout" /\ needsFull /\ subscribed # {})
  <2>1. Loop /\ needsFull' = IF w.mode = "timeout" THEN FALSE ELSE needsFull
    BY <1>2 DEF EndPass
  <2>2. connected /\ w' = At("wait", "none") /\ connected' = connected /\ subscribed' = subscribed
    BY <2>1 DEF Loop, Raise, Continue
  <2>3. needsFull => needsFull'
    BY <1>2, <2>1, <2>2
  <2> QED BY <2>2, <2>3 DEF DueFor, At
<1> QED BY <1>1, <1>2

LEMMA EndReconcileDue ==
  ASSUME NEW a, DueFor(w, a), w.stage # "history", a \in subscribed',
         UNCHANGED queue, EndReconcile
  PROVE  DueFor(w, a)'
<1>1. CASE w.mode = "notify" /\ Loop /\ UNCHANGED needsFull
  BY <1>1, LoopDue
<1>2. CASE /\ w.mode \in {"init", "timeout"}
           /\ Continue([At("subscribe", w.mode) EXCEPT !.pending = w.pending])
           /\ UNCHANGED needsFull
  <2>1. PICK c : c = [At("subscribe", w.mode) EXCEPT !.pending = w.pending]
    OBVIOUS
  <2>2. c.mode = w.mode /\ w' = c /\ connected' = connected
    BY <1>2, <2>1 DEF At, Continue
  <2> QED BY <1>2, <2>2, StillDue
<1>3. CASE w.mode \in {"init", "timeout"} /\ EndPass
  BY <1>3, EndPassDue
<1>4. CASE /\ w.mode = "full" /\ w.pending # {}
           /\ \E b \in w.pending :
                Continue([At("history", "full") EXCEPT !.address = b,
                                                       !.pending = w.pending \ {b}])
  <2>1. PICK b \in w.pending :
          Continue([At("history", "full") EXCEPT !.address = b, !.pending = w.pending \ {b}])
    BY <1>4
  <2>2. CASE a \in w.pending
    BY <2>1, <2>2, FullPassDue
  <2>3. CASE a \notin w.pending
    BY <1>4, <2>1, <2>3 DEF DueFor, Continue
  <2> QED BY <2>2, <2>3
<1>5. CASE w.mode = "full" /\ w.pending = {} /\ Loop
  <2>1. connected /\ connected' = connected
    BY <1>5 DEF Loop, Raise, Continue
  <2> QED BY <1>5, <2>1 DEF DueFor
<1> QED BY <1>1, <1>2, <1>3, <1>4, <1>5 DEF EndReconcile

LEMMA NextPaymentPasses ==
  ASSUME LocalOK(w), NEW ids, NEW n, NEW c, c = NextPayment(ids, n)
  PROVE  c.mode = w.mode /\ c.pending = w.pending /\ c.stage \in {"upsert", "delete"}
<1> DEFINE p == CHOOSE x \in ids : \A y \in ids : payments[x].created_at <= payments[y].created_at
           h == { x \in w.history : x.tx \notin baseline[p] }
           o == UNION { MatchTransactionOutputs(x.tx, Pays[x.tx], payments[p].address,
                                                x.height, n) : x \in h }
           stage == IF o = {} THEN "delete" ELSE "upsert"
<1>1. c = [w EXCEPT !.stage = stage, !.at = n, !.payment = p, !.ids = ids \ {p},
                    !.upserts = o]
  BY DEF NextPayment
<1>2. stage \in {"upsert", "delete"}
  OBVIOUS
<1> HIDE DEF p, o, stage
<1> QED BY <1>1, <1>2 DEF LocalOK, Locals

LEMMA TakenOrQueued ==
  ASSUME NEW T, NEW q \in Seq(T), q # <<>>, NEW n \in ToSet(q)
  PROVE  n = Head(q) \/ n \in ToSet(Tail(q))
<1>1. PICK i \in DOMAIN q : n = q[i]
  BY DEF ToSet
<1>2. i \in 1..Len(q) /\ Len(q) \in Nat
  OBVIOUS
<1>3. CASE i = 1
  BY <1>1, <1>3
<1>4. CASE i # 1
  <2>1. i - 1 \in DOMAIN Tail(q) /\ Tail(q)[i - 1] = q[i]
    BY <1>2, <1>4, HeadTailProperties
  <2> QED BY <1>1, <2>1 DEF ToSet
<1> QED BY <1>3, <1>4

LEMMA TakeNotificationDue ==
  ASSUME WatcherInv, SessionKept, NEW a \in subscribed, a \in subscribed', DueFor(w, a),
         TakeNotification
  PROVE  DueFor(w, a)'
<1>1. /\ w.stage = "wait" /\ w.mode # "full" /\ queue # <<>> /\ queue' = Tail(queue)
      /\ UNCHANGED needsFull /\ queue \in Seq(Notifications)
  BY DEF TakeNotification, SessionKept, Reconciling, WatcherInv
<1> DEFINE n == Head(queue)
<1>2. CASE <<"script", a>> = n
  <2>1. Continue([At("history", "notify") EXCEPT !.address = n[2]]) /\ n[2] = a
    <3>1. n[1] = "script" /\ n[2] = a
      BY <1>2
    <3> HIDE DEF n
    <3> QED BY <3>1 DEF TakeNotification, n
  <2>2. w'.stage = "history" /\ w'.address = a
    BY <2>1 DEF Continue, At
  <2> QED BY <2>2 DEF DueFor
<1>3. CASE <<"script", a>> # n
  <2> HIDE DEF n
  <2>1. <<"script", a>> \in ToSet(queue) => <<"script", a>> \in ToSet(queue')
    BY <1>1, <1>3, TakenOrQueued DEF n
  <2>2. connected' = connected /\ w'.mode # "full"
    <3>1. PICK height, address :
             \/ Continue([At("apply", "notify") EXCEPT !.height = height])
             \/ Continue([At("history", "notify") EXCEPT !.address = address])
             \/ Loop
      BY DEF TakeNotification
    <3>2. CASE Loop
      <4>1. Continue(At("wait", "none"))
        BY <3>2 DEF Loop, Raise
      <4> QED BY <4>1 DEF Continue, At
    <3> QED BY <3>1, <3>2 DEF Continue, At
  <2>3. \/ ~connected
        \/ needsFull
        \/ <<"script", a>> \in ToSet(queue)
    BY <1>1 DEF DueFor
  <2> QED BY <1>1, <2>1, <2>2, <2>3 DEF DueFor
<1> QED BY <1>2, <1>3

(* The steps that know of no reconciliation.                               *)
LEMMA SessionStepDue ==
  ASSUME WatcherInv, SessionKept, NEW a \in subscribed, a \in subscribed', DueFor(w, a),
         Connect \/ ApplyTip \/ ListRefreshable \/ RefreshListed \/ Sync \/ Subscribe \/ Timeout
  PROVE  DueFor(w, a)'
<1> USE DEF LocalOK, Locals
<1>1. LocalOK(w)
  BY DEF WatcherInv, CoroutineOK
<1>2. CASE Connect
  BY <1>2 DEF Connect, SessionKept
<1>3. CASE ~Connect
  <2>1. w.stage \in {"apply", "list", "refresh", "sync", "subscribe", "wait"} /\ UNCHANGED queue
    BY <1>3 DEF ApplyTip, ListRefreshable, RefreshListed, Sync, Subscribe, Timeout
  <2>2. w.mode # "full"
    BY <2>1 DEF SessionKept, Reconciling
  <2>3. ASSUME NEW c, Continue(c), c.mode # "full", UNCHANGED needsFull PROVE DueFor(w, a)'
    BY <2>1, <2>2, <2>3, StillDue DEF Continue
  <2>4. ASSUME EndHeader, UNCHANGED needsFull PROVE DueFor(w, a)'
    <3>1. CASE Loop
      BY <2>1, <2>2, <2>4, <3>1, LoopDue
    <3>2. CASE Continue(At("sync", "init"))
      <4>1. At("sync", "init").mode # "full"
        BY DEF At
      <4> QED BY <2>3, <2>4, <3>2, <4>1
    <3> QED BY <2>4, <3>1, <3>2 DEF EndHeader
  <2>5. ASSUME Raise PROVE FALSE
    BY <2>5 DEF Raise
  <2>6. CASE ApplyTip
    <3>1. PICK c : c = [At("list", w.mode) EXCEPT !.at = clock]
      OBVIOUS
    <3>2. c.mode # "full"
      BY <2>2, <3>1 DEF At
    <3> QED BY <2>3, <2>6, <3>1, <3>2 DEF ApplyTip
  <2>7. CASE ListRefreshable
    <3>1. PICK ids : EndHeader \/ Continue([w EXCEPT !.stage = "refresh", !.ids = ids])
      BY <2>7 DEF ListRefreshable
    <3>2. PICK c : c = [w EXCEPT !.stage = "refresh", !.ids = ids]
      OBVIOUS
    <3>3. c.mode # "full"
      BY <1>1, <2>2, <3>2
    <3> QED BY <2>3, <2>4, <2>7, <3>1, <3>2, <3>3 DEF ListRefreshable
  <2>8. CASE RefreshListed
    <3>1. PICK p : EndHeader \/ Continue([w EXCEPT !.ids = @ \ {p}])
      BY <2>8 DEF RefreshListed
    <3>2. PICK c : c = [w EXCEPT !.ids = @ \ {p}]
      OBVIOUS
    <3>3. c.mode # "full"
      BY <1>1, <2>2, <3>2
    <3> QED BY <2>3, <2>4, <2>8, <3>1, <3>2, <3>3 DEF RefreshListed
  <2>9. CASE Sync
    <3>1. PICK S : \/ EndPass
                   \/ /\ Continue([w EXCEPT !.stage = "subscribe", !.pending = S])
                      /\ UNCHANGED needsFull
      BY <2>5, <2>9 DEF Sync
    <3>2. PICK c : c = [w EXCEPT !.stage = "subscribe", !.pending = S]
      OBVIOUS
    <3>3. c.mode # "full"
      BY <1>1, <2>2, <3>2
    <3>4. CASE EndPass
      BY <2>1, <2>2, <3>4, EndPassDue
    <3> QED BY <2>3, <3>1, <3>2, <3>3, <3>4
  <2>10. CASE Subscribe
    <3>1. PICK b : w' = [w EXCEPT !.stage = "history", !.address = b, !.pending = @ \ {b}]
                   /\ UNCHANGED <<connected, needsFull>>
      BY <2>5, <2>10 DEF Subscribe
    <3>2. PICK c : c = [w EXCEPT !.stage = "history", !.address = b, !.pending = @ \ {b}]
      OBVIOUS
    <3>3. c.mode # "full"
      BY <1>1, <2>2, <3>2
    <3>4. w' = c /\ ~(w.stage = "history" /\ w.address = a)
      BY <2>1, <3>1, <3>2
    <3> QED BY <2>1, <2>2, <3>1, <3>3, <3>4, StillDue
  <2>11. CASE Timeout
    <3>1. PICK c : c = At("sync", "timeout")
      OBVIOUS
    <3>2. c.mode # "full"
      BY <3>1 DEF At
    <3> QED BY <2>3, <2>11, <3>1, <3>2 DEF Timeout
  <2> QED BY <1>3, <2>6, <2>7, <2>8, <2>9, <2>10, <2>11
<1> QED BY <1>2, <1>3

LEMMA ReconcileStepDue ==
  ASSUME WatcherInv, NEW a, a \in subscribed', DueFor(w, a),
         ReadHistory \/ LoadPayments \/ Upsert \/ Delete \/ Evaluate,
         ~(w.stage = "history" /\ w.address = a /\ w'.stage = "load")
  PROVE  DueFor(w, a)'
<1> USE DEF LocalOK, Locals
<1>1. LocalOK(w)
  BY DEF WatcherInv, CoroutineOK
<1>2. UNCHANGED queue
  BY DEF ReadHistory, LoadPayments, Upsert, Delete, Evaluate
<1>3. ASSUME NEW c, Continue(c), c.mode = w.mode, c.pending = w.pending, UNCHANGED needsFull,
             ~(w.stage = "history" /\ w.address = a)
      PROVE  DueFor(w, a)'
  BY <1>2, <1>3, StillDue DEF Continue
<1>4. ASSUME Raise PROVE FALSE
  BY <1>4 DEF Raise
<1>5. ASSUME NEW ids, NEW n, Continue(NextPayment(ids, n)), w.stage # "history",
             UNCHANGED needsFull
      PROVE  DueFor(w, a)'
  <2>1. PICK c : c = NextPayment(ids, n)
    OBVIOUS
  <2>2. c.mode = w.mode /\ c.pending = w.pending
    BY <1>1, <2>1, NextPaymentPasses
  <2> QED BY <1>3, <1>5, <2>1, <2>2
<1>6. CASE ReadHistory
  <2>1. PICK h : Continue([w EXCEPT !.stage = "load", !.history = h])
    BY <1>4, <1>6 DEF ReadHistory
  <2>2. PICK c : c = [w EXCEPT !.stage = "load", !.history = h]
    OBVIOUS
  <2>3. c.mode = w.mode /\ c.pending = w.pending /\ c.stage = "load" /\ w' = c
    BY <1>1, <2>1, <2>2 DEF Continue
  <2> QED BY <1>3, <1>6, <2>1, <2>2, <2>3 DEF ReadHistory
<1>7. CASE LoadPayments
  <2>1. w.stage = "load"
    BY <1>7 DEF LoadPayments
  <2>2. \/ EndReconcile
        \/ \E ids : Continue(NextPayment(ids, clock)) /\ UNCHANGED needsFull
    BY <1>7 DEF LoadPayments
  <2> QED BY <1>2, <1>5, <2>1, <2>2, EndReconcileDue
<1>8. CASE Upsert
  <2>1. PICK o : Continue([w EXCEPT !.upserts = @ \ {o}, !.fetched = @ \cup {o.tx},
                                !.stage = IF w.upserts = {o} THEN "delete" ELSE "upsert"])
    BY <1>4, <1>8 DEF Upsert
  <2>2. PICK c : c = [w EXCEPT !.upserts = @ \ {o}, !.fetched = @ \cup {o.tx},
                                !.stage = IF w.upserts = {o} THEN "delete" ELSE "upsert"]
    OBVIOUS
  <2>3. c.mode = w.mode /\ c.pending = w.pending
    BY <1>1, <2>2
  <2> QED BY <1>3, <1>8, <2>1, <2>2, <2>3 DEF Upsert
<1>9. CASE Delete
  <2>1. PICK c : c = [w EXCEPT !.stage = "evaluate"]
    OBVIOUS
  <2>2. c.mode = w.mode /\ c.pending = w.pending
    BY <1>1, <2>1
  <2> QED BY <1>3, <1>9, <2>1, <2>2 DEF Delete
<1>10. CASE Evaluate
  <2>1. w.stage = "evaluate"
    BY <1>10 DEF Evaluate
  <2>2. \/ EndReconcile
        \/ Continue(NextPayment(w.ids, w.at)) /\ UNCHANGED needsFull
    BY <1>10 DEF Evaluate
  <2> QED BY <1>2, <1>5, <2>1, <2>2, EndReconcileDue
<1> QED BY <1>6, <1>7, <1>8, <1>9, <1>10

LEMMA WaysOutKeepSession ==
  ASSUME Raise \/ Loop \/ EndPass \/ EndReconcile
  PROVE  SessionKept'
<1>1. ASSUME Raise PROVE SessionKept'
  BY <1>1 DEF Raise, At, SessionKept
<1>2. ASSUME Loop PROVE SessionKept'
  BY <1>1, <1>2 DEF Loop, Continue, At, SessionKept
<1>3. ASSUME NEW a, NEW pending,
             Continue([At("history", "full") EXCEPT !.address = a, !.pending = pending])
      PROVE  SessionKept'
  BY <1>3 DEF Continue, At, SessionKept
<1>4. ASSUME EndPass PROVE SessionKept'
  BY <1>2, <1>3, <1>4 DEF EndPass
<1>5. ASSUME EndReconcile PROVE SessionKept'
  <2>1. CASE /\ w.mode \in {"init", "timeout"}
             /\ Continue([At("subscribe", w.mode) EXCEPT !.pending = w.pending])
    <3>1. w'.stage = "subscribe" /\ w'.mode = w.mode
      BY <2>1 DEF Continue, At
    <3> QED BY <2>1, <3>1 DEF SessionKept
  <2> QED BY <1>2, <1>3, <1>4, <1>5, <2>1 DEF EndReconcile
<1> QED BY <1>1, <1>2, <1>4, <1>5

LEMMA StepSessionKept ==
  ASSUME WatcherInv, SessionKept, [WatcherNext]_allVars
  PROVE  SessionKept'
<1> USE DEF LocalOK, Locals
<1>1. LocalOK(w)
  BY DEF WatcherInv, CoroutineOK
<1>2. ASSUME NEW c, w' = c, c.stage # "down", c.mode # "full" \/ c.stage \in {"history"} \cup Reconciling
      PROVE  SessionKept'
  BY <1>2 DEF SessionKept
<1>3. ASSUME EndHeader PROVE SessionKept'
  BY <1>3, WaysOutKeepSession DEF EndHeader, Continue, At, SessionKept
<1>4. CASE Connect
  BY <1>4 DEF Connect, At, SessionKept
<1>5. CASE ApplyTip \/ ListRefreshable \/ RefreshListed \/ Sync \/ Subscribe
  <2>1. w.mode # "full"
    BY <1>5 DEF ApplyTip, ListRefreshable, RefreshListed, Sync, Subscribe, SessionKept, Reconciling
  <2>2. \/ EndHeader \/ Raise \/ EndPass
        \/ Continue([At("list", w.mode) EXCEPT !.at = clock])
        \/ \E ids : Continue([w EXCEPT !.stage = "refresh", !.ids = ids])
        \/ w.stage = "refresh" /\ \E ids : Continue([w EXCEPT !.ids = ids])
        \/ \E S : Continue([w EXCEPT !.stage = "subscribe", !.pending = S])
        \/ \E a, S : w' = [w EXCEPT !.stage = "history", !.address = a, !.pending = S]
    BY <1>5 DEF ApplyTip, ListRefreshable, RefreshListed, Sync, Subscribe
  <2>3. CASE Continue([At("list", w.mode) EXCEPT !.at = clock])
    <3>1. w'.stage = "list" /\ w'.mode = w.mode
      BY <2>3 DEF Continue, At
    <3> QED BY <2>1, <3>1 DEF SessionKept
  <2>4. ASSUME NEW ids, Continue([w EXCEPT !.stage = "refresh", !.ids = ids]) PROVE SessionKept'
    <3>1. w'.stage = "refresh" /\ w'.mode = w.mode
      BY <1>1, <2>4 DEF Continue
    <3> QED BY <2>1, <3>1 DEF SessionKept
  <2>5. ASSUME NEW ids, w.stage = "refresh", Continue([w EXCEPT !.ids = ids]) PROVE SessionKept'
    <3>1. w'.stage = "refresh" /\ w'.mode = w.mode
      BY <1>1, <2>5 DEF Continue
    <3> QED BY <2>1, <3>1 DEF SessionKept
  <2>6. ASSUME NEW S, Continue([w EXCEPT !.stage = "subscribe", !.pending = S]) PROVE SessionKept'
    <3>1. w'.stage = "subscribe" /\ w'.mode = w.mode
      BY <1>1, <2>6 DEF Continue
    <3> QED BY <2>1, <3>1 DEF SessionKept
  <2>7. ASSUME NEW a, NEW S, w' = [w EXCEPT !.stage = "history", !.address = a, !.pending = S]
        PROVE  SessionKept'
    <3>1. w'.stage = "history"
      BY <1>1, <2>7
    <3> QED BY <3>1 DEF SessionKept
  <2> QED BY <1>3, <2>2, <2>3, <2>4, <2>5, <2>6, <2>7, WaysOutKeepSession
<1>6. CASE ReadHistory \/ LoadPayments \/ Upsert \/ Delete \/ Evaluate
  <2>1. ASSUME NEW stage \in Reconciling, w'.stage = stage PROVE SessionKept'
    BY <2>1 DEF SessionKept, Reconciling
  <2>2. ASSUME NEW ids, NEW n, Continue(NextPayment(ids, n)) PROVE SessionKept'
    <3>1. PICK c : c = NextPayment(ids, n)
      OBVIOUS
    <3>2. w' = c /\ c.stage \in {"upsert", "delete"}
      BY <1>1, <2>2, <3>1, NextPaymentPasses DEF Continue
    <3> QED BY <2>1, <3>2 DEF Reconciling
  <2>3. CASE ReadHistory
    <3>1. Raise \/ \E h : Continue([w EXCEPT !.stage = "load", !.history = h])
      BY <2>3 DEF ReadHistory
    <3>2. Raise \/ w'.stage = "load"
      BY <1>1, <3>1 DEF Continue
    <3> QED BY <2>1, <3>2, WaysOutKeepSession DEF Reconciling
  <2>4. CASE Upsert
    <3>1. Raise \/ \E U, f, o : Continue([w EXCEPT !.upserts = U, !.fetched = f,
                                   !.stage = IF w.upserts = {o} THEN "delete" ELSE "upsert"])
      BY <2>4 DEF Upsert
    <3>2. Raise \/ w'.stage \in {"delete", "upsert"}
      BY <1>1, <3>1 DEF Continue
    <3> QED BY <2>1, <3>2, WaysOutKeepSession DEF Reconciling
  <2>5. CASE Delete
    <3>1. w'.stage = "evaluate"
      BY <1>1, <2>5 DEF Delete, Continue
    <3> QED BY <2>1, <3>1 DEF Reconciling
  <2>6. CASE LoadPayments \/ Evaluate
    <3>1. EndReconcile \/ \E ids, n : Continue(NextPayment(ids, n))
      BY <2>6 DEF LoadPayments, Evaluate
    <3> QED BY <2>2, <3>1, WaysOutKeepSession
  <2> QED BY <1>6, <2>3, <2>4, <2>5, <2>6
<1>7. CASE TakeNotification
  <2>1. PICK n : \/ Continue([At("apply", "notify") EXCEPT !.height = n])
                 \/ Continue([At("history", "notify") EXCEPT !.address = n])
                 \/ Loop
    BY <1>7 DEF TakeNotification
  <2> QED BY <2>1, WaysOutKeepSession DEF Continue, At, SessionKept
<1>8. CASE Timeout
  BY <1>8 DEF Timeout, Continue, At, SessionKept
<1>9. CASE CycleFails \/ ServiceRestart
  <2>1. Raise
    BY <1>9 DEF CycleFails, ServiceRestart, Raise
  <2> QED BY <2>1, WaysOutKeepSession
<1>10. CASE ApiStep \/ ServerStep \/ Disconnect \/ UNCHANGED allVars
  <2>1. UNCHANGED <<w, subscribed>>
    BY <1>10 DEF ApiStep, ServerStep, Disconnect, watcherVars, allVars, codeVars
  <2> QED BY <2>1 DEF SessionKept
<1> QED BY <1>4, <1>5, <1>6, <1>7, <1>8, <1>9, <1>10
        DEF WatcherNext, PlatformMoves, WatcherStep

-----------------------------------------------------------------------------
(* What the server sends is queued or leaves the flag.                     *)

LEMMA AllListed ==
  ASSUME NEW S, IsFiniteSet(S), NEW s \in SetToSeqs(S), NEW x \in S
  PROVE  \E i \in 1..Cardinality(S) : s[i] = x
<1> DEFINE D == 1..Cardinality(S)
<1>1. Cardinality(S) \in Nat
  BY FS_CardinalityType
<1>2. IsFiniteSet(D) /\ Cardinality(D) = Cardinality(S)
  BY <1>1, FS_Interval
<1>3. s \in [D -> S] /\ \A i, j \in D : i # j => s[i] # s[j]
  BY DEF SetToSeqs
<1> HIDE DEF D
<1>4. s \in Injection(D, S)
  BY <1>3 DEF Injection, IsInjective
<1>5. s \in Surjection(D, S)
  BY <1>2, <1>4, FS_Injection
<1> QED BY <1>5 DEF Surjection, D

LEMMA ReceiveTells ==
  ASSUME queue \in Seq(Notifications), Len(queue) <= QueueLimit, needsFull \in BOOLEAN,
         NEW arriving \in Seq(Notifications), Receive(arriving)
  PROVE  /\ \A x \in ToSet(queue) : x \in ToSet(queue')
         /\ needsFull => needsFull'
         /\ \A i \in 1..Len(arriving) : arriving[i] \in ToSet(queue') \/ needsFull'
<1> DEFINE room == QueueLimit - Len(queue)
           n == IF Len(arriving) < room THEN Len(arriving) ELSE room
           taken == SubSeq(arriving, 1, n)
<1>1. /\ QueueLimit \in Nat /\ Len(queue) \in Nat /\ Len(arriving) \in Nat
      /\ n \in Nat /\ n <= Len(arriving) /\ room \in Int
      /\ ~(Len(arriving) > room) => n = Len(arriving)
  BY WatcherAssumption, LenProperties
<1>2. queue' = queue \o taken /\ needsFull' = (needsFull \/ Len(arriving) > room)
  BY DEF Receive
<1> HIDE DEF n, room
<1>3. /\ taken \in Seq(Notifications) /\ Len(taken) = n
      /\ \A i \in 1..n : taken[i] = arriving[i]
  <2>1. \A i \in 1..n : arriving[i] \in Notifications
    BY <1>1, ElementOfSeq
  <2> QED BY <1>1, <2>1, SubSeqProperties
<1> HIDE DEF taken
<1>4. /\ queue' \in Seq(Notifications) /\ Len(queue') = Len(queue) + n
      /\ \A i \in 1..Len(queue) + n : queue'[i] = IF i <= Len(queue) THEN queue[i]
                                                  ELSE taken[i - Len(queue)]
  BY <1>2, <1>3, ConcatProperties
<1>5. DOMAIN queue' = 1..Len(queue) + n /\ DOMAIN queue = 1..Len(queue)
  BY <1>4
<1>6. ASSUME NEW x \in ToSet(queue) PROVE x \in ToSet(queue')
  <2>1. PICK i \in 1..Len(queue) : x = queue[i]
    BY <1>5 DEF ToSet
  <2>2. i \in 1..Len(queue) + n /\ queue'[i] = x
    BY <1>1, <1>4, <2>1
  <2> QED BY <1>5, <2>2 DEF ToSet
<1>7. ASSUME NEW i \in 1..Len(arriving), ~needsFull' PROVE arriving[i] \in ToSet(queue')
  <2>1. n = Len(arriving)
    BY <1>1, <1>2, <1>7
  <2>2. PICK j : j = Len(queue) + i
    OBVIOUS
  <2>3. i \in Nat /\ i >= 1 /\ i <= n
    BY <1>1, <2>1
  <2>4. j \in 1..Len(queue) + n /\ ~(j <= Len(queue)) /\ j - Len(queue) = i
    BY <1>1, <2>2, <2>3
  <2>5. queue'[j] = taken[i] /\ taken[i] = arriving[i]
    BY <1>1, <1>3, <1>4, <2>3, <2>4
  <2> QED BY <1>5, <2>4, <2>5 DEF ToSet
<1> QED BY <1>2, <1>6, <1>7

LEMMA ServerTells ==
  ASSUME WatcherInv, TypeInv', ServerStep
  PROVE  /\ \A x \in ToSet(queue) : x \in ToSet(queue')
         /\ needsFull => needsFull'
         /\ connected => \A a \in Touched : <<"script", a>> \in ToSet(queue') \/ needsFull'
<1> USE DEF WatcherInv
<1>1. CASE ~connected
  BY <1>1 DEF ServerStep, Notify
<1>2. CASE connected
  <2> DEFINE S == { <<"script", a>> : a \in Touched }
             f == [a \in Touched |-> <<"script", a>>]
             header == IF tip' # tip THEN << <<"header", tip'>> >> ELSE <<>>
  <2>1. PICK scripts \in SetToSeqs(S) : Receive(header \o scripts)
    BY <1>2 DEF ServerStep, Notify
  <2>2. IsFiniteSet(subscribed) /\ subscribed \subseteq RequestAddresses
    BY FS_Subset DEF CoroutineOK, SessionOK
  <2>3. Touched \subseteq subscribed
    BY DEF Touched
  <2>4. IsFiniteSet(S)
    <3>1. f \in Surjection(Touched, S)
      BY DEF Surjection
    <3>2. IsFiniteSet(Touched)
      BY <2>2, <2>3, FS_Subset
    <3> QED BY <3>1, <3>2, FS_Surjection
  <2>5. S \subseteq Notifications
    BY <2>2, <2>3 DEF Notifications
  <2>6. \A a \in Touched : <<"script", a>> \in S
    OBVIOUS
  <2> HIDE DEF S, f
  <2>7. scripts \in Seq(Notifications) /\ Len(scripts) = Cardinality(S)
    <3>1. scripts \in [1..Cardinality(S) -> S]
      BY <2>1 DEF SetToSeqs
    <3>2. Cardinality(S) \in Nat
      BY <2>4, FS_CardinalityType
    <3> QED BY <2>5, <3>1, <3>2
  <2>8. header \in Seq(Notifications)
    <3>1. tip' \in Nat
      BY ChainAssumption DEF TypeInv, ChainTypeOK
    <3>2. <<"header", tip'>> \in Notifications
      BY <3>1 DEF Notifications
    <3> QED BY <3>2
  <2> HIDE DEF header
  <2>9. PICK arriving : arriving = header \o scripts
    OBVIOUS
  <2>10. /\ arriving \in Seq(Notifications)
         /\ Len(arriving) = Len(header) + Len(scripts)
         /\ \A i \in 1..Len(header) + Len(scripts) :
              arriving[i] = IF i <= Len(header) THEN header[i] ELSE scripts[i - Len(header)]
    BY <2>7, <2>8, <2>9, ConcatProperties
  <2>11. /\ \A x \in ToSet(queue) : x \in ToSet(queue')
         /\ needsFull => needsFull'
         /\ \A i \in 1..Len(arriving) : arriving[i] \in ToSet(queue') \/ needsFull'
    BY <2>1, <2>9, <2>10, ReceiveTells
  <2>12. ASSUME NEW a \in Touched PROVE <<"script", a>> \in ToSet(queue') \/ needsFull'
    <3>1. PICK i \in 1..Cardinality(S) : scripts[i] = <<"script", a>>
      BY <2>1, <2>4, <2>6, AllListed
    <3>2. PICK j : j = Len(header) + i
      OBVIOUS
    <3>3. Len(header) \in Nat /\ Len(scripts) \in Nat
      BY <2>7, <2>8
    <3>4. j \in 1..Len(arriving) /\ arriving[j] = scripts[i]
      BY <2>7, <2>10, <3>1, <3>2, <3>3
    <3> QED BY <2>11, <3>1, <3>4
  <2> QED BY <2>11, <2>12
<1> QED BY <1>1, <1>2

LEMMA StepDue ==
  ASSUME WatcherInv, SessionKept, [WatcherNext]_allVars, NEW a \in subscribed,
         a \in subscribed', DueFor(w, a),
         ~(w.stage = "history" /\ w.address = a /\ w'.stage = "load")
  PROVE  DueFor(w, a)'
<1>1. CASE WatcherStep
  BY <1>1, TakeNotificationDue, SessionStepDue, ReconcileStepDue DEF WatcherStep
<1>2. CASE ServerStep
  <2>1. TypeInv'
    BY StepWatcherInv DEF WatcherInv, IInv
  <2>2. UNCHANGED <<connected, w>>
    BY <1>2 DEF ServerStep
  <2>3. /\ <<"script", a>> \in ToSet(queue) => <<"script", a>> \in ToSet(queue')
        /\ needsFull => needsFull'
    BY <1>2, <2>1, ServerTells
  <2> QED BY <2>2, <2>3 DEF DueFor
<1>3. CASE Disconnect
  BY <1>3 DEF Disconnect, DueFor
<1>4. CASE CycleFails \/ ServiceRestart
  BY <1>4 DEF CycleFails, ServiceRestart, Raise
<1>5. CASE ApiStep \/ UNCHANGED allVars
  <2>1. UNCHANGED <<connected, needsFull, queue, w>>
    BY <1>5 DEF ApiStep, watcherVars, allVars, codeVars
  <2> QED BY <2>1 DEF DueFor
<1> QED BY <1>1, <1>2, <1>3, <1>4, <1>5 DEF WatcherNext, PlatformMoves

-----------------------------------------------------------------------------
(* What is not due.                                                        *)

LEMMA ReadNowIsReadHistory ==
  ASSUME [WatcherNext]_allVars, w.stage = "history", w'.stage = "load"
  PROVE  ReadHistory
<1>1. CASE WatcherStep
  BY <1>1 DEF WatcherStep, Connect, ApplyTip, ListRefreshable, RefreshListed, Sync, Subscribe,
              LoadPayments, Upsert, Delete, Evaluate, TakeNotification, Timeout
<1>2. CASE CycleFails \/ ServiceRestart
  BY <1>2 DEF CycleFails, ServiceRestart, Raise, At
<1>3. CASE ApiStep \/ ServerStep \/ Disconnect \/ UNCHANGED allVars
  BY <1>3 DEF ApiStep, ServerStep, Disconnect, watcherVars, allVars, codeVars
<1> QED BY <1>1, <1>2, <1>3 DEF WatcherNext, PlatformMoves

(* An address that is not missed afterwards was not missed before, unless  *)
(* it is read now, and got no payment.                                     *)
LEMMA NotMissed ==
  ASSUME IInv, PlatformStep, [WatcherNext]_allVars, NEW a \in subscribed', a \notin missed'
  PROVE  /\ \A p \in PaymentsAt(a)' : p \in PaymentsAt(a)
         /\ ~(w.stage = "history" /\ w.address = a /\ w'.stage = "load") =>
              a \notin missed /\ (WatcherNext => a \notin Dropped)
<1>1. a \notin ReadNow => /\ a \notin missed
                          /\ WatcherNext => a \notin Dropped
                          /\ a \notin OpenedLate
  <2>1. CASE UNCHANGED allVars
    BY <2>1 DEF allVars, codeVars, vars, storeVars, OpenedLate, WatcherNext, RecordMissed
  <2>2. CASE WatcherNext
    BY <2>2 DEF WatcherNext, RecordMissed
  <2> QED BY <2>1, <2>2
<1>2. a \in ReadNow => UNCHANGED payments
  BY ReadNowIsReadHistory DEF ReadNow, ReadHistory, storeVars
<1>3. a \notin OpenedLate
  BY <1>1, <1>2 DEF OpenedLate
<1>4. ASSUME NEW p \in PaymentsAt(a)' PROVE p \in PaymentsAt(a)
  <2>1. p \in DOMAIN payments' /\ payments'[p].address = a
    BY DEF PaymentsAt
  <2>2. p \in DOMAIN payments
    BY <1>3, <2>1 DEF OpenedLate
  <2> QED BY <2>1, <2>2, PaymentsKeepTheirOrigin DEF PaymentsAt
<1> QED BY <1>1, <1>4 DEF ReadNow

LEMMA StaysAtRest ==
  ASSUME IInv, PlatformStep, NEW a, Still(a), \A p \in PaymentsAt(a)' : p \in PaymentsAt(a),
         \A p \in PaymentsAt(a) : Reconciled(p) /\ transactions'[p] = transactions[p],
         ~(w'.stage \in Reconciling /\ w'.address = a)
  PROVE  AddressOK(w, a)'
<1>1. ASSUME NEW p \in PaymentsAt(a) PROVE Reconciled(p)'
  <2>1. p \in DOMAIN payments /\ payments[p].address = a
    BY DEF PaymentsAt
  <2> QED BY <2>1, ReconciledStays
<1> QED BY <1>1 DEF AddressOK, AtRest

LEMMA GoesOn ==
  ASSUME NEW a, Still(a), \A p \in PaymentsAt(a)' : p \in PaymentsAt(a),
         NEW c, w' = c, c.stage \in Reconciling, c.address = a, c.history = HistoryNow(a),
         \A p \in PaymentsAt(a) : Underway(c, p)'
  PROVE  AddressOK(w, a)'
<1>1. HistoryNow(a)' = HistoryNow(a)
  BY StillOwed
<1>2. BeingReconciled(w, a)'
  BY <1>1 DEF BeingReconciled, Underway
<1> QED BY <1>2 DEF AddressOK

(* A payment stays where it is in a reconciliation as long as its rows do. *)
LEMMA StaysUnderway ==
  ASSUME IInv, PlatformStep, NEW a, Still(a), NEW p \in PaymentsAt(a),
         transactions'[p] = transactions[p], NEW c, Underway(c, p)
  PROVE  Underway(c, p)'
<1>1. p \in DOMAIN payments /\ payments[p].address = a
  BY DEF PaymentsAt
<1>2. OwedRows(p)' = OwedRows(p) /\ (Reconciled(p) => Reconciled(p)')
  BY <1>1, OwedStays, ReconciledStays
<1> QED BY <1>2 DEF Underway

LEMMA ChainStays ==
  ASSUME [WatcherNext]_allVars, ~ServerStep
  PROVE  UNCHANGED position /\ \A a : Still(a)
<1>1. CASE WatcherStep
  BY <1>1 DEF WatcherStep, Connect, ApplyTip, ListRefreshable, RefreshListed, Sync, Subscribe,
              ReadHistory, LoadPayments, Upsert, Delete, Evaluate, TakeNotification, Timeout,
              chainVars, Still
<1>2. CASE \E r \in PaymentIds : CreateStep(r)
  BY <1>2 DEF CreateStep, CheckReplay, CheckReference, CheckAddress, SnapshotTip,
              SnapshotHistory, SnapshotFails, SaveTip, Insert, chainVars, Still
<1>3. CASE (\E g \in Readers : GetStep(g)) \/ Tick
  BY <1>3 DEF GetStep, BeginGet, FinishGet, Tick, chainVars, Still
<1>4. CASE Disconnect \/ CycleFails \/ ServiceRestart \/ UNCHANGED allVars
  BY <1>4 DEF Disconnect, CycleFails, ServiceRestart, allVars, codeVars, vars, chainVars, Still
<1> QED BY <1>1, <1>2, <1>3, <1>4 DEF WatcherNext, PlatformMoves, ApiStep

LEMMA ReadGoesOn ==
  ASSUME WatcherInv, [WatcherNext]_allVars, NEW a, \A p \in PaymentsAt(a)' : p \in PaymentsAt(a),
         w.stage = "history", w.address = a, w'.stage = "load"
  PROVE  AddressOK(w, a)'
<1>1. LocalOK(w) /\ ReadHistory
  BY ReadNowIsReadHistory DEF WatcherInv, CoroutineOK
<1>2. Still(a)
  <2>1. UNCHANGED chainVars
    BY <1>1 DEF ReadHistory
  <2> QED BY <2>1 DEF chainVars, Still
<1>3. PICK h : h = HistoryNow(a)
  OBVIOUS
<1>4. w' = [w EXCEPT !.stage = "load", !.history = h]
  <2>1. \/ Raise
        \/ Continue([w EXCEPT !.stage = "load", !.history = h])
    BY <1>1, <1>3 DEF ReadHistory, HistoryNow
  <2> QED BY <2>1 DEF Raise, At, Continue
<1>5. PICK c : c = [w EXCEPT !.stage = "load", !.history = h]
  OBVIOUS
<1>6. c.stage = "load" /\ c.address = a /\ c.history = h
  BY <1>1, <1>5 DEF LocalOK, Locals
<1>7. \A p \in PaymentsAt(a) : Underway(c, p)'
  BY <1>6 DEF Underway
<1> QED BY <1>2, <1>3, <1>4, <1>5, <1>6, <1>7, GoesOn DEF Reconciling

LEMMA LoadGoesOn ==
  ASSUME PaidInv, PlatformStep, NEW a, Still(a), \A p \in PaymentsAt(a)' : p \in PaymentsAt(a),
         BeingReconciled(w, a), LoadPayments
  PROVE  AddressOK(w, a)'
<1>1. /\ IInv /\ TypeInv /\ LocalOK(w) /\ clock \in Nat
      /\ w.address = a /\ w.history = HistoryNow(a) /\ UNCHANGED transactions
  BY DEF PaidInv, RowsInv, WatcherInv, CoroutineOK, IInv, TypeInv, TypeOK, BeingReconciled,
         LoadPayments, storeVars
<1>2. CASE PaymentsAt(w.address) = {} /\ EndReconcile
  <2>1. ~(w'.stage \in Reconciling)
    BY <1>2, WaysOutUnburdened DEF Unburdened, Reconciling
  <2> QED BY <1>1, <1>2, <2>1, StaysAtRest
<1>3. CASE PaymentsAt(w.address) # {} /\ Continue(NextPayment(PaymentsAt(w.address), clock))
  <2>1. PICK ids : ids = PaymentsAt(a)
    OBVIOUS
  <2>2. PICK n \in Nat : n = clock
    BY <1>1
  <2>3. PICK c : c = NextPayment(ids, n)
    OBVIOUS
  <2>4. w' = c /\ ids # {}
    BY <1>1, <1>3, <2>1, <2>2, <2>3 DEF Continue
  <2>5. AtFirst(c, ids)
    <3>1. ids \subseteq PaymentsAt(w.address)
      BY <1>1, <2>1
    <3>2. ids # {}
      BY <2>4
    <3>3. TypeInv /\ LocalOK(w) /\ w.history = HistoryNow(w.address)
      BY <1>1
    <3> QED BY <2>3, <3>1, <3>2, <3>3, NextPaymentProgresses
  <2>6. \A p \in PaymentsAt(a) : Underway(c, p)
    BY <2>1, <2>5 DEF Underway, AtFirst
  <2>7. \A p \in PaymentsAt(a) : Underway(c, p)'
    BY <1>1, <2>6, StaysUnderway
  <2> QED BY <1>1, <2>4, <2>5, <2>7, GoesOn DEF Reconciling, AtFirst
<1> QED BY <1>2, <1>3 DEF LoadPayments

LEMMA UpsertGoesOn ==
  ASSUME PaidInv, PlatformStep, NEW a, Still(a), \A p \in PaymentsAt(a)' : p \in PaymentsAt(a),
         BeingReconciled(w, a), a \in subscribed', Upsert
  PROVE  AddressOK(w, a)'
<1>1. /\ IInv /\ LocalOK(w) /\ w.stage = "upsert" /\ DOMAIN transactions = PaymentIds
      /\ w.address = a /\ w.history = HistoryNow(a)
  BY DEF PaidInv, RowsInv, RowsTraced, WatcherInv, CoroutineOK, BeingReconciled, Upsert
<1>2. PICK o \in w.upserts :
        /\ UpsertTransaction(w.payment, o)
        /\ Continue([w EXCEPT !.upserts = @ \ {o}, !.fetched = @ \cup {o.tx},
                              !.stage = IF w.upserts = {o} THEN "delete" ELSE "upsert"])
  BY DEF Upsert, Raise
<1>3. PICK c : c = [w EXCEPT !.upserts = @ \ {o}, !.fetched = @ \cup {o.tx},
                             !.stage = IF w.upserts = {o} THEN "delete" ELSE "upsert"]
  OBVIOUS
<1>4. /\ c.stage = IF w.upserts = {o} THEN "delete" ELSE "upsert"
      /\ c.upserts = w.upserts \ {o} /\ c.ids = w.ids /\ c.payment = w.payment
      /\ c.address = w.address /\ c.history = w.history
  BY <1>1, <1>3 DEF LocalOK, Locals
<1>5. w' = c
  BY <1>2, <1>3 DEF Continue
<1>6. transactions' = [transactions EXCEPT ![w.payment] = UpsertRow(@, o)]
  BY <1>2 DEF UpsertTransaction
<1>7. ASSUME NEW p \in PaymentsAt(a) PROVE Underway(c, p)'
  <2>1. p \in DOMAIN payments /\ payments[p].address = a /\ p \in PaymentIds
    BY <1>1 DEF PaymentsAt, IInv, TypeInv, TypeOK
  <2>2. OwedRows(p)' = OwedRows(p)
    BY <1>1, <2>1, OwedStays
  <2>3. CASE p \in w.ids
    BY <1>4, <2>3 DEF Underway
  <2>4. CASE p = w.payment /\ ProgressOf("upsert", w.upserts, transactions[p], OwedRows(p))
    <3>1. IsObservation(o) /\ RowsOK(transactions[p])
      BY <1>1, <2>1 DEF PaidInv, InHand
    <3>2. transactions'[p] = UpsertRow(transactions[p], o)
      BY <1>1, <1>6, <2>1, <2>4
    <3>3. PICK address, known, owed : /\ address = payments[p].address /\ known = baseline[p]
                                      /\ owed = Owing(address, known)
      OBVIOUS
    <3>4. owed = OwedRows(p)
      BY <3>3 DEF OwedRows
    <3>5. PICK rows, upserts : rows = transactions[p] /\ upserts = w.upserts
      OBVIOUS
    <3>6. ProgressOf(IF upserts = {o} THEN "delete" ELSE "upsert", upserts \ {o},
                     UpsertRow(rows, o), owed)
      <4>1. RowsOK(rows) /\ IsObservation(o) /\ o \in upserts
        BY <3>1, <3>5
      <4>2. ProgressOf("upsert", upserts, rows, owed) /\ owed = Owing(address, known)
        BY <2>4, <3>3, <3>4, <3>5
      <4> QED BY <4>1, <4>2, UpsertProgresses, ZenonT(60)
    <3>7. ProgressOf(c.stage, c.upserts, transactions'[p], OwedRows(p))
      BY <1>4, <3>2, <3>4, <3>5, <3>6
    <3> QED BY <1>4, <2>2, <2>4, <3>7 DEF Underway
  <2>5. CASE p # w.payment /\ Reconciled(p)
    <3>1. transactions'[p] = transactions[p]
      BY <1>1, <1>6, <2>1, <2>5
    <3>2. Reconciled(p)'
      BY <1>1, <2>1, <2>5, <3>1, ReconciledStays
    <3> QED BY <1>4, <2>5, <3>2 DEF Underway
  <2> QED BY <1>1, <2>3, <2>4, <2>5 DEF BeingReconciled, Underway
<1>8. c.stage \in Reconciling
  BY <1>4 DEF Reconciling
<1> QED BY <1>1, <1>4, <1>5, <1>7, <1>8, GoesOn

LEMMA DeleteGoesOn ==
  ASSUME PaidInv, PlatformStep, NEW a, Still(a), \A p \in PaymentsAt(a)' : p \in PaymentsAt(a),
         BeingReconciled(w, a), Delete
  PROVE  AddressOK(w, a)'
<1>1. /\ IInv /\ LocalOK(w) /\ w.stage = "delete" /\ DOMAIN transactions = PaymentIds
      /\ w.address = a /\ w.history = HistoryNow(a) /\ RowsTraced
  BY DEF PaidInv, RowsInv, RowsTraced, WatcherInv, CoroutineOK, BeingReconciled, Delete
<1>2. PICK c : c = [w EXCEPT !.stage = "evaluate"]
  OBVIOUS
<1>3. /\ c.stage = "evaluate" /\ c.ids = w.ids /\ c.payment = w.payment
      /\ c.address = w.address /\ c.history = w.history
  BY <1>1, <1>2 DEF LocalOK, Locals
<1>4. w' = c
  BY <1>2 DEF Delete, Continue
<1>5. PICK txids : txids = { h.tx : h \in w.history }
  OBVIOUS
<1>6. txids = HistoryOf(a)
  <2>1. ASSUME NEW t \in HistoryOf(a) PROVE t \in txids
    <3>1. PICK h : h = [tx |-> t, height |-> position[t]]
      OBVIOUS
    <3>2. h \in w.history /\ h.tx = t
      BY <1>1, <3>1 DEF HistoryNow
    <3> QED BY <1>5, <3>2
  <2>2. ASSUME NEW h \in w.history PROVE h.tx \in HistoryOf(a)
    BY <1>1 DEF HistoryNow
  <2> QED BY <1>5, <2>1, <2>2
<1>7. transactions' = [transactions EXCEPT ![w.payment] = RowsWithin(@, txids)]
  BY <1>5 DEF Delete, DeleteTransactionsNotIn
<1>8. ASSUME NEW p \in PaymentsAt(a) PROVE Underway(c, p)'
  <2>1. p \in DOMAIN payments /\ payments[p].address = a /\ p \in PaymentIds
    BY <1>1 DEF PaymentsAt, IInv, TypeInv, TypeOK
  <2>2. OwedRows(p)' = OwedRows(p)
    BY <1>1, <2>1, OwedStays
  <2>3. CASE p \in w.ids
    BY <1>3, <2>3 DEF Underway
  <2>4. CASE p = w.payment /\ ProgressOf("delete", w.upserts, transactions[p], OwedRows(p))
    <3>1. RowsOK(transactions[p]) /\ \A r \in transactions[p] : Traced(p, r)
      BY <1>1, <2>1 DEF PaidInv, RowsTraced
    <3>2. transactions'[p] = RowsWithin(transactions[p], txids)
      BY <1>1, <1>7, <2>1, <2>4
    <3>3. Amounted(transactions'[p]) = OwedRows(p)
      BY <1>6, <2>1, <2>4, <3>1, <3>2, DeleteProgresses
    <3>4. ProgressOf(c.stage, c.upserts, transactions'[p], OwedRows(p))
      BY <1>3, <3>3 DEF ProgressOf
    <3> QED BY <1>3, <2>2, <2>4, <3>4 DEF Underway
  <2>5. CASE p # w.payment /\ Reconciled(p)
    <3>1. transactions'[p] = transactions[p]
      BY <1>1, <1>7, <2>1, <2>5
    <3>2. Reconciled(p)'
      BY <1>1, <2>1, <2>5, <3>1, ReconciledStays
    <3> QED BY <1>3, <2>5, <3>2 DEF Underway
  <2> QED BY <1>1, <2>3, <2>4, <2>5 DEF BeingReconciled, Underway
<1> QED BY <1>1, <1>3, <1>4, <1>8, GoesOn DEF Reconciling

(* The evaluation, the last step of a payment's reconciliation.            *)
LEMMA EvaluatedIsReconciled ==
  ASSUME IInv, PlatformStep, NEW p \in DOMAIN payments, NEW now, RefreshPayment(p, now),
         Amounted(transactions[p]) = OwedRows(p), Still(payments[p].address)
  PROVE  Reconciled(p)'
<1>1. UNCHANGED transactions /\ Shows(payments'[p], transactions[p])
  BY RefreshShows DEF IInv, TypeInv
<1>2. OwedRows(p)' = OwedRows(p)
  BY OwedStays
<1>3. Amounted(transactions'[p]) = OwedRows(p)' /\ Shows(payments'[p], transactions'[p])
  BY <1>1, <1>2
<1> QED BY <1>3, ReconciledNext DEF Amounted, Amount, Shows, Paying

LEMMA EvaluateGoesOn ==
  ASSUME PaidInv, PlatformStep, NEW a, Still(a), \A p \in PaymentsAt(a)' : p \in PaymentsAt(a),
         BeingReconciled(w, a), Evaluate
  PROVE  AddressOK(w, a)'
<1>1. /\ IInv /\ TypeInv /\ LocalOK(w) /\ w.at \in Nat /\ w.stage = "evaluate"
      /\ w.address = a /\ w.history = HistoryNow(a) /\ RefreshPayment(w.payment, w.at)
      /\ UNCHANGED transactions
  BY DEF PaidInv, RowsInv, WatcherInv, CoroutineOK, LocalOK, IInv, BeingReconciled, Evaluate,
         RefreshPayment
<1>2. w.ids \subseteq PaymentsAt(a)
  BY <1>1 DEF PaidInv, InHand
<1>3. ASSUME NEW p \in PaymentsAt(a), p \notin w.ids PROVE Reconciled(p)'
  <2>1. p \in DOMAIN payments /\ payments[p].address = a
    BY DEF PaymentsAt
  <2>2. CASE p = w.payment /\ ProgressOf("evaluate", w.upserts, transactions[p], OwedRows(p))
    <3>1. Amounted(transactions[p]) = OwedRows(p)
      BY <2>2 DEF ProgressOf
    <3>2. PICK now : now = w.at
      OBVIOUS
    <3>3. RefreshPayment(p, now)
      BY <1>1, <2>2, <3>2
    <3> QED BY <1>1, <2>1, <3>1, <3>3, EvaluatedIsReconciled
  <2>3. CASE Reconciled(p)
    BY <1>1, <2>1, <2>3, ReconciledStays
  <2> QED BY <1>1, <1>3, <2>2, <2>3 DEF BeingReconciled, Underway
<1>4. CASE w.ids = {} /\ EndReconcile
  <2>1. ~(w'.stage \in Reconciling)
    BY <1>4, WaysOutUnburdened DEF Unburdened, Reconciling
  <2> QED BY <1>3, <1>4, <2>1 DEF AddressOK, AtRest
<1>5. CASE w.ids # {} /\ Continue(NextPayment(w.ids, w.at))
  <2>1. PICK ids : ids = w.ids
    OBVIOUS
  <2>2. PICK n \in Nat : n = w.at
    BY <1>1
  <2>3. PICK c : c = NextPayment(ids, n)
    OBVIOUS
  <2>4. w' = c /\ ids # {}
    BY <1>5, <2>1, <2>2, <2>3 DEF Continue
  <2>5. AtFirst(c, ids)
    <3>1. ids \subseteq PaymentsAt(w.address)
      BY <1>1, <1>2, <2>1
    <3>2. ids # {}
      BY <2>4
    <3>3. TypeInv /\ LocalOK(w) /\ w.history = HistoryNow(w.address)
      BY <1>1
    <3> QED BY <2>3, <3>1, <3>2, <3>3, NextPaymentProgresses
  <2>6. ASSUME NEW p \in PaymentsAt(a) PROVE Underway(c, p)'
    <3>1. CASE p \in ids
      <4>1. Underway(c, p)
        BY <2>5, <3>1 DEF Underway, AtFirst
      <4> QED BY <1>1, <4>1, StaysUnderway
    <3>2. CASE p \notin ids
      <4>1. Reconciled(p)' /\ p # c.payment
        BY <1>3, <2>1, <2>5, <3>2 DEF AtFirst
      <4> QED BY <4>1 DEF Underway
    <3> QED BY <3>1, <3>2
  <2> QED BY <1>1, <2>4, <2>5, <2>6, GoesOn DEF Reconciling, AtFirst
<1> QED BY <1>4, <1>5 DEF Evaluate

(* The addresses that are not being reconciled.                            *)
LEMMA ReconcileStepStays ==
  ASSUME PaidInv, LoadPayments \/ Upsert \/ Delete \/ Evaluate
  PROVE  Unburdened(w') \/ w'.address = w.address
<1>1. LocalOK(w) /\ TypeInv
  BY DEF PaidInv, RowsInv, WatcherInv, CoroutineOK, IInv
<1>2. ASSUME NEW ids, NEW n, Continue(NextPayment(ids, n)) PROVE w'.address = w.address
  <2>1. PICK stage, p, o : NextPayment(ids, n) =
          [w EXCEPT !.stage = stage, !.at = n, !.payment = p, !.ids = ids \ {p}, !.upserts = o]
    BY DEF NextPayment
  <2>2. w' = [w EXCEPT !.stage = stage, !.at = n, !.payment = p, !.ids = ids \ {p}, !.upserts = o]
    BY <1>2, <2>1 DEF Continue
  <2> QED BY <1>1, <2>2 DEF LocalOK, Locals
<1>3. CASE LoadPayments
  BY <1>2, <1>3, WaysOutUnburdened DEF LoadPayments
<1>4. CASE Upsert
  <2>1. PICK o, stage, fetched :
          Raise \/ Continue([w EXCEPT !.upserts = @ \ {o}, !.fetched = fetched, !.stage = stage])
    BY <1>4 DEF Upsert
  <2>2. CASE Raise
    BY <2>2, WaysOutUnburdened
  <2>3. CASE Continue([w EXCEPT !.upserts = @ \ {o}, !.fetched = fetched, !.stage = stage])
    BY <1>1, <2>3 DEF Continue, LocalOK, Locals
  <2> QED BY <2>1, <2>2, <2>3
<1>5. CASE Delete
  BY <1>1, <1>5 DEF Delete, Continue, LocalOK, Locals
<1>6. CASE Evaluate
  BY <1>2, <1>6, WaysOutUnburdened DEF Evaluate
<1> QED BY <1>3, <1>4, <1>5, <1>6

LEMMA OthersRest ==
  ASSUME PaidInv, PlatformStep, [WatcherNext]_allVars, NEW a, Still(a),
         \A p \in PaymentsAt(a)' : p \in PaymentsAt(a), AtRest(w, a), w.address # a,
         LoadPayments \/ Upsert \/ Delete \/ Evaluate
  PROVE  AddressOK(w, a)'
<1>1. IInv /\ WatcherInv /\ DOMAIN transactions = PaymentIds
  BY DEF PaidInv, RowsInv, RowsTraced, WatcherInv
<1>2. \A p \in PaymentsAt(a) : p \in PaymentIds
  BY <1>1 DEF PaymentsAt, IInv, TypeInv, TypeOK
<1>3. w.stage \in {"upsert", "delete"} => w.payment \notin PaymentsAt(a)
  BY DEF PaidInv, InHand, PaymentsAt
<1>4. \A p \in PaymentsAt(a) : transactions'[p] = transactions[p]
  <2>1. PICK rows : \/ UNCHANGED transactions
                    \/ /\ w.stage \in {"upsert", "delete"}
                       /\ transactions' = [transactions EXCEPT ![w.payment] = rows]
    BY <1>1, RowEffects
  <2> QED BY <1>1, <1>2, <1>3, <2>1
<1>5. ~(w'.stage \in Reconciling /\ w'.address = a)
  BY ReconcileStepStays DEF Unburdened, Reconciling
<1>6. \A p \in PaymentsAt(a) : Reconciled(p)
  BY DEF AtRest
<1> QED BY <1>1, <1>4, <1>5, <1>6, StaysAtRest

-----------------------------------------------------------------------------
(* The steps of the others.                                                *)
LEMMA OthersKeepRows ==
  ASSUME ServerStep \/ ApiStep \/ UNCHANGED allVars
  PROVE  UNCHANGED transactions /\ UNCHANGED w
<1> SUFFICES UNCHANGED transactions
  BY DEF ServerStep, ApiStep, watcherVars, allVars, codeVars
<1>1. CASE \E r \in PaymentIds : CreateStep(r)
  BY <1>1 DEF CreateStep, CheckReplay, CheckReference, CheckAddress, SnapshotTip,
              SnapshotHistory, SnapshotFails, SaveTip, SetChainTip, Insert, CreatePayment,
              storeVars
<1>2. CASE (\E g \in Readers : GetStep(g)) \/ Tick
  BY <1>2 DEF GetStep, BeginGet, FinishGet, RefreshPayment, Tick, storeVars
<1>3. CASE ServerStep \/ UNCHANGED allVars
  BY <1>3 DEF ServerStep, ChainStep, allVars, codeVars, vars, storeVars, watcherVars
<1> QED BY <1>1, <1>2, <1>3 DEF ApiStep

LEMMA LeftAlone ==
  ASSUME IInv, PlatformStep, NEW a, Still(a), \A p \in PaymentsAt(a)' : p \in PaymentsAt(a),
         UNCHANGED transactions, UNCHANGED w, BeingReconciled(w, a) \/ AtRest(w, a)
  PROVE  AddressOK(w, a)'
<1>1. CASE BeingReconciled(w, a)
  <2>1. PICK c : c = w
    OBVIOUS
  <2>2. /\ w' = c /\ c.stage \in Reconciling /\ c.address = a /\ c.history = HistoryNow(a)
        /\ \A p \in PaymentsAt(a) : Underway(c, p)
    BY <1>1, <2>1 DEF BeingReconciled
  <2>3. \A p \in PaymentsAt(a) : Underway(c, p)'
    BY <2>2, StaysUnderway
  <2> QED BY <2>2, <2>3, GoesOn
<1>2. CASE AtRest(w, a)
  BY <1>2, StaysAtRest DEF AtRest
<1> QED BY <1>1, <1>2

LEMMA ServerStepOK ==
  ASSUME PaidInv, [WatcherNext]_allVars, ServerStep, NEW a \in subscribed, a \in subscribed',
         a \notin Dropped, \A p \in PaymentsAt(a)' : p \in PaymentsAt(a), AddressOK(w, a),
         ~DueFor(w, a)
  PROVE  AddressOK(w, a)'
<1>1. WatcherInv /\ IInv /\ PlatformStep
  BY WatcherNextIsAPlatformStep DEF PaidInv, RowsInv, WatcherInv
<1>2. connected /\ UNCHANGED <<connected, w>> /\ (BeingReconciled(w, a) \/ AtRest(w, a))
  BY DEF DueFor, AddressOK, ServerStep
<1>3. CASE a \in Touched
  <2>1. TypeInv'
    BY <1>1, StepWatcherInv DEF WatcherInv, IInv
  <2>2. <<"script", a>> \in ToSet(queue') \/ needsFull'
    BY <1>1, <1>2, <1>3, <2>1, ServerTells
  <2>3. <<"script", a>> \in ToSet(queue') \/ w.mode # "full"
    BY <1>2, <1>3 DEF Dropped
  <2> QED BY <1>2, <2>2, <2>3 DEF AddressOK, DueFor
<1>4. CASE a \notin Touched
  <2>1. Still(a)
    BY <1>4 DEF Touched, Still
  <2> QED BY <1>1, <1>2, <2>1, OthersKeepRows, LeftAlone
<1> QED BY <1>3, <1>4

(* A step of the coroutine that is not due to read the address.            *)
LEMMA WatcherStepOK ==
  ASSUME PaidInv, [WatcherNext]_allVars, WatcherStep, NEW a \in subscribed, a \in subscribed',
         ~(w.stage = "history" /\ w.address = a), Still(a),
         \A p \in PaymentsAt(a)' : p \in PaymentsAt(a), BeingReconciled(w, a) \/ AtRest(w, a)
  PROVE  AddressOK(w, a)'
<1>1. WatcherInv /\ IInv /\ PlatformStep /\ LocalOK(w)
  BY WatcherNextIsAPlatformStep DEF PaidInv, RowsInv, WatcherInv, CoroutineOK
<1>2. CASE LoadPayments \/ Upsert \/ Delete \/ Evaluate
  <2>1. w.stage \in Reconciling
    BY <1>2 DEF LoadPayments, Upsert, Delete, Evaluate, Reconciling
  <2>2. CASE BeingReconciled(w, a)
    BY <1>1, <1>2, <2>2, LoadGoesOn, UpsertGoesOn, DeleteGoesOn, EvaluateGoesOn
  <2>3. CASE AtRest(w, a)
    <3>1. w.address # a
      BY <2>1, <2>3 DEF AtRest
    <3> QED BY <1>1, <1>2, <2>3, <3>1, OthersRest
  <2> QED BY <2>2, <2>3
<1>3. CASE ~(LoadPayments \/ Upsert \/ Delete \/ Evaluate)
  <2>1. w.stage \notin Reconciling
    BY <1>3 DEF WatcherStep, Connect, ApplyTip, ListRefreshable, RefreshListed, Sync, Subscribe,
                ReadHistory, TakeNotification, Timeout, Reconciling
  <2>2. AtRest(w, a)
    BY <2>1 DEF BeingReconciled
  <2>3. UNCHANGED transactions
    BY <1>1, <2>1, RowEffects DEF Reconciling
  <2>4. ~(w'.stage \in Reconciling /\ w'.address = a)
    <3>1. CASE ReadHistory
      <4>1. PICK h : Raise \/ Continue([w EXCEPT !.stage = "load", !.history = h])
        BY <3>1 DEF ReadHistory
      <4>2. CASE Raise
        BY <4>2, WaysOutUnburdened DEF Unburdened, Reconciling
      <4>3. CASE Continue([w EXCEPT !.stage = "load", !.history = h])
        <5>1. w'.address = w.address /\ w.stage = "history"
          BY <1>1, <3>1, <4>3 DEF Continue, LocalOK, Locals, ReadHistory
        <5> QED BY <5>1
      <4> QED BY <4>1, <4>2, <4>3
    <3>2. CASE ~ReadHistory
      BY <1>1, <1>3, <3>2, SessionStepUnburdened DEF WatcherStep, Unburdened, Reconciling
    <3> QED BY <3>1, <3>2
  <2> QED BY <1>1, <2>2, <2>3, <2>4, StaysAtRest DEF AtRest
<1> QED BY <1>2, <1>3

(* A new subscription is followed by a reading of the history.             *)
LEMMA SubscribedIsDue ==
  ASSUME LocalOK(w), [WatcherNext]_allVars, NEW a \in subscribed', a \notin subscribed
  PROVE  DueFor(w, a)'
<1>1. Subscribe
  <2>1. ASSUME Raise \/ Loop \/ EndPass \/ EndReconcile \/ EndHeader PROVE FALSE
    BY <2>1 DEF Raise, Loop, EndPass, EndReconcile, EndHeader, Continue
  <2>2. CASE WatcherStep
    BY <2>1, <2>2 DEF WatcherStep, Connect, ApplyTip, ListRefreshable, RefreshListed, Sync,
                      ReadHistory, LoadPayments, Upsert, Delete, Evaluate, TakeNotification,
                      Timeout, Continue
  <2>3. CASE ~WatcherStep
    BY <2>1, <2>3 DEF WatcherNext, PlatformMoves, ApiStep, watcherVars, ServerStep, Disconnect,
                      CycleFails, ServiceRestart, allVars, codeVars
  <2> QED BY <2>2, <2>3
<1>2. PICK b \in w.pending : /\ subscribed' = subscribed \cup {b}
                             /\ w' = [w EXCEPT !.stage = "history", !.address = b,
                                               !.pending = @ \ {b}]
  BY <1>1 DEF Subscribe, Raise
<1>3. b = a /\ w'.stage = "history" /\ w'.address = b
  BY <1>2 DEF LocalOK, Locals
<1> QED BY <1>3 DEF DueFor

LEMMA StepAddressOK ==
  ASSUME PaidInv, SessionKept, [WatcherNext]_allVars, NEW a \in subscribed', a \notin missed',
         a \in subscribed \ missed => AddressOK(w, a)
  PROVE  AddressOK(w, a)'
<1>1. WatcherInv /\ IInv /\ PlatformStep /\ LocalOK(w)
  BY WatcherNextIsAPlatformStep DEF PaidInv, RowsInv, WatcherInv, CoroutineOK
<1>2. \A p \in PaymentsAt(a)' : p \in PaymentsAt(a)
  BY <1>1, NotMissed
<1>3. CASE a \notin subscribed
  BY <1>1, <1>3, SubscribedIsDue DEF AddressOK
<1>4. CASE w.stage = "history" /\ w.address = a /\ w'.stage = "load"
  BY <1>1, <1>2, <1>4, ReadGoesOn
<1>5. CASE a \in subscribed /\ ~(w.stage = "history" /\ w.address = a /\ w'.stage = "load")
  <2>1. AddressOK(w, a) /\ (WatcherNext => a \notin Dropped)
    BY <1>1, <1>5, NotMissed
  <2>2. CASE DueFor(w, a)
    BY <1>1, <1>5, <2>2, StepDue DEF AddressOK
  <2>3. CASE ~DueFor(w, a)
    <3>1. BeingReconciled(w, a) \/ AtRest(w, a)
      BY <2>1, <2>3 DEF AddressOK
    <3>2. CASE WatcherNext /\ ServerStep
      BY <1>2, <1>5, <2>1, <2>3, <3>2, ServerStepOK
    <3>3. CASE ~ServerStep
      <4>1. Still(a)
        BY <3>3, ChainStays
      <4>2. CASE WatcherStep
        <5>1. ~(w.stage = "history" /\ w.address = a)
          BY <2>3 DEF DueFor
        <5> QED BY <1>2, <1>5, <3>1, <4>1, <4>2, <5>1, WatcherStepOK
      <4>3. CASE ApiStep \/ UNCHANGED allVars
        BY <1>1, <1>2, <3>1, <4>1, <4>3, OthersKeepRows, LeftAlone
      <4>4. CASE Disconnect
        BY <4>4 DEF Disconnect, AddressOK, DueFor
      <4>5. CASE CycleFails \/ ServiceRestart
        BY <4>5 DEF CycleFails, ServiceRestart, Raise
      <4> QED BY <3>3, <4>2, <4>3, <4>4, <4>5 DEF WatcherNext, PlatformMoves
    <3>4. CASE UNCHANGED allVars
      <4>1. Still(a)
        BY <3>4 DEF Still, allVars, codeVars, vars, chainVars
      <4> QED BY <1>1, <1>2, <3>1, <3>4, <4>1, OthersKeepRows, LeftAlone
    <3> QED BY <3>2, <3>3, <3>4
  <2> QED BY <2>2, <2>3
<1> QED BY <1>3, <1>4, <1>5

-----------------------------------------------------------------------------
LEMMA InitQuietInv == WatcherSystemInit => QuietInv
<1> SUFFICES ASSUME WatcherSystemInit PROVE QuietInv
  OBVIOUS
<1>1. subscribed = {} /\ w.mode = "none"
  BY DEF WatcherSystemInit, WatcherInit, At
<1>2. SessionKept
  BY <1>1 DEF SessionKept
<1> QED BY <1>1, <1>2, InitPaidInv DEF QuietInv

LEMMA StepQuietInv == ASSUME QuietInv, [WatcherNext]_allVars PROVE QuietInv'
<1>1. PaidInv'
  BY StepPaidInv DEF QuietInv
<1>2. SessionKept'
  BY StepSessionKept DEF QuietInv, PaidInv, RowsInv
<1>3. ASSUME NEW a \in subscribed' \ missed' PROVE AddressOK(w, a)'
  BY <1>3, StepAddressOK DEF QuietInv
<1> QED BY <1>1, <1>2, <1>3 DEF QuietInv

LEMMA QuietInductive == WatcherSpec => []QuietInv
BY InitQuietInv, StepQuietInv, PTL DEF WatcherSpec

(* Whatever order blocks, reorgs, evictions, broadcasts, a full queue,     *)
(* disconnections, failing cycles, restarts and requests come in, a        *)
(* watcher that waits with a session, an empty queue and no full           *)
(* reconciliation to do shows what is on the chain of every payment of its *)
(* subscribed addresses, except of those that have lost a notification or  *)
(* got a payment since they were last read (_reconcile_scripthash, the     *)
(* loop of _run_connected, _on_notification).                              *)
THEOREM QuietShowsTheChain == WatcherSpec => []QuietMeansReconciled
<1>1. QuietInv => QuietMeansReconciled
  <2> SUFFICES ASSUME QuietInv, Quiet, NEW a \in subscribed \ missed, NEW p \in PaymentsAt(a)
               PROVE  Reconciled(p)
    BY DEF QuietMeansReconciled
  <2>1. AddressOK(w, a) /\ SessionKept
    BY DEF QuietInv
  <2>2. /\ w.stage = "wait" /\ w.stage \notin Reconciling /\ w.mode # "full"
        /\ connected /\ ~needsFull /\ queue = <<>>
    BY <2>1 DEF Quiet, SessionKept, Reconciling
  <2>3. <<"script", a>> \notin ToSet(queue)
    BY <2>2 DEF ToSet
  <2>4. AtRest(w, a)
    BY <2>1, <2>2, <2>3 DEF AddressOK, DueFor, BeingReconciled
  <2> QED BY <2>4 DEF AtRest
<1> QED BY <1>1, QuietInductive, PTL
=============================================================================
