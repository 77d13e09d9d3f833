-------------------------- MODULE ElectrumXProofs ---------------------------
(***************************************************************************)
(* The two clients of the ElectrumX server: the session of the watcher,    *)
(* ElectrumXRequests, and the lookups of the read side, AddressReads.      *)
(***************************************************************************)
EXTENDS ElectrumXRequests, AddressReads, FiniteSetTheorems, TLAPS

-----------------------------------------------------------------------------
(***************************************************************************)
(* The subscription client, for any set of callers and any number of       *)
(* requests: a caller gets the answer to its own question or none, and     *)
(* nobody waits on a session whose reader has gone.                        *)
(*                                                                         *)
(* Neither property is inductive.  What carries them is that a request     *)
(* number is never used twice: so a late answer cannot meet a younger      *)
(* request, and the table of pending requests, which is searched by        *)
(* number alone, keeps every waiting caller until that caller leaves.      *)
(***************************************************************************)

(* No number in use is above the counter.                                  *)
NumbersUsed ==
  /\ \A c \in Callers : callers[c].id <= requestId
  /\ \A a \in wire \cup inbox : a.id <= requestId

(* Two callers do not share a number (0 is no number).                     *)
NumbersDiffer ==
  \A c, d \in Callers :
    c # d /\ callers[c].id = callers[d].id => callers[c].id = 0

(* Who waits has a number and is in the table under it.                    *)
WaitersArePending ==
  \A c \in Callers : callers[c].future = Waiting =>
    callers[c].id # 0 /\ [id |-> callers[c].id, caller |-> c] \in pending

(* A question or an answer that carries the number of a caller who waits   *)
(* is that caller's.                                                       *)
NumbersIdentify ==
  \A c \in Callers, a \in wire \cup inbox :
    callers[c].future = Waiting /\ a.id = callers[c].id
      => a.question = callers[c].question

RequestsInv ==
  /\ RequestsTypeOK
  /\ NumbersUsed
  /\ NumbersDiffer
  /\ WaitersArePending
  /\ NumbersIdentify
  /\ OwnAnswer
  /\ NoOneWaitsOnDeadSession

-----------------------------------------------------------------------------
(* The start of a client object satisfies the invariant                    *)
(* (subscription_client.py:36-43).                                         *)
LEMMA RequestsInitInv == RequestsInit => RequestsInv
  BY DEF RequestsInit, RequestsInv, RequestsTypeOK, NumbersUsed, NumbersDiffer,
     WaitersArePending, NumbersIdentify, OwnAnswer, NoOneWaitsOnDeadSession,
     AtRest, Failed, Waiting

(* A new request keeps it, in the session there is or in a new one whose   *)
(* wires are empty: its number is above every other                        *)
(* (subscription_client.py:144-150).                                       *)
LEMMA RegisterInv ==
  ASSUME RequestsInv, NEW c \in Callers, NEW first \in BOOLEAN,
         Register(c, first), session' = "up",
         wire' \subseteq wire, inbox' \subseteq inbox, UNCHANGED lock
  PROVE  RequestsInv'
<1> DEFINE new == [step |-> "lock", id |-> requestId + 1, question |-> asked + 1,
                   future |-> Waiting, first |-> first]
<1>1. /\ requestId \in Nat /\ asked \in Nat /\ requestId' = requestId + 1
      /\ callers' = [callers EXCEPT ![c] = new]
  BY DEF Register, NextId, RequestsInv, RequestsTypeOK
<1>2. /\ callers'[c] = new
      /\ \A d \in Callers : d # c => callers'[d] = callers[d]
  BY <1>1 DEF RequestsInv, RequestsTypeOK
<1>3. RequestsTypeOK'
  BY DEF Register, NextId, RequestsInv, RequestsTypeOK, Waiting
<1>4. NumbersUsed'
  BY <1>1, <1>2 DEF RequestsInv, RequestsTypeOK, NumbersUsed
<1>5. NumbersDiffer'
  BY <1>1, <1>2 DEF RequestsInv, RequestsTypeOK, NumbersUsed, NumbersDiffer
<1>6. WaitersArePending'
  BY <1>1, <1>2 DEF RequestsInv, RequestsTypeOK, NumbersUsed, WaitersArePending,
     Register, NextId
<1>7. NumbersIdentify'
  BY <1>1, <1>2 DEF RequestsInv, RequestsTypeOK, NumbersUsed, NumbersIdentify
<1>8. OwnAnswer'
  BY <1>1, <1>2 DEF RequestsInv, OwnAnswer, Waiting
<1>9. NoOneWaitsOnDeadSession'
  BY DEF NoOneWaitsOnDeadSession
<1> QED
  BY <1>3, <1>4, <1>5, <1>6, <1>7, <1>8, <1>9 DEF RequestsInv

(* A caller that leaves keeps it: its number is nobody else's, so only its *)
(* own entry goes (subscription_client.py:170-174).                        *)
LEMMA LeaveInv ==
  ASSUME RequestsInv, NEW c \in Callers, NEW next, Leave(c, next),
         lock' \in Callers \cup {Nobody}
  PROVE  RequestsInv'
<1> DEFINE rest == IF next = "close" THEN [AtRest EXCEPT !.step = "close"] ELSE AtRest
<1>1. /\ rest.id = 0 /\ rest.question = 0 /\ rest.future = Failed
      /\ rest \in [step : {"idle", "close"}, id : Nat, question : Nat,
                   future : [is : {"failed"}, of : Nat], first : BOOLEAN]
  BY DEF AtRest, Failed
<1>2. /\ callers' = [callers EXCEPT ![c] = rest]
      /\ pending' = { p \in pending : p.id # callers[c].id }
      /\ UNCHANGED <<session, requestId, wire, inbox, asked>>
  BY DEF Leave
<1>3. /\ callers'[c] = rest
      /\ \A d \in Callers : d # c => callers'[d] = callers[d]
  BY <1>2 DEF RequestsInv, RequestsTypeOK
<1> HIDE DEF rest
<1>4. RequestsTypeOK'
  BY <1>1, <1>2 DEF RequestsInv, RequestsTypeOK
<1>5. NumbersUsed'
  BY <1>1, <1>2, <1>3 DEF RequestsInv, RequestsTypeOK, NumbersUsed
<1>6. NumbersDiffer'
  BY <1>1, <1>3 DEF RequestsInv, NumbersDiffer
<1>7. WaitersArePending'
  BY <1>1, <1>2, <1>3 DEF RequestsInv, NumbersDiffer, WaitersArePending, Failed, Waiting
<1>8. NumbersIdentify'
  BY <1>1, <1>2, <1>3 DEF RequestsInv, NumbersIdentify, Failed, Waiting
<1>9. OwnAnswer'
  BY <1>1, <1>3 DEF RequestsInv, OwnAnswer, Failed
<1>10. NoOneWaitsOnDeadSession'
  BY <1>1, <1>2, <1>3 DEF RequestsInv, NoOneWaitsOnDeadSession, Failed, Waiting
<1> QED
  BY <1>4, <1>5, <1>6, <1>7, <1>8, <1>9, <1>10 DEF RequestsInv

-----------------------------------------------------------------------------
(* Settling futures changes futures of waiting callers and nothing else.   *)
LEMMA SettleChanges ==
  ASSUME RequestsTypeOK, NEW ids, NEW future, Settle(ids, future)
  PROVE  /\ DOMAIN callers' = Callers
         /\ callers' = [c \in Callers |-> callers'[c]]
         /\ \A c \in Callers :
              \/ callers'[c] = callers[c]
              \/ /\ callers'[c] = [callers[c] EXCEPT !.future = future]
                 /\ callers[c].future = Waiting /\ callers[c].id \in ids
         /\ \A c \in Callers :
              callers[c].future = Waiting /\ callers[c].id \in ids
                /\ [id |-> callers[c].id, caller |-> c] \in pending
              => callers'[c] = [callers[c] EXCEPT !.future = future]
  BY DEF Settle, RequestsTypeOK

(* Futures settled with a failure or with the answer to the caller's own   *)
(* question keep all but the last conjunct of the invariant                *)
(* (subscription_client.py:203-218, 238-241).                              *)
LEMMA SettleInv ==
  ASSUME RequestsInv, NEW ids, NEW future, Settle(ids, future),
         future \in [is : {"failed", "answer"}, of : Nat],
         \A c \in Callers :
           callers[c].future = Waiting /\ callers[c].id \in ids /\ future.is = "answer"
             => future.of = callers[c].question,
         session' \in {"none", "up", "lost", "closing"},
         wire' \subseteq wire, inbox' \subseteq inbox,
         UNCHANGED <<requestId, pending, lock, asked>>
  PROVE  /\ RequestsTypeOK' /\ NumbersUsed' /\ NumbersDiffer'
         /\ WaitersArePending' /\ NumbersIdentify' /\ OwnAnswer'
<1>1. RequestsTypeOK
  BY DEF RequestsInv
<1>2. /\ callers' = [c \in Callers |-> callers'[c]]
      /\ \A c \in Callers :
           \/ callers'[c] = callers[c]
           \/ /\ callers'[c] = [callers[c] EXCEPT !.future = future]
              /\ callers[c].future = Waiting /\ callers[c].id \in ids
  BY <1>1, SettleChanges
<1>3. future # Waiting
  BY DEF Waiting
<1>4. \A c \in Callers :
        /\ callers'[c].id = callers[c].id
        /\ callers'[c].question = callers[c].question
        /\ callers'[c].step = callers[c].step
        /\ callers'[c].first = callers[c].first
        /\ \/ callers'[c].future = callers[c].future
           \/ /\ callers'[c].future = future
              /\ callers[c].future = Waiting /\ callers[c].id \in ids
  BY <1>1, <1>2 DEF RequestsTypeOK
<1>5. \A c \in Callers : callers'[c] \in
        [step : {"idle", "lock", "drain", "wait", "close"}, id : Nat, question : Nat,
         future : [is : {"waiting", "failed", "answer"}, of : Nat], first : BOOLEAN]
  <2> TAKE c \in Callers
  <2>1. callers[c] \in
        [step : {"idle", "lock", "drain", "wait", "close"}, id : Nat, question : Nat,
         future : [is : {"waiting", "failed", "answer"}, of : Nat], first : BOOLEAN]
    BY <1>1 DEF RequestsTypeOK
  <2>2. CASE callers'[c] = callers[c]
    BY <2>1, <2>2
  <2>3. CASE callers'[c] = [callers[c] EXCEPT !.future = future]
    BY <2>1, <2>3
  <2> QED
    BY <1>2, <2>2, <2>3
<1>6. RequestsTypeOK'
  BY <1>1, <1>2, <1>5 DEF RequestsTypeOK
<1>7. NumbersUsed' /\ NumbersDiffer'
  BY <1>4 DEF RequestsInv, NumbersUsed, NumbersDiffer
<1>8. WaitersArePending' /\ NumbersIdentify'
  BY <1>3, <1>4 DEF RequestsInv, WaitersArePending, NumbersIdentify
<1>9. OwnAnswer'
  BY <1>4 DEF RequestsInv, OwnAnswer
<1> QED
  BY <1>6, <1>7, <1>8, <1>9

(* _fail_pending leaves nobody waiting (subscription_client.py:238-241).   *)
LEMMA FailPendingFailsAll ==
  ASSUME RequestsInv, FailPending
  PROVE  \A c \in Callers : callers'[c].future # Waiting
<1> DEFINE ids == { p.id : p \in pending }
<1>1. RequestsTypeOK /\ Settle(ids, Failed)
  BY DEF RequestsInv, FailPending
<1> SUFFICES ASSUME NEW c \in Callers
             PROVE  callers'[c].future # Waiting
  OBVIOUS
<1>2. CASE callers[c].future = Waiting
  <2>1. [id |-> callers[c].id, caller |-> c] \in pending
    BY <1>2 DEF RequestsInv, WaitersArePending
  <2>2. callers[c].id \in ids
    BY <2>1
  <2> HIDE DEF ids
  <2>3. callers'[c] = [callers[c] EXCEPT !.future = Failed]
    BY <1>1, <1>2, <2>1, <2>2, SettleChanges
  <2>4. callers'[c].future = Failed
    BY <1>1, <2>3 DEF RequestsTypeOK
  <2> QED
    BY <2>4 DEF Failed, Waiting
<1>3. CASE callers[c].future # Waiting
  <2> HIDE DEF ids
  <2>1. callers'[c] = callers[c]
    BY <1>1, <1>3, SettleChanges
  <2> QED
    BY <1>3, <2>1
<1> QED
  BY <1>2, <1>3

-----------------------------------------------------------------------------
(* Every step of the client, its reader, its callers and the server keeps  *)
(* the invariant.                                                          *)
LEMMA RequestsStepInv == RequestsInv /\ [RequestsNext]_requestVars => RequestsInv'
<1> SUFFICES ASSUME RequestsInv, [RequestsNext]_requestVars
             PROVE  RequestsInv'
  OBVIOUS
<1> USE DEF RequestsInv
<1>1. ASSUME NEW c \in Callers, Request(c)
      PROVE  RequestsInv'
  <2>1. /\ session' = "up" /\ Register(c, FALSE)
        /\ wire' \subseteq wire /\ inbox' \subseteq inbox /\ UNCHANGED lock
    BY <1>1 DEF Request, connected
  <2> QED
    BY <2>1, RegisterInv
<1>2. ASSUME NEW c \in Callers, Open(c)
      PROVE  RequestsInv'
  <2>1. /\ session' = "up" /\ Register(c, TRUE)
        /\ wire' \subseteq wire /\ inbox' \subseteq inbox /\ UNCHANGED lock
    BY <1>2 DEF Open
  <2> QED
    BY <2>1, RegisterInv
<1>3. ASSUME NEW c \in Callers, Write(c)
      PROVE  RequestsInv'
  <2> USE <1>3 DEF Write
  <2>1. RequestsTypeOK'
    BY DEF RequestsTypeOK
  <2>2. \A d \in Callers : /\ callers'[d].id = callers[d].id
                           /\ callers'[d].question = callers[d].question
                           /\ callers'[d].future = callers[d].future
    BY DEF RequestsTypeOK
  <2>3. NumbersUsed' /\ NumbersDiffer'
    BY <2>2 DEF NumbersUsed, NumbersDiffer
  <2>4. NumbersIdentify'
    <3> SUFFICES ASSUME NEW d \in Callers, NEW a \in wire' \cup inbox',
                        callers[d].future = Waiting, a.id = callers[d].id
                 PROVE  a.question = callers[d].question
      BY <2>2 DEF NumbersIdentify
    <3>1. CASE a \in wire \cup inbox
      BY <3>1 DEF NumbersIdentify
    <3>2. CASE a = [id |-> callers[c].id, question |-> callers[c].question]
      <4>1. callers[c].id = callers[d].id /\ callers[d].id # 0
        BY <3>2 DEF WaitersArePending
      <4>2. c = d
        BY <4>1 DEF NumbersDiffer
      <4> QED
        BY <3>2, <4>2
    <3> QED
      BY <3>1, <3>2
  <2>5. WaitersArePending' /\ OwnAnswer' /\ NoOneWaitsOnDeadSession'
    BY <2>2 DEF WaitersArePending, OwnAnswer, NoOneWaitsOnDeadSession
  <2> QED
    BY <2>1, <2>3, <2>4, <2>5
<1>4. ASSUME NEW c \in Callers, Drained(c)
      PROVE  RequestsInv'
  <2> USE <1>4 DEF Drained
  <2>1. RequestsTypeOK'
    BY DEF RequestsTypeOK
  <2>2. \A d \in Callers : /\ callers'[d].id = callers[d].id
                           /\ callers'[d].question = callers[d].question
                           /\ callers'[d].future = callers[d].future
    BY DEF RequestsTypeOK
  <2>3. NumbersUsed' /\ NumbersDiffer' /\ NumbersIdentify'
    BY <2>2 DEF NumbersUsed, NumbersDiffer, NumbersIdentify
  <2>4. WaitersArePending' /\ OwnAnswer' /\ NoOneWaitsOnDeadSession'
    BY <2>2 DEF WaitersArePending, OwnAnswer, NoOneWaitsOnDeadSession
  <2> QED
    BY <2>1, <2>3, <2>4
<1>5. ASSUME NEW c \in Callers, GiveUpRequest(c)
      PROVE  RequestsInv'
  <2>1. PICK next \in {"close", "idle"} : Leave(c, next)
    BY <1>5 DEF GiveUpRequest, AfterFailure
  <2>2. lock' \in Callers \cup {Nobody}
    BY <1>5 DEF GiveUpRequest, RequestsTypeOK
  <2> QED
    BY <2>1, <2>2, LeaveInv
<1>6. ASSUME NEW c \in Callers, Return(c)
      PROVE  RequestsInv'
  <2>1. PICK next \in {"close", "idle"} : Leave(c, next)
    BY <1>6 DEF Return, AfterFailure
  <2>2. lock' \in Callers \cup {Nobody}
    BY <1>6 DEF Return, RequestsTypeOK
  <2> QED
    BY <2>1, <2>2, LeaveInv
<1>7. ASSUME NEW c \in Callers, Closed(c)
      PROVE  RequestsInv'
  <2> USE <1>7 DEF Closed
  <2>1. /\ callers'[c] = AtRest
        /\ \A d \in Callers : d # c => callers'[d] = callers[d]
    BY DEF RequestsTypeOK
  <2>2. RequestsTypeOK'
    BY DEF RequestsTypeOK, AtRest, Failed
  <2>3. NumbersUsed' /\ NumbersDiffer'
    BY <2>1 DEF NumbersUsed, NumbersDiffer, RequestsTypeOK, AtRest
  <2>4. WaitersArePending' /\ NumbersIdentify'
    BY <2>1 DEF WaitersArePending, NumbersIdentify, AtRest, Failed, Waiting
  <2>5. OwnAnswer' /\ NoOneWaitsOnDeadSession'
    BY <2>1 DEF OwnAnswer, NoOneWaitsOnDeadSession, AtRest, Failed, Waiting
  <2> QED
    BY <2>2, <2>3, <2>4, <2>5
<1>8. CASE ServerReplies
  <2> USE <1>8 DEF ServerReplies, connected
  <2>1. RequestsTypeOK' /\ NumbersUsed' /\ NumbersDiffer'
    BY DEF RequestsTypeOK, NumbersUsed, NumbersDiffer
  <2>2. WaitersArePending' /\ NumbersIdentify' /\ OwnAnswer' /\ NoOneWaitsOnDeadSession'
    BY DEF WaitersArePending, NumbersIdentify, OwnAnswer, NoOneWaitsOnDeadSession
  <2> QED
    BY <2>1, <2>2
<1>9. CASE ReadAnswer
  <2>1. PICK a \in inbox : inbox' = inbox \ {a} /\ Settle({a.id}, Answer(a.question))
    BY <1>9 DEF ReadAnswer
  <2>2. Answer(a.question) \in [is : {"failed", "answer"}, of : Nat]
    BY DEF RequestsTypeOK, Answer
  <2>3. \A c \in Callers :
          callers[c].future = Waiting /\ callers[c].id \in {a.id}
            => Answer(a.question).of = callers[c].question
    BY DEF NumbersIdentify, Answer
  <2>4. session = "up" /\ UNCHANGED <<session, requestId, pending, lock, wire, asked>>
    BY <1>9 DEF ReadAnswer, connected
  <2>5. /\ RequestsTypeOK' /\ NumbersUsed' /\ NumbersDiffer'
        /\ WaitersArePending' /\ NumbersIdentify' /\ OwnAnswer'
    <3>1. /\ session' \in {"none", "up", "lost", "closing"}
          /\ wire' \subseteq wire /\ inbox' \subseteq inbox
          /\ UNCHANGED <<requestId, pending, lock, asked>>
      BY <2>1, <2>4
    <3> QED
      BY <2>1, <2>2, <2>3, <3>1, SettleInv
  <2> QED
    BY <2>4, <2>5 DEF NoOneWaitsOnDeadSession
<1>10. ASSUME FailPending, session' \in {"none", "lost"},
              wire' \subseteq wire, inbox' \subseteq inbox,
              UNCHANGED <<requestId, pending, lock, asked>>
       PROVE  RequestsInv'
  <2>1. Failed \in [is : {"failed", "answer"}, of : Nat] /\ Failed.is # "answer"
    BY DEF Failed
  <2>2. Settle({ p.id : p \in pending }, Failed)
    BY <1>10 DEF FailPending
  <2>3. /\ RequestsTypeOK' /\ NumbersUsed' /\ NumbersDiffer'
        /\ WaitersArePending' /\ NumbersIdentify' /\ OwnAnswer'
    BY <1>10, <2>1, <2>2, SettleInv
  <2>4. NoOneWaitsOnDeadSession'
    BY <1>10, FailPendingFailsAll DEF NoOneWaitsOnDeadSession
  <2> QED
    BY <2>3, <2>4
<1>11. CASE ReaderFails
  BY <1>10, <1>11 DEF ReaderFails
<1>12. CASE EndClose
  BY <1>10, <1>12 DEF EndClose
<1>13. CASE BeginClose
  <2> USE <1>13 DEF BeginClose
  <2>1. RequestsTypeOK' /\ NumbersUsed' /\ NumbersDiffer' /\ WaitersArePending'
    BY DEF RequestsTypeOK, NumbersUsed, NumbersDiffer, WaitersArePending
  <2>2. NumbersIdentify' /\ OwnAnswer' /\ NoOneWaitsOnDeadSession'
    BY DEF NumbersIdentify, OwnAnswer, NoOneWaitsOnDeadSession
  <2> QED
    BY <2>1, <2>2
<1>14. CASE UNCHANGED requestVars
  <2> USE <1>14 DEF requestVars
  <2>1. RequestsTypeOK' /\ NumbersUsed' /\ NumbersDiffer' /\ WaitersArePending'
    BY DEF RequestsTypeOK, NumbersUsed, NumbersDiffer, WaitersArePending
  <2>2. NumbersIdentify' /\ OwnAnswer' /\ NoOneWaitsOnDeadSession'
    BY DEF NumbersIdentify, OwnAnswer, NoOneWaitsOnDeadSession
  <2> QED
    BY <2>1, <2>2
<1> HIDE DEF RequestsInv
<1>15. \/ \E c \in Callers : Request(c) \/ Open(c) \/ Write(c) \/ Drained(c)
                             \/ GiveUpRequest(c) \/ Return(c) \/ Closed(c)
       \/ ServerReplies \/ ReadAnswer \/ ReaderFails \/ BeginClose \/ EndClose
       \/ UNCHANGED requestVars
  BY DEF RequestsNext, CallerStep
<1> QED
  BY <1>1, <1>2, <1>3, <1>4, <1>5, <1>6, <1>7, <1>8, <1>9, <1>11, <1>12, <1>13,
     <1>14, <1>15

-----------------------------------------------------------------------------
(* The variables keep their types.                                         *)
THEOREM RequestsTypeCorrect == RequestsSpec => []RequestsTypeOK
<1>1. RequestsInv => RequestsTypeOK
  BY DEF RequestsInv
<1> QED
  BY <1>1, RequestsInitInv, RequestsStepInv, PTL DEF RequestsSpec

(* A caller gets the answer to its own question or none, whatever the      *)
(* server answers late and whoever gave up before                          *)
(* (subscription_client.py:144-174, 203-218).                              *)
THEOREM EveryAnswerIsOwn == RequestsSpec => []OwnAnswer
<1>1. RequestsInv => OwnAnswer
  BY DEF RequestsInv
<1> QED
  BY <1>1, RequestsInitInv, RequestsStepInv, PTL DEF RequestsSpec

(* A session that has lost its reader, or is closed, has failed everyone   *)
(* who waited on it (subscription_client.py:102-133, 229-241).             *)
THEOREM NobodyIsLeftWaiting == RequestsSpec => []NoOneWaitsOnDeadSession
<1>1. RequestsInv => NoOneWaitsOnDeadSession
  BY DEF RequestsInv
<1> QED
  BY <1>1, RequestsInitInv, RequestsStepInv, PTL DEF RequestsSpec

-----------------------------------------------------------------------------
(***************************************************************************)
(* The read side, for any number of readers, lookups and transactions.     *)
(*                                                                         *)
(* That fresh data is fresh follows from the ages of what a reader holds.  *)
(* That the monitor never goes back needs the whole discipline of the      *)
(* shared lookup: while nobody is cancelled, the one that runs is the one  *)
(* in the table, who is woken is woken by the same one, and nobody asks    *)
(* the server before all of them have been served.                         *)
(***************************************************************************)

Lookups == {"summary", "history", "utxos", "transaction", "broadcast", "observation"}
Ages == 0 .. Nothing

ReaderRow ==
  [stage : {"idle", "turn", "asking", "waiting"}, todo : Seq(Lookups),
   fresh : BOOLEAN, since : 0 .. MaxMoves, got : Ages, shown : Ages,
   task : {0} \cup Tasks]
TaskRow == [stage : {"none", "running", "done", "failed"}, got : Ages]

ReadsTypeOK ==
  /\ version \in 0 .. MaxMoves
  /\ caching \in BOOLEAN
  /\ cached \in [CachedKinds -> Ages]
  /\ reader \in [Readers -> ReaderRow]
  /\ task \in [Tasks -> TaskRow]
  /\ inflight \in {0} \cup Tasks
  /\ newest \in Ages
  /\ cancels \in Nat

(* What a fresh request holds is not older than the request, and the       *)
(* monitor's shared observation is none of it.                             *)
FreshAges ==
  \A r \in Readers : reader[r].fresh =>
    /\ reader[r].since <= version
    /\ reader[r].since <= reader[r].got
    /\ reader[r].since <= reader[r].shown
    /\ \A i \in 1 .. Len(reader[r].todo) : reader[r].todo[i] # "observation"

Ended(t) == task[t].stage \in {"done", "failed"}

(* A lookup of a request's own is never an observation, and nothing else   *)
(* is waited for.                                                          *)
AskersAskOthers ==
  \A r \in Readers :
    /\ reader[r].stage = "asking" => reader[r].todo # <<>> /\ Kind(r) # "observation"
    /\ reader[r].stage = "waiting" => reader[r].todo # <<>> /\ Kind(r) = "observation"

(* Who waits, waits for a lookup that has been started.                    *)
WaitersHaveTasks ==
  \A r \in Readers : reader[r].stage = "waiting" =>
    /\ reader[r].task \in Tasks
    /\ task[reader[r].task].stage # "none"

(* The lookups' own state: a finished one has an answer, one that is not   *)
(* there or has failed has none.                                           *)
TasksHaveAnswers ==
  /\ \A t \in Tasks :
       /\ task[t].stage = "done" => task[t].got # Nothing
       /\ task[t].stage \in {"none", "failed"} => task[t].got = Nothing
  /\ inflight # 0 => task[inflight].stage # "none"

(* While nobody is cancelled the lookup that runs is the one in the table. *)
OnlyTheTableRuns ==
  cancels = 0 => \A t \in Tasks : task[t].stage = "running" => inflight = t

(* Who is woken is woken by one and the same lookup, the one in the table  *)
(* if that has ended, and no other has an answer meanwhile.                *)
WokenTogether ==
  cancels = 0 => \A r \in Readers : Woken(r) =>
    /\ \A q \in Readers : Woken(q) => reader[q].task = reader[r].task
    /\ inflight # 0 /\ Ended(inflight) => inflight = reader[r].task
    /\ \A t \in Tasks : task[t].stage = "running" => task[t].got = Nothing

(* No answer on its way is older than what has been reported or is kept,   *)
(* and nothing is newer than the server.                                   *)
AtLeast(age) ==
  /\ newest <= age
  /\ cached["observation"] # Nothing => cached["observation"] <= age

AnswersAreNoOlder ==
  /\ newest <= version
  /\ \A t \in Tasks : task[t].got = Nothing \/ task[t].got <= version
  /\ cached["observation"] = Nothing \/ cached["observation"] <= version
  /\ ~caching => cached["observation"] = Nothing
  /\ cancels = 0 =>
       /\ newest <= cached["observation"]
       /\ inflight # 0 => AtLeast(task[inflight].got)
       /\ \A r \in Readers : Woken(r) => AtLeast(task[reader[r].task].got)

ReadsInv ==
  /\ ReadsTypeOK
  /\ FreshAges
  /\ AskersAskOthers
  /\ WaitersHaveTasks
  /\ TasksHaveAnswers
  /\ OnlyTheTableRuns
  /\ WokenTogether
  /\ AnswersAreNoOlder

(* The part about the shared lookup.                                       *)
SharedInv ==
  /\ WaitersHaveTasks
  /\ TasksHaveAnswers
  /\ OnlyTheTableRuns
  /\ WokenTogether
  /\ AnswersAreNoOlder

-----------------------------------------------------------------------------
(* Nothing is older than everything, and the ages are numbers.             *)
LEMMA AgesAreNumbers ==
  /\ MaxMoves \in Nat /\ MaxTasks \in Nat \ {0} /\ MaxCancels \in Nat
  /\ Nothing = MaxMoves + 1
  /\ 0 \notin Tasks
  /\ Ages = 0 .. MaxMoves + 1
  BY ReadsAssumption DEF Nothing, Tasks, Ages

(* The empty caches of a process that starts satisfy the invariant.        *)
LEMMA ReadsInitInv == ReadsInit => ReadsInv
<1> SUFFICES ASSUME ReadsInit PROVE ReadsInv
  OBVIOUS
<1>1. /\ Idle \in ReaderRow /\ Idle.stage = "idle" /\ Idle.fresh = FALSE
      /\ NoTask \in TaskRow /\ NoTask.stage = "none" /\ NoTask.got = Nothing
  BY AgesAreNumbers DEF Idle, NoTask, ReaderRow, TaskRow
<1>2. ReadsTypeOK
  BY <1>1, AgesAreNumbers DEF ReadsInit, ReadsTypeOK
<1>3. "observation" \in CachedKinds
  BY DEF CachedKinds
<1>4. FreshAges /\ AskersAskOthers /\ WaitersHaveTasks /\ TasksHaveAnswers
  BY <1>1 DEF ReadsInit, FreshAges, AskersAskOthers, WaitersHaveTasks, TasksHaveAnswers
<1>5. OnlyTheTableRuns /\ WokenTogether /\ AnswersAreNoOlder
  BY <1>1, <1>3, AgesAreNumbers
     DEF ReadsInit, OnlyTheTableRuns, WokenTogether, AnswersAreNoOlder, Woken
<1> QED
  BY <1>2, <1>4, <1>5 DEF ReadsInv

(* A step of a request that waits for nobody, before and after it: it may  *)
(* see the address move and report what is kept, no more                   *)
(* (address_service.py:206-243, payment_service.py:190-204).               *)
LEMMA OwnStepShares ==
  ASSUME ReadsTypeOK, SharedInv, NEW r \in Readers, NEW row,
         reader' = [reader EXCEPT ![r] = row],
         reader[r].stage # "waiting", row.stage # "waiting",
         version' \in version .. MaxMoves,
         cached'["observation"] = cached["observation"],
         newest' = newest \/ (newest' = cached["observation"] /\ newest' # Nothing),
         UNCHANGED <<caching, task, inflight, cancels>>
  PROVE  SharedInv'
<1> USE DEF SharedInv
<1>1. /\ \A q \in Readers : q # r => reader'[q] = reader[q]
      /\ reader'[r].stage # "waiting"
  BY DEF ReadsTypeOK
<1>2. \A q \in Readers : Woken(q)' => Woken(q) /\ reader'[q] = reader[q]
  BY <1>1 DEF Woken
<1>3. WaitersHaveTasks' /\ TasksHaveAnswers' /\ OnlyTheTableRuns'
  BY <1>1 DEF WaitersHaveTasks, TasksHaveAnswers, OnlyTheTableRuns
<1>4. WokenTogether'
  BY <1>2 DEF WokenTogether, Ended
<1>5. AnswersAreNoOlder'
  <2>1. /\ version \in Nat /\ version' \in Nat /\ version <= version'
        /\ newest \in Nat /\ newest' \in Nat /\ Nothing \in Nat
        /\ cached["observation"] \in Nat
        /\ \A t \in Tasks : task[t].got \in Nat
    BY AgesAreNumbers DEF ReadsTypeOK, CachedKinds, TaskRow
  <2>2. newest' <= version'
    BY <2>1 DEF AnswersAreNoOlder
  <2>3. \A t \in Tasks : task'[t].got = Nothing \/ task'[t].got <= version'
    BY <2>1 DEF AnswersAreNoOlder
  <2>4. cached'["observation"] = Nothing \/ cached'["observation"] <= version'
    BY <2>1 DEF AnswersAreNoOlder
  <2>5. ASSUME NEW age \in Nat, AtLeast(age)
        PROVE  AtLeast(age)'
    BY <2>1, <2>5 DEF AtLeast
  <2>6. ASSUME cancels' = 0
        PROVE  /\ newest' <= cached'["observation"]
               /\ inflight' # 0 => AtLeast(task[inflight].got)'
               /\ \A q \in Readers : Woken(q)' => AtLeast(task[reader[q].task].got)'
    <3>1. newest' <= cached'["observation"]
      BY <2>1, <2>6 DEF AnswersAreNoOlder
    <3>2. ASSUME inflight' # 0
          PROVE  AtLeast(task[inflight].got)'
      <4>1. AtLeast(task[inflight].got) /\ task[inflight].got \in Nat
        BY <2>1, <2>6, <3>2 DEF AnswersAreNoOlder, ReadsTypeOK
      <4> QED
        BY <2>1, <4>1 DEF AtLeast
    <3>3. ASSUME NEW q \in Readers, Woken(q)'
          PROVE  AtLeast(task[reader[q].task].got)'
      <4>1. /\ AtLeast(task[reader[q].task].got) /\ task[reader[q].task].got \in Nat
            /\ reader'[q] = reader[q]
        BY <1>2, <2>1, <2>6, <3>3 DEF AnswersAreNoOlder, WaitersHaveTasks, Woken
      <4> QED
        BY <2>1, <4>1 DEF AtLeast
    <3> QED
      BY <3>1, <3>2, <3>3
  <2> QED
    BY <2>2, <2>3, <2>4, <2>6 DEF AnswersAreNoOlder
<1> QED
  BY <1>3, <1>4, <1>5

-----------------------------------------------------------------------------
(* What a reader's row must satisfy for FreshAges and AskersAskOthers.     *)
RowOK(row, now) ==
  /\ row.fresh =>
       /\ row.since <= now /\ row.since <= row.got /\ row.since <= row.shown
       /\ \A i \in 1 .. Len(row.todo) : row.todo[i] # "observation"
  /\ row.stage = "asking" => row.todo # <<>> /\ Head(row.todo) # "observation"
  /\ row.stage = "waiting" => row.todo # <<>> /\ Head(row.todo) = "observation"

LEMMA RowsOK ==
  /\ FreshAges /\ AskersAskOthers <=> \A r \in Readers : RowOK(reader[r], version)
  /\ FreshAges' /\ AskersAskOthers' <=> \A r \in Readers : RowOK(reader'[r], version')
  BY DEF FreshAges, AskersAskOthers, RowOK, Kind

(* Another row for one reader.                                             *)
LEMMA RowKeeps ==
  ASSUME ReadsTypeOK, FreshAges, AskersAskOthers,
         NEW r \in Readers, NEW row \in ReaderRow,
         reader' = [reader EXCEPT ![r] = row],
         version' \in version .. MaxMoves, RowOK(row, version')
  PROVE  reader' \in [Readers -> ReaderRow] /\ FreshAges' /\ AskersAskOthers'
<1>1. /\ reader'[r] = row
      /\ \A q \in Readers : q # r => reader'[q] = reader[q]
      /\ reader' \in [Readers -> ReaderRow]
  BY DEF ReadsTypeOK
<1>2. ASSUME NEW q \in Readers, q # r
      PROVE  RowOK(reader'[q], version')
  <2>1. RowOK(reader[q], version) /\ reader[q] \in ReaderRow
    BY RowsOK DEF ReadsTypeOK
  <2>2. /\ reader[q].since \in Nat
        /\ version \in Nat /\ version' \in Nat /\ version <= version'
    BY <2>1, AgesAreNumbers DEF ReadsTypeOK, ReaderRow
  <2> QED
    BY <1>1, <1>2, <2>1, <2>2 DEF RowOK
<1> QED
  BY <1>1, <1>2, RowsOK

(* The idle row, and the row of a request that was given an answer.        *)
LEMMA IdleRow == Idle \in ReaderRow /\ RowOK(Idle, version') /\ Idle.stage = "idle"
  BY AgesAreNumbers DEF Idle, ReaderRow, RowOK

LEMMA AnsweredRow ==
  ASSUME ReadsTypeOK, FreshAges, NEW r \in Readers, NEW oldest \in Ages,
         reader[r].todo # <<>>, reader[r].fresh => reader[r].since <= oldest
  PROVE  /\ Answered(r, oldest) \in ReaderRow
         /\ Answered(r, oldest).stage = "turn"
         /\ RowOK(Answered(r, oldest), version)
<1> DEFINE row == reader[r]
           new == Answered(r, oldest)
<1>1. /\ row \in ReaderRow /\ row.since \in Nat /\ row.since <= Nothing
      /\ row.shown \in Nat /\ row.shown \in Ages /\ oldest \in Nat
      /\ Nothing \in Nat /\ Nothing \in Ages
      /\ row.todo \in Seq(Lookups)
  BY AgesAreNumbers DEF ReadsTypeOK, ReaderRow
<1>2. Older(row.shown, oldest) \in {row.shown, oldest}
  BY DEF Older
<1>3. /\ new.stage = "turn" /\ new.todo = Tail(row.todo)
      /\ new.fresh = row.fresh /\ new.since = row.since /\ new.got = Nothing
      /\ new.shown = Older(row.shown, oldest) /\ new.task = 0
  BY <1>1 DEF Answered, ReaderRow
<1>4. /\ Tail(row.todo) \in Seq(Lookups)
      /\ \A i \in 1 .. Len(Tail(row.todo)) :
           i + 1 \in 1 .. Len(row.todo) /\ Tail(row.todo)[i] = row.todo[i + 1]
  BY <1>1
<1>5. new \in ReaderRow
  BY <1>1, <1>2, <1>4 DEF Answered, ReaderRow
<1>6. RowOK(new, version)
  BY <1>1, <1>2, <1>3, <1>4 DEF RowOK, FreshAges
<1> QED
  BY <1>3, <1>5, <1>6

-----------------------------------------------------------------------------
(* The steps of a request that waits for no shared lookup.                 *)
LEMMA OwnStepInv ==
  ASSUME ReadsInv, NEW r \in Readers, NEW row \in ReaderRow,
         reader' = [reader EXCEPT ![r] = row], RowOK(row, version'),
         reader[r].stage # "waiting", row.stage # "waiting",
         version' \in version .. MaxMoves,
         cached' \in [CachedKinds -> Ages],
         cached'["observation"] = cached["observation"],
         newest' = newest \/ (newest' = cached["observation"] /\ newest' # Nothing),
         UNCHANGED <<caching, task, inflight, cancels>>
  PROVE  ReadsInv'
<1> USE DEF ReadsInv
<1>1. SharedInv'
  BY OwnStepShares DEF SharedInv
<1>2. reader' \in [Readers -> ReaderRow] /\ FreshAges' /\ AskersAskOthers'
  BY RowKeeps
<1>3. ReadsTypeOK'
  BY <1>2, AgesAreNumbers DEF ReadsTypeOK, CachedKinds
<1> QED
  BY <1>1, <1>2, <1>3 DEF SharedInv

(* BeginRead: a route begins with its lookups (ROUTES), a fresh one has no *)
(* observation among them (wallet.py:58-69).                               *)
LEMMA BeginReadInv ==
  ASSUME ReadsInv, NEW r \in Readers, NEW route \in DOMAIN ROUTES,
         NEW fresh \in BOOLEAN, BeginRead(r, route, fresh)
  PROVE  ReadsInv'
<1> DEFINE row == [Idle EXCEPT !.stage = "turn", !.todo = ROUTES[route],
                               !.fresh = fresh, !.since = IF fresh THEN version ELSE 0]
<1>1. /\ ROUTES[route] \in Seq(Lookups)
      /\ route \in HasFresh =>
           \A i \in 1 .. Len(ROUTES[route]) : ROUTES[route][i] # "observation"
  <2>1. route \in {"wallet", "utxo", "history", "tx", "send", "monitor"}
    BY DEF ROUTES
  <2>2. /\ ROUTES["wallet"] = <<"summary", "history">> /\ ROUTES["utxo"] = <<"utxos">>
        /\ ROUTES["history"] = <<"history">> /\ ROUTES["tx"] = <<"transaction">>
        /\ ROUTES["send"] = <<"broadcast">> /\ ROUTES["monitor"] = <<"observation">>
    BY DEF ROUTES
  <2>3. /\ <<"summary", "history">> \in Seq(Lookups) /\ <<"utxos">> \in Seq(Lookups)
        /\ <<"history">> \in Seq(Lookups) /\ <<"transaction">> \in Seq(Lookups)
        /\ <<"broadcast">> \in Seq(Lookups) /\ <<"observation">> \in Seq(Lookups)
    BY DEF Lookups
  <2>4. \A i \in 1 .. Len(<<"summary", "history">>) : i = 1 \/ i = 2
    OBVIOUS
  <2>5. route \in HasFresh =>
          \A i \in 1 .. Len(ROUTES[route]) : ROUTES[route][i] # "observation"
    BY <2>2, <2>4 DEF HasFresh
  <2> QED
    BY <2>1, <2>2, <2>3, <2>5
<1>2. version \in Nat /\ version \in 0 .. MaxMoves
  BY AgesAreNumbers DEF ReadsInv, ReadsTypeOK
<1>3. /\ row.stage = "turn" /\ row.todo = ROUTES[route] /\ row.fresh = fresh
      /\ row.since = IF fresh THEN version ELSE 0
      /\ row.got = Nothing /\ row.shown = Nothing
  BY DEF Idle
<1>4. row \in ReaderRow
  <2>1. Idle \in ReaderRow /\ (IF fresh THEN version ELSE 0) \in 0 .. MaxMoves
    BY <1>2, IdleRow, AgesAreNumbers
  <2> QED
    BY <1>1, <2>1 DEF ReaderRow
<1>5. /\ reader[r].stage # "waiting"
      /\ fresh => route \in HasFresh
      /\ reader' = [reader EXCEPT ![r] = row]
      /\ UNCHANGED <<version, caching, cached, task, inflight, newest, cancels>>
  BY DEF BeginRead
<1> HIDE DEF row
<1>6. RowOK(row, version')
  BY <1>1, <1>2, <1>3, <1>5, AgesAreNumbers DEF RowOK
<1>7. cached' \in [CachedKinds -> Ages] /\ version' \in version .. MaxMoves
  BY <1>2, <1>5, AgesAreNumbers DEF ReadsInv, ReadsTypeOK
<1> QED
  BY <1>3, <1>4, <1>5, <1>6, <1>7, OwnStepInv

LEMMA ServeFromCacheInv ==
  ASSUME ReadsInv, NEW r \in Readers, ServeFromCache(r)
  PROVE  ReadsInv'
<1>1. /\ reader[r].stage = "turn" /\ reader[r].todo # <<>>
      /\ Kind(r) \in CachedKinds /\ ~reader[r].fresh /\ cached[Kind(r)] # Nothing
      /\ reader' = [reader EXCEPT ![r] = Answered(r, cached[Kind(r)])]
      /\ newest' = Reported(Kind(r), cached[Kind(r)])
      /\ UNCHANGED <<version, caching, cached, task, inflight, cancels>>
  BY DEF ServeFromCache, CacheServes
<1>2. cached[Kind(r)] \in Ages
  BY <1>1 DEF ReadsInv, ReadsTypeOK
<1>3. /\ Answered(r, cached[Kind(r)]) \in ReaderRow
      /\ Answered(r, cached[Kind(r)]).stage = "turn"
      /\ RowOK(Answered(r, cached[Kind(r)]), version')
  BY <1>1, <1>2, AnsweredRow DEF ReadsInv
<1>4. newest' = newest \/ (newest' = cached["observation"] /\ newest' # Nothing)
  BY <1>1 DEF Reported
<1>5. version' \in version .. MaxMoves /\ cached' \in [CachedKinds -> Ages]
  BY <1>1, AgesAreNumbers DEF ReadsInv, ReadsTypeOK
<1> QED
  BY <1>1, <1>3, <1>4, <1>5, OwnStepInv

LEMMA StartLookupInv ==
  ASSUME ReadsInv, NEW r \in Readers, StartLookup(r)
  PROVE  ReadsInv'
<1> DEFINE row == [reader[r] EXCEPT !.stage = "asking"]
<1>1. /\ reader[r].stage = "turn" /\ reader[r].todo # <<>> /\ Kind(r) # "observation"
      /\ reader' = [reader EXCEPT ![r] = row]
      /\ UNCHANGED <<version, caching, cached, task, inflight, newest, cancels>>
  BY DEF StartLookup
<1>2. row \in ReaderRow
  BY DEF ReadsInv, ReadsTypeOK, ReaderRow
<1>3. RowOK(reader[r], version) /\ reader[r] \in ReaderRow
  BY RowsOK DEF ReadsInv, ReadsTypeOK
<1>4. RowOK(row, version')
  BY <1>1, <1>3 DEF RowOK, Kind, ReaderRow
<1>5. row.stage = "asking"
  BY <1>3 DEF ReaderRow
<1>6. version' \in version .. MaxMoves /\ cached' \in [CachedKinds -> Ages]
  BY <1>1, AgesAreNumbers DEF ReadsInv, ReadsTypeOK
<1> HIDE DEF row
<1> QED
  BY <1>1, <1>2, <1>4, <1>5, <1>6, OwnStepInv

(* Ask: what is read now is not older than the request.                    *)
LEMMA AskInv ==
  ASSUME ReadsInv, NEW r \in Readers, Ask(r)
  PROVE  ReadsInv'
<1> DEFINE row == [reader[r] EXCEPT !.got = version']
<1>1. /\ reader[r].stage = "asking"
      /\ reader' = [reader EXCEPT ![r] = row]
      /\ UNCHANGED <<caching, cached, task, inflight, newest, cancels>>
  BY DEF Ask
<1>2. version' \in version .. MaxMoves /\ version \in Nat
  BY AgesAreNumbers DEF ReadsInv, Ask, ReadsTypeOK
<1>3. RowOK(reader[r], version) /\ reader[r] \in ReaderRow
  BY RowsOK DEF ReadsInv, ReadsTypeOK
<1>4. version' \in Ages /\ version' \in Nat /\ version <= version'
  BY <1>2, AgesAreNumbers
<1>5. row \in ReaderRow /\ row.stage = "asking"
  BY <1>1, <1>3, <1>4 DEF ReaderRow
<1>6. /\ row.fresh = reader[r].fresh /\ row.since = reader[r].since
      /\ row.shown = reader[r].shown /\ row.todo = reader[r].todo
      /\ row.got = version' /\ row.since \in Nat
  BY <1>3, AgesAreNumbers DEF ReaderRow
<1> HIDE DEF row
<1>7. RowOK(row, version')
  BY <1>1, <1>2, <1>3, <1>4, <1>5, <1>6 DEF RowOK
<1>8. cached' \in [CachedKinds -> Ages]
  BY <1>1 DEF ReadsInv, ReadsTypeOK
<1> QED
  BY <1>1, <1>2, <1>5, <1>7, <1>8, OwnStepInv

LEMMA FinishLookupInv ==
  ASSUME ReadsInv, NEW r \in Readers, FinishLookup(r)
  PROVE  ReadsInv'
<1>1. /\ reader[r].stage = "asking"
      /\ reader' = [reader EXCEPT ![r] = Answered(r, reader[r].got)]
      /\ UNCHANGED <<version, caching, task, inflight, newest, cancels>>
  BY DEF FinishLookup
<1>2. /\ reader[r].todo # <<>> /\ Kind(r) # "observation"
      /\ reader[r].got \in Ages
      /\ reader[r].fresh => reader[r].since <= reader[r].got
  BY <1>1 DEF ReadsInv, AskersAskOthers, FreshAges, ReadsTypeOK, ReaderRow
<1>3. /\ Answered(r, reader[r].got) \in ReaderRow
      /\ Answered(r, reader[r].got).stage = "turn"
      /\ RowOK(Answered(r, reader[r].got), version')
  BY <1>1, <1>2, AnsweredRow DEF ReadsInv
<1>4. /\ cached' \in [CachedKinds -> Ages]
      /\ cached'["observation"] = cached["observation"]
  BY <1>2 DEF ReadsInv, FinishLookup, ReadsTypeOK, CachedKinds
<1>5. version' \in version .. MaxMoves
  BY <1>1, AgesAreNumbers DEF ReadsInv, ReadsTypeOK
<1> QED
  BY <1>1, <1>3, <1>4, <1>5, OwnStepInv

(* A lookup fails, or the route answers: the request is over.              *)
LEMMA RequestEndsInv ==
  ASSUME ReadsInv, NEW r \in Readers, LookupFails(r) \/ AnswerRead(r)
  PROVE  ReadsInv'
<1>1. /\ reader[r].stage # "waiting"
      /\ reader' = [reader EXCEPT ![r] = Idle]
      /\ UNCHANGED <<caching, cached, task, inflight, newest, cancels>>
  BY DEF LookupFails, AnswerRead
<1>2. version' \in version .. MaxMoves
  BY AgesAreNumbers DEF ReadsInv, LookupFails, AnswerRead, ReadsTypeOK
<1>3. cached' \in [CachedKinds -> Ages]
  BY <1>1 DEF ReadsInv, ReadsTypeOK
<1> QED
  BY <1>1, <1>2, <1>3, IdleRow, OwnStepInv

-----------------------------------------------------------------------------
(* The shared lookup.                                                      *)

(* The ages are numbers.                                                   *)
LEMMA SharedTypes ==
  ASSUME ReadsTypeOK
  PROVE  /\ version \in Nat /\ newest \in Nat /\ Nothing \in Nat /\ version < Nothing
         /\ cached["observation"] \in Nat /\ cached["observation"] <= Nothing
         /\ \A t \in Tasks : task[t].got \in Nat /\ task[t].got <= Nothing
         /\ \A r \in Readers : reader[r].task \in {0} \cup Tasks
         /\ 0 \notin Tasks
  BY AgesAreNumbers DEF ReadsTypeOK, CachedKinds, TaskRow, ReaderRow

(* A request that waits: its row stays one it may have.                    *)
LEMMA WaitingRow ==
  ASSUME ReadsTypeOK, FreshAges, AskersAskOthers,
         NEW r \in Readers, NEW t \in {0} \cup Tasks,
         reader[r].todo # <<>>, Kind(r) = "observation"
  PROVE  LET row == [reader[r] EXCEPT !.stage = "waiting", !.task = t]
         IN  row \in ReaderRow /\ RowOK(row, version) /\ row.stage = "waiting" /\ row.task = t
<1> DEFINE row == [reader[r] EXCEPT !.stage = "waiting", !.task = t]
<1>1. reader[r] \in ReaderRow /\ RowOK(reader[r], version)
  BY RowsOK DEF ReadsTypeOK
<1>2. /\ row.stage = "waiting" /\ row.task = t /\ row.todo = reader[r].todo
      /\ row.fresh = reader[r].fresh /\ row.since = reader[r].since
      /\ row.got = reader[r].got /\ row.shown = reader[r].shown
  BY <1>1 DEF ReaderRow
<1>3. row \in ReaderRow
  BY <1>1 DEF ReaderRow
<1> HIDE DEF row
<1>4. RowOK(row, version)
  BY <1>1, <1>2 DEF RowOK, Kind
<1> QED
  BY <1>2, <1>3, <1>4 DEF row

(* A request joins the lookup in the table: who is woken by it at once is  *)
(* woken with the others (payment_service.py:206-215).                     *)
LEMMA JoinInv ==
  ASSUME ReadsInv, NEW r \in Readers, inflight # 0,
         reader[r].todo # <<>>, Kind(r) = "observation",
         reader' = [reader EXCEPT ![r] =
                      [reader[r] EXCEPT !.stage = "waiting", !.task = inflight]],
         UNCHANGED <<version, caching, cached, task, inflight, newest, cancels>>
  PROVE  ReadsInv'
<1> DEFINE row == [reader[r] EXCEPT !.stage = "waiting", !.task = inflight]
<1>1. /\ row \in ReaderRow /\ RowOK(row, version)
      /\ row.stage = "waiting" /\ row.task = inflight
      /\ inflight \in Tasks
  BY WaitingRow DEF ReadsInv, ReadsTypeOK
<1> HIDE DEF row
<1>2. /\ reader'[r] = row
      /\ \A q \in Readers : q # r => reader'[q] = reader[q]
  BY DEF ReadsInv, ReadsTypeOK, row
<1>3. reader' \in [Readers -> ReaderRow] /\ FreshAges' /\ AskersAskOthers'
  <2>1. /\ reader' = [reader EXCEPT ![r] = row]
        /\ version' \in version .. MaxMoves /\ RowOK(row, version')
    BY <1>1, AgesAreNumbers DEF ReadsInv, ReadsTypeOK, row
  <2> QED
    BY <1>1, <2>1, RowKeeps DEF ReadsInv
<1>4. ReadsTypeOK'
  BY <1>3 DEF ReadsInv, ReadsTypeOK
<1>5. \A q \in Readers : Woken(q)' =>
        \/ Woken(q) /\ reader'[q] = reader[q]
        \/ q = r /\ Ended(inflight)
  BY <1>1, <1>2 DEF Woken, Ended
<1>6. WaitersHaveTasks' /\ TasksHaveAnswers' /\ OnlyTheTableRuns'
  BY <1>1, <1>2 DEF ReadsInv, WaitersHaveTasks, TasksHaveAnswers, OnlyTheTableRuns
<1>7. WokenTogether'
  <2> SUFFICES ASSUME cancels = 0, NEW q \in Readers, Woken(q)'
               PROVE  /\ \A p \in Readers : Woken(p)' => reader'[p].task = reader'[q].task
                      /\ Ended(inflight) => inflight = reader'[q].task
                      /\ \A t \in Tasks : task[t].stage = "running" => task[t].got = Nothing
    BY DEF WokenTogether, Ended
  <2>1. Ended(inflight) => \A t \in Tasks : task[t].stage # "running"
    BY DEF ReadsInv, OnlyTheTableRuns, Ended
  <2>2. Ended(inflight) => \A p \in Readers : Woken(p)' => reader'[p].task = inflight
    BY <1>1, <1>2, <1>5 DEF ReadsInv, WokenTogether
  <2>3. CASE Ended(inflight)
    BY <2>1, <2>2, <2>3
  <2>4. CASE ~Ended(inflight)
    BY <1>5, <2>4 DEF ReadsInv, WokenTogether
  <2> QED
    BY <2>3, <2>4
<1>8. AnswersAreNoOlder'
  <2>1. ASSUME cancels = 0, NEW q \in Readers, Woken(q)'
        PROVE  AtLeast(task[reader'[q].task].got)
    BY <1>1, <1>2, <1>5, <2>1 DEF ReadsInv, AnswersAreNoOlder
  <2> QED
    BY <2>1 DEF ReadsInv, AnswersAreNoOlder, AtLeast
<1> QED
  BY <1>3, <1>4, <1>6, <1>7, <1>8 DEF ReadsInv

(* A request starts a lookup of its own and puts it into the empty table   *)
(* (payment_service.py:210-214).                                           *)
LEMMA StartInv ==
  ASSUME ReadsInv, NEW r \in Readers, NEW t \in Tasks, inflight = 0,
         reader[r].stage # "waiting",
         reader[r].todo # <<>>, Kind(r) = "observation",
         task[t] = NoTask, \A q \in Readers : reader[q].task # t,
         task' = [task EXCEPT ![t] = [task[t] EXCEPT !.stage = "running"]],
         inflight' = t,
         reader' = [reader EXCEPT ![r] =
                      [reader[r] EXCEPT !.stage = "waiting", !.task = t]],
         UNCHANGED <<version, caching, cached, newest, cancels>>
  PROVE  ReadsInv'
<1> DEFINE row == [reader[r] EXCEPT !.stage = "waiting", !.task = t]
           new == [task[t] EXCEPT !.stage = "running"]
<1>1. /\ row \in ReaderRow /\ RowOK(row, version)
      /\ row.stage = "waiting" /\ row.task = t
  BY WaitingRow DEF ReadsInv
<1>2. new \in TaskRow /\ new.stage = "running" /\ new.got = Nothing
  BY DEF NoTask, ReadsInv, ReadsTypeOK, TaskRow
<1> HIDE DEF row, new
<1>3. /\ reader'[r] = row
      /\ \A q \in Readers : q # r => reader'[q] = reader[q]
  BY DEF ReadsInv, ReadsTypeOK, row
<1>4. /\ task'[t] = new
      /\ \A u \in Tasks : u # t => task'[u] = task[u]
      /\ task' \in [Tasks -> TaskRow]
  BY <1>2 DEF ReadsInv, ReadsTypeOK, new
<1>5. reader' \in [Readers -> ReaderRow] /\ FreshAges' /\ AskersAskOthers'
  <2>1. /\ reader' = [reader EXCEPT ![r] = row]
        /\ version' \in version .. MaxMoves /\ RowOK(row, version')
    BY <1>1, AgesAreNumbers DEF ReadsInv, ReadsTypeOK, row
  <2> QED
    BY <1>1, <2>1, RowKeeps DEF ReadsInv
<1>6. ReadsTypeOK'
  BY <1>4, <1>5 DEF ReadsInv, ReadsTypeOK
<1>7. \A q \in Readers : Woken(q)' =>
        /\ q # r /\ Woken(q) /\ reader'[q] = reader[q]
        /\ reader[q].task # t /\ reader[q].task \in Tasks
        /\ task'[reader[q].task] = task[reader[q].task]
  BY <1>1, <1>2, <1>3, <1>4, SharedTypes DEF Woken, ReadsInv, WaitersHaveTasks
<1>8. WaitersHaveTasks' /\ TasksHaveAnswers'
  BY <1>1, <1>2, <1>3, <1>4 DEF ReadsInv, WaitersHaveTasks, TasksHaveAnswers
<1>9. OnlyTheTableRuns'
  BY <1>4, SharedTypes DEF ReadsInv, OnlyTheTableRuns
<1>10. WokenTogether'
  <2> SUFFICES ASSUME cancels = 0, NEW q \in Readers, Woken(q)'
               PROVE  /\ \A p \in Readers : Woken(p)' => reader'[p].task = reader'[q].task
                      /\ \A u \in Tasks : task'[u].stage = "running" => task'[u].got = Nothing
    BY <1>2, <1>4 DEF WokenTogether, Ended
  <2>1. Woken(q) /\ reader'[q] = reader[q]
    BY <1>7
  <2>2. \A p \in Readers : Woken(p)' => reader'[p].task = reader'[q].task
    BY <1>7, <2>1 DEF ReadsInv, WokenTogether
  <2>3. \A u \in Tasks : task'[u].stage = "running" => task'[u].got = Nothing
    BY <1>2, <1>4, <2>1 DEF ReadsInv, WokenTogether
  <2> QED
    BY <2>2, <2>3
<1>11. AnswersAreNoOlder'
  <2>1. AtLeast(Nothing)
    BY SharedTypes DEF ReadsInv, AnswersAreNoOlder, AtLeast
  <2>2. ASSUME cancels = 0, NEW q \in Readers, Woken(q)'
        PROVE  AtLeast(task'[reader'[q].task].got)
    BY <1>7, <2>2 DEF ReadsInv, AnswersAreNoOlder
  <2> QED
    BY <1>2, <1>4, <2>1, <2>2 DEF ReadsInv, AnswersAreNoOlder, AtLeast
<1> QED
  BY <1>5, <1>6, <1>8, <1>9, <1>10, <1>11 DEF ReadsInv

LEMMA AwaitObservationInv ==
  ASSUME ReadsInv, NEW r \in Readers, AwaitObservation(r)
  PROVE  ReadsInv'
<1>1. /\ reader[r].stage = "turn" /\ reader[r].todo # <<>> /\ Kind(r) = "observation"
      /\ UNCHANGED <<version, caching, cached, newest, cancels>>
  BY DEF AwaitObservation
<1>2. CASE inflight # 0
  BY <1>1, <1>2, JoinInv DEF AwaitObservation, Joined
<1>3. CASE inflight = 0
  <2>1. PICK t \in Tasks :
          /\ task[t] = NoTask
          /\ \A q \in Readers : reader[q].task # t
          /\ task' = [task EXCEPT ![t].stage = "running"]
          /\ inflight' = t
          /\ reader' = [reader EXCEPT ![r].stage = "waiting", ![r].task = t]
    BY <1>3 DEF AwaitObservation, Joined
  <2>2. /\ task' = [task EXCEPT ![t] = [task[t] EXCEPT !.stage = "running"]]
        /\ reader' = [reader EXCEPT ![r] =
                        [reader[r] EXCEPT !.stage = "waiting", !.task = t]]
    BY <2>1 DEF ReadsInv, ReadsTypeOK
  <2> QED
    BY <1>1, <1>3, <2>1, <2>2, StartInv
<1> QED
  BY <1>2, <1>3

(* A step of the lookups themselves, while nobody is woken: one of them    *)
(* reads what the server holds now, ends or is forgotten                   *)
(* (payment_service.py:165-188).                                           *)
LEMMA TaskStepInv ==
  ASSUME ReadsInv, NEW t \in Tasks, NEW row \in TaskRow,
         task' = [task EXCEPT ![t] = row],
         UNCHANGED <<version, caching, cached, reader, inflight, newest, cancels>>,
         NobodyWoken,
         \/ row.stage = "running" /\ task[t].stage = "running" /\ row.got = version
         \/ row.stage = "done" /\ task[t].stage = "running"
              /\ row.got = task[t].got /\ row.got # Nothing
         \/ row.stage = "failed" /\ task[t].stage = "running" /\ row.got = Nothing
  PROVE  ReadsInv'
<1>1. /\ task'[t] = row
      /\ \A u \in Tasks : u # t => task'[u] = task[u]
      /\ task' \in [Tasks -> TaskRow]
  BY DEF ReadsInv, ReadsTypeOK
<1>2. ReadsTypeOK' /\ FreshAges' /\ AskersAskOthers'
  BY <1>1 DEF ReadsInv, ReadsTypeOK, FreshAges, AskersAskOthers, Kind
<1>3. WaitersHaveTasks' /\ TasksHaveAnswers' /\ OnlyTheTableRuns'
  BY <1>1, SharedTypes
     DEF ReadsInv, WaitersHaveTasks, TasksHaveAnswers, OnlyTheTableRuns
<1>4. \A q \in Readers : Woken(q)' => reader[q].task = t /\ row.stage # "running"
  BY <1>1 DEF NobodyWoken, Woken, ReadsInv, WaitersHaveTasks
<1>5. WokenTogether'
  <2> SUFFICES ASSUME cancels = 0, NEW q \in Readers, Woken(q)'
               PROVE  /\ \A p \in Readers : Woken(p)' => reader[p].task = reader[q].task
                      /\ inflight = reader[q].task
                      /\ \A u \in Tasks : task'[u].stage = "running" => task'[u].got = Nothing
    BY DEF WokenTogether
  <2>1. inflight = t /\ reader[q].task = t /\ row.stage # "running"
    BY <1>4 DEF ReadsInv, OnlyTheTableRuns
  <2>2. \A u \in Tasks : task'[u].stage # "running"
    BY <1>1, <2>1 DEF ReadsInv, OnlyTheTableRuns
  <2> QED
    BY <1>4, <2>1, <2>2
<1>6. AnswersAreNoOlder'
  <2>1. /\ AtLeast(Nothing)
        /\ AtLeast(version)
    BY SharedTypes DEF ReadsInv, AnswersAreNoOlder, AtLeast
  <2>2. row.got = Nothing \/ row.got <= version
    BY SharedTypes DEF ReadsInv, AnswersAreNoOlder
  <2>3. cancels = 0 => AtLeast(row.got)
    <3>1. cancels = 0 /\ task[t].stage = "running" => AtLeast(task[t].got)
      BY SharedTypes DEF ReadsInv, AnswersAreNoOlder, OnlyTheTableRuns
    <3> QED
      BY <2>1, <3>1
  <2>4. ASSUME cancels = 0, inflight # 0
        PROVE  AtLeast(task'[inflight].got)
    BY <1>1, <2>3, <2>4 DEF ReadsInv, AnswersAreNoOlder, ReadsTypeOK
  <2>5. ASSUME cancels = 0, NEW q \in Readers, Woken(q)'
        PROVE  AtLeast(task'[reader[q].task].got)
    BY <1>1, <1>4, <2>3, <2>5
  <2> QED
    BY <1>1, <2>2, <2>4, <2>5 DEF ReadsInv, AnswersAreNoOlder, AtLeast
<1> QED
  BY <1>2, <1>3, <1>5, <1>6 DEF ReadsInv

LEMMA TaskAskInv ==
  ASSUME ReadsInv, NEW t \in Tasks, TaskAsk(t)
  PROVE  ReadsInv'
<1> DEFINE row == [task[t] EXCEPT !.got = version]
<1>1. row \in TaskRow /\ row.stage = "running" /\ row.got = version
  BY AgesAreNumbers DEF TaskAsk, ReadsInv, ReadsTypeOK, TaskRow
<1>2. /\ task' = [task EXCEPT ![t] = row]
      /\ task[t].stage = "running" /\ NobodyWoken
      /\ UNCHANGED <<version, caching, cached, reader, inflight, newest, cancels>>
  BY DEF TaskAsk
<1> HIDE DEF row
<1> QED
  BY <1>1, <1>2, TaskStepInv

LEMMA TaskEndsInv ==
  ASSUME ReadsInv, NEW t \in Tasks, TaskEnds(t)
  PROVE  ReadsInv'
<1>1. /\ task[t].stage = "running" /\ NobodyWoken
      /\ UNCHANGED <<version, caching, cached, reader, inflight, newest, cancels>>
  BY DEF TaskEnds
<1>2. CASE task[t].got # Nothing /\ task' = [task EXCEPT ![t].stage = "done"]
  <2> DEFINE row == [task[t] EXCEPT !.stage = "done"]
  <2>1. row \in TaskRow /\ row.stage = "done" /\ row.got = task[t].got
    BY DEF ReadsInv, ReadsTypeOK, TaskRow
  <2>2. task' = [task EXCEPT ![t] = row]
    BY <1>2
  <2> HIDE DEF row
  <2> QED
    BY <1>1, <1>2, <2>1, <2>2, TaskStepInv
<1>3. CASE task' = [task EXCEPT ![t] = [NoTask EXCEPT !.stage = "failed"]]
  <2> DEFINE row == [NoTask EXCEPT !.stage = "failed"]
  <2>1. row \in TaskRow /\ row.stage = "failed" /\ row.got = Nothing
    BY AgesAreNumbers DEF NoTask, TaskRow
  <2>2. task' = [task EXCEPT ![t] = row]
    BY <1>3
  <2> HIDE DEF row
  <2> QED
    BY <1>1, <2>1, <2>2, TaskStepInv
<1> QED
  BY <1>2, <1>3 DEF TaskEnds

(* A lookup nobody holds goes.                                             *)
LEMMA TaskForgottenInv ==
  ASSUME ReadsInv, NEW t \in Tasks, TaskForgotten(t)
  PROVE  ReadsInv'
<1>1. /\ task[t].stage \in {"done", "failed"} /\ inflight # t
      /\ \A r \in Readers : reader[r].task # t
      /\ task' = [task EXCEPT ![t] = NoTask]
      /\ UNCHANGED <<version, caching, cached, reader, inflight, newest, cancels>>
  BY DEF TaskForgotten
<1>2. NoTask \in TaskRow /\ NoTask.stage = "none" /\ NoTask.got = Nothing
  BY AgesAreNumbers DEF NoTask, TaskRow
<1>3. /\ task'[t] = NoTask
      /\ \A u \in Tasks : u # t => task'[u] = task[u]
      /\ task' \in [Tasks -> TaskRow]
  BY <1>1, <1>2 DEF ReadsInv, ReadsTypeOK
<1>4. ReadsTypeOK' /\ FreshAges' /\ AskersAskOthers'
  BY <1>1, <1>3 DEF ReadsInv, ReadsTypeOK, FreshAges, AskersAskOthers, Kind
<1>5. WaitersHaveTasks' /\ TasksHaveAnswers' /\ OnlyTheTableRuns'
  BY <1>1, <1>2, <1>3
     DEF ReadsInv, ReadsTypeOK, WaitersHaveTasks, TasksHaveAnswers, OnlyTheTableRuns
<1>6. \A q \in Readers : reader[q].stage = "waiting" =>
        task'[reader[q].task] = task[reader[q].task]
  BY <1>1, <1>3 DEF ReadsInv, WaitersHaveTasks
<1>7. \A q \in Readers : Woken(q)' <=> Woken(q)
  BY <1>1, <1>6 DEF Woken
<1>8. inflight # 0 => task'[inflight] = task[inflight]
  BY <1>1, <1>3 DEF ReadsInv, ReadsTypeOK
<1>9. WokenTogether'
  BY <1>1, <1>2, <1>3, <1>7, <1>8 DEF ReadsInv, WokenTogether, Ended
<1>10. AnswersAreNoOlder'
  <2>1. ASSUME cancels = 0, NEW q \in Readers, Woken(q)'
        PROVE  AtLeast(task'[reader[q].task].got)
    BY <1>6, <1>7, <2>1 DEF ReadsInv, AnswersAreNoOlder, Woken
  <2> QED
    BY <1>1, <1>2, <1>3, <1>8, <2>1 DEF ReadsInv, AnswersAreNoOlder, AtLeast
<1> QED
  BY <1>4, <1>5, <1>9, <1>10 DEF ReadsInv

(* A waiter leaves, woken or cancelled, and takes the entry of the table   *)
(* with it, if that is the lookup it waited for                            *)
(* (payment_service.py:216-220): what is then kept and reported is no      *)
(* older than before and no newer than what the other waiters are given.   *)
LEMMA WaiterLeavesInv ==
  ASSUME ReadsInv, NEW r \in Readers, NEW row \in ReaderRow, RowOK(row, version),
         reader[r].stage = "waiting", row.stage # "waiting",
         reader' = [reader EXCEPT ![r] = row],
         inflight' = Removed(reader[r].task),
         UNCHANGED <<version, caching, task>>,
         \/ /\ cancels' = cancels + 1 /\ UNCHANGED <<cached, newest>>
         \/ /\ Woken(r) /\ UNCHANGED <<cached, newest, cancels>>
         \/ /\ Woken(r) /\ task[reader[r].task].got # Nothing
            /\ newest' = task[reader[r].task].got
            /\ cached' = IF caching
                           THEN [cached EXCEPT !["observation"] = task[reader[r].task].got]
                           ELSE cached
            /\ UNCHANGED cancels
  PROVE  ReadsInv'
<1> DEFINE t == reader[r].task
<1>1. /\ reader'[r] = row
      /\ \A q \in Readers : q # r => reader'[q] = reader[q]
      /\ t \in Tasks /\ task[t].stage # "none"
  BY DEF ReadsInv, ReadsTypeOK, WaitersHaveTasks
<1>2. reader' \in [Readers -> ReaderRow] /\ FreshAges' /\ AskersAskOthers'
  <2>1. version' \in version .. MaxMoves /\ RowOK(row, version')
    BY AgesAreNumbers DEF ReadsInv, ReadsTypeOK
  <2> QED
    BY <2>1, RowKeeps DEF ReadsInv
<1>3. /\ inflight' \in {0, inflight} /\ (inflight' # 0 => inflight' # t)
  BY <1>1, SharedTypes DEF Removed, ReadsInv
<1>4. ReadsTypeOK'
  BY <1>1, <1>2, <1>3 DEF ReadsInv, ReadsTypeOK, TaskRow, CachedKinds
<1>5. WaitersHaveTasks' /\ TasksHaveAnswers'
  BY <1>1, <1>3 DEF ReadsInv, WaitersHaveTasks, TasksHaveAnswers
<1>6. cancels' = 0 => cancels = 0 /\ Woken(r) /\ UNCHANGED cancels
  BY DEF ReadsInv, ReadsTypeOK
<1>7. \A q \in Readers : Woken(q)' => q # r /\ Woken(q) /\ reader'[q] = reader[q]
  BY <1>1 DEF Woken
<1>8. OnlyTheTableRuns'
  BY <1>6 DEF ReadsInv, OnlyTheTableRuns, Removed, Woken
<1>9. WokenTogether'
  BY <1>3, <1>6, <1>7 DEF ReadsInv, WokenTogether, Ended
<1>10. AnswersAreNoOlder'
  <2>1. CASE UNCHANGED <<cached, newest>>
    BY <1>3, <1>6, <1>7, <2>1 DEF ReadsInv, AnswersAreNoOlder, AtLeast
  <2>2. CASE /\ Woken(r) /\ task[t].got # Nothing /\ newest' = task[t].got
             /\ cached' = IF caching THEN [cached EXCEPT !["observation"] = task[t].got]
                           ELSE cached
             /\ UNCHANGED cancels
    <3>1. /\ task[t].got \in Nat /\ task[t].got <= version
          /\ cached'["observation"] = IF caching THEN task[t].got ELSE Nothing
      BY <1>1, <2>2, SharedTypes
         DEF ReadsInv, ReadsTypeOK, AnswersAreNoOlder, CachedKinds
    <3>2. newest' <= version /\ newest' <= cached'["observation"]
      BY <2>2, <3>1, SharedTypes DEF ReadsInv
    <3>3. ASSUME NEW age \in Nat, task[t].got <= age
          PROVE  AtLeast(age)'
      BY <2>2, <3>1, <3>3 DEF AtLeast
    <3>4. ASSUME cancels = 0, inflight' # 0
          PROVE  AtLeast(task[inflight].got)'
      <4>1. inflight # 0 /\ ~Ended(inflight)
        BY <1>3, <2>2, <3>4 DEF ReadsInv, WokenTogether
      <4>2. /\ inflight \in Tasks
            /\ task[inflight].stage = "running"
        BY <4>1 DEF ReadsInv, ReadsTypeOK, TaskRow, TasksHaveAnswers, Ended
      <4>3. task[inflight].got = Nothing
        BY <2>2, <3>4, <4>2 DEF ReadsInv, WokenTogether
      <4> QED
        BY <1>3, <3>1, <3>3, <3>4, <4>3, SharedTypes DEF ReadsInv
    <3>5. ASSUME cancels = 0, NEW q \in Readers, Woken(q)'
          PROVE  AtLeast(task[reader[q].task].got)'
      <4>1. reader'[q] = reader[q] /\ reader[q].task = t
        BY <1>7, <2>2, <3>5 DEF ReadsInv, WokenTogether
      <4> QED
        BY <2>2, <3>1, <4>1 DEF AtLeast
    <3> QED
      BY <2>2, <3>1, <3>2, <3>4, <3>5, SharedTypes DEF ReadsInv, AnswersAreNoOlder
  <2> QED
    BY <2>1, <2>2
<1> QED
  BY <1>2, <1>4, <1>5, <1>8, <1>9, <1>10 DEF ReadsInv

LEMMA ResumeWaiterInv ==
  ASSUME ReadsInv, NEW r \in Readers, ResumeWaiter(r)
  PROVE  ReadsInv'
<1> DEFINE t == reader[r].task
<1>1. /\ Woken(r) /\ reader[r].stage = "waiting" /\ task[t].stage \in {"done", "failed"}
      /\ t \in Tasks
      /\ inflight' = Removed(t)
      /\ UNCHANGED <<version, caching, task, cancels>>
  BY DEF ResumeWaiter, Woken, ReadsInv, WaitersHaveTasks
<1>2. CASE task[t].stage = "done"
  <2> DEFINE row == Answered(r, task[t].got)
  <2>1. /\ cached' = IF caching THEN [cached EXCEPT !["observation"] = task[t].got] ELSE cached
        /\ reader' = [reader EXCEPT ![r] = row]
        /\ newest' = task[t].got
    BY <1>2 DEF ResumeWaiter, Reported
  <2>2. task[t].got \in Ages /\ task[t].got # Nothing
    BY <1>1, <1>2 DEF ReadsInv, ReadsTypeOK, TaskRow, TasksHaveAnswers
  <2>3. reader[r].todo # <<>> /\ ~reader[r].fresh
    <3>1. reader[r].todo # <<>> /\ Head(reader[r].todo) = "observation"
      BY <1>1 DEF ReadsInv, AskersAskOthers, Kind
    <3>2. reader[r].todo \in Seq(Lookups)
      BY DEF ReadsInv, ReadsTypeOK, ReaderRow
    <3>3. 1 \in 1 .. Len(reader[r].todo) /\ reader[r].todo[1] = "observation"
      BY <3>1, <3>2
    <3> QED
      BY <3>1, <3>3 DEF ReadsInv, FreshAges
  <2>4. row \in ReaderRow /\ row.stage = "turn" /\ RowOK(row, version)
    BY <2>2, <2>3, AnsweredRow DEF ReadsInv
  <2> HIDE DEF row
  <2> QED
    BY <1>1, <2>1, <2>2, <2>4, WaiterLeavesInv
<1>3. CASE task[t].stage = "failed"
  <2>1. reader' = [reader EXCEPT ![r] = Idle] /\ UNCHANGED <<cached, newest>>
    BY <1>3 DEF ResumeWaiter
  <2>2. Idle \in ReaderRow /\ Idle.stage = "idle" /\ RowOK(Idle, version)
    BY IdleRow, <1>1
  <2> QED
    BY <1>1, <2>1, <2>2, WaiterLeavesInv
<1> QED
  BY <1>1, <1>2, <1>3

LEMMA CancelWaiterInv ==
  ASSUME ReadsInv, NEW r \in Readers, CancelWaiter(r)
  PROVE  ReadsInv'
<1>1. /\ reader[r].stage = "waiting" /\ cancels' = cancels + 1
      /\ inflight' = Removed(reader[r].task)
      /\ reader' = [reader EXCEPT ![r] = Idle]
      /\ UNCHANGED <<version, caching, cached, task, newest>>
  BY DEF CancelWaiter
<1>2. Idle \in ReaderRow /\ Idle.stage = "idle" /\ RowOK(Idle, version)
  BY IdleRow, <1>1
<1> QED
  BY <1>1, <1>2, WaiterLeavesInv

-----------------------------------------------------------------------------
(* An entry runs out, or a transaction touches the address.                *)
LEMMA SurroundingsInv ==
  ASSUME ReadsInv,
         version' \in version .. MaxMoves,
         cached' \in [CachedKinds -> Ages],
         cached'["observation"] \in {cached["observation"], Nothing},
         UNCHANGED <<caching, reader, task, inflight, newest, cancels>>
  PROVE  ReadsInv'
<1>1. version' \in Nat /\ version <= version' /\ version' < Nothing
  BY AgesAreNumbers DEF ReadsInv, ReadsTypeOK
<1>2. ReadsTypeOK'
  BY AgesAreNumbers DEF ReadsInv, ReadsTypeOK
<1>3. FreshAges' /\ AskersAskOthers'
  <2>1. \A r \in Readers : reader[r].since \in Nat
    BY AgesAreNumbers DEF ReadsInv, ReadsTypeOK, ReaderRow
  <2> QED
    BY <1>1, <2>1, SharedTypes DEF ReadsInv, FreshAges, AskersAskOthers, Kind
<1>4. /\ WaitersHaveTasks' /\ TasksHaveAnswers' /\ OnlyTheTableRuns' /\ WokenTogether'
  BY DEF ReadsInv, WaitersHaveTasks, TasksHaveAnswers, OnlyTheTableRuns,
     WokenTogether, Woken, Ended
<1>5. AnswersAreNoOlder'
  <2>1. \A age : AtLeast(age) => AtLeast(age)'
    BY DEF AtLeast
  <2>2. /\ newest <= version' /\ newest <= Nothing
        /\ \A t \in Tasks : task[t].got = Nothing \/ task[t].got <= version'
        /\ cached["observation"] = Nothing \/ cached["observation"] <= version'
    BY <1>1, SharedTypes DEF ReadsInv, AnswersAreNoOlder
  <2>3. cancels = 0 =>
          /\ inflight # 0 => AtLeast(task[inflight].got)'
          /\ \A r \in Readers : Woken(r)' => AtLeast(task[reader[r].task].got)'
    BY <2>1 DEF ReadsInv, AnswersAreNoOlder, Woken, AtLeast
  <2> QED
    BY <2>2, <2>3 DEF ReadsInv, AnswersAreNoOlder
<1> QED
  BY <1>2, <1>3, <1>4, <1>5 DEF ReadsInv

(* Every step keeps the invariant.                                         *)
LEMMA ReadsStepInv == ReadsInv /\ [ReadsNext]_readVars => ReadsInv'
<1> SUFFICES ASSUME ReadsInv, [ReadsNext]_readVars PROVE ReadsInv'
  OBVIOUS
<1>1. CASE \E k \in CachedKinds : EntryRunsOut(k)
  <2>1. /\ version' \in version .. MaxMoves
        /\ cached' \in [CachedKinds -> Ages]
        /\ cached'["observation"] \in {cached["observation"], Nothing}
        /\ UNCHANGED <<caching, reader, task, inflight, newest, cancels>>
    BY <1>1, AgesAreNumbers DEF EntryRunsOut, ReadsInv, ReadsTypeOK, CachedKinds
  <2> QED
    BY <2>1, SurroundingsInv
<1>2. CASE AddressMoves \/ UNCHANGED readVars
  <2>1. /\ version' \in version .. MaxMoves
        /\ UNCHANGED <<cached, caching, reader, task, inflight, newest, cancels>>
    BY <1>2, AgesAreNumbers DEF AddressMoves, readVars, ReadsInv, ReadsTypeOK
  <2>2. cached' \in [CachedKinds -> Ages]
    BY <2>1 DEF ReadsInv, ReadsTypeOK
  <2> QED
    BY <2>1, <2>2, SurroundingsInv
<1>3. ASSUME NEW r \in Readers,
             \/ \E route \in DOMAIN ROUTES, fresh \in BOOLEAN : BeginRead(r, route, fresh)
             \/ ServeFromCache(r) \/ StartLookup(r) \/ Ask(r) \/ FinishLookup(r)
             \/ LookupFails(r) \/ AwaitObservation(r) \/ ResumeWaiter(r)
             \/ CancelWaiter(r) \/ AnswerRead(r)
      PROVE  ReadsInv'
  BY <1>3, BeginReadInv, ServeFromCacheInv, StartLookupInv, AskInv, FinishLookupInv,
     RequestEndsInv, AwaitObservationInv, ResumeWaiterInv, CancelWaiterInv
<1>4. ASSUME NEW t \in Tasks, TaskAsk(t) \/ TaskEnds(t) \/ TaskForgotten(t)
      PROVE  ReadsInv'
  BY <1>4, TaskAskInv, TaskEndsInv, TaskForgottenInv
<1> QED
  BY <1>1, <1>2, <1>3, <1>4 DEF ReadsNext, ReadsNextOn

-----------------------------------------------------------------------------
(* FreshReadsAreFresh: what a request that asks for fresh data is shown    *)
(* was read from the server after it arrived, whatever the caches hold     *)
(* (address_service.py:206-243).                                           *)
THEOREM FreshIsFresh == ReadsSpec => []FreshReadsAreFresh
<1>1. ReadsInv => FreshReadsAreFresh
  <2>1. ReadsTypeOK => \A r \in Readers : reader[r].since \in Nat /\ reader[r].shown \in Nat
    BY AgesAreNumbers DEF ReadsTypeOK, ReaderRow
  <2> QED
    BY <2>1 DEF ReadsInv, FreshAges, FreshReadsAreFresh
<1> QED
  BY <1>1, ReadsInitInv, ReadsStepInv, PTL DEF ReadsSpec

(* SingleFlight: as long as no waiter is cancelled the address is looked   *)
(* up by one session at a time (payment_service.py:206-220).               *)
THEOREM OneLookupAtATime == ReadsSpec => []SingleFlight
<1>1. ReadsInv => SingleFlight
  <2> SUFFICES ASSUME ReadsInv, cancels = 0
               PROVE  Cardinality({t \in Tasks : task[t].stage = "running"}) <= 1
    BY DEF SingleFlight
  <2> DEFINE running == {t \in Tasks : task[t].stage = "running"}
  <2>1. running \subseteq {inflight}
    BY DEF ReadsInv, OnlyTheTableRuns
  <2>2. IsFiniteSet({inflight}) /\ Cardinality({inflight}) = 1
    BY FS_Singleton
  <2>3. Cardinality(running) <= Cardinality({inflight})
    BY <2>1, <2>2, FS_Subset
  <2> QED
    BY <2>2, <2>3
<1> QED
  BY <1>1, ReadsInitInv, ReadsStepInv, PTL DEF ReadsSpec

(* MonitorNeverGoesBack: as long as no waiter is cancelled the monitor     *)
(* reports nothing older than it has reported, though requests are served  *)
(* from the cache, wait for a shared lookup, and fill the cache in any     *)
(* order (payment_service.py:190-220).                                     *)
THEOREM MonitorIsMonotone == ReadsSpec => MonitorNeverGoesBack
<1>1. ReadsInv /\ [ReadsNext]_readVars => [cancels = 0 => newest' >= newest]_newest
  <2> SUFFICES ASSUME ReadsInv, [ReadsNext]_readVars, cancels = 0, newest' # newest
               PROVE  newest' >= newest
    OBVIOUS
  <2>1. PICK r \in Readers : ServeFromCache(r) \/ ResumeWaiter(r)
    BY DEF ReadsNext, ReadsNextOn, readVars, BeginRead, StartLookup, Ask, FinishLookup,
       LookupFails, AwaitObservation, CancelWaiter, AnswerRead, TaskAsk, TaskEnds,
       TaskForgotten, EntryRunsOut, AddressMoves
  <2>2. CASE ServeFromCache(r)
    BY <2>2, SharedTypes DEF ServeFromCache, Reported, ReadsInv, AnswersAreNoOlder
  <2>3. CASE ResumeWaiter(r)
    <3>1. Woken(r) /\ newest' = task[reader[r].task].got
      BY <2>3 DEF ResumeWaiter, Reported
    <3>2. reader[r].task \in Tasks /\ AtLeast(task[reader[r].task].got)
      BY <3>1 DEF ReadsInv, AnswersAreNoOlder, WaitersHaveTasks, Woken
    <3> QED
      BY <3>1, <3>2, SharedTypes DEF ReadsInv, AtLeast
  <2> QED
    BY <2>1, <2>2, <2>3
<1> QED
  BY <1>1, ReadsInitInv, ReadsStepInv, PTL DEF ReadsSpec, MonitorNeverGoesBack
=============================================================================
