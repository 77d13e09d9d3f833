--------------------------- MODULE ElectrumXRequests ---------------------------
(***************************************************************************)
(* ElectrumXSubscriptionClient: one connection, requests matched with      *)
(* their answers by number, one reader task.  The watcher is its only user *)
(* today; the client is written for any number of concurrent callers, and  *)
(* so it is modelled.                                                      *)
(*                                                                         *)
(* A caller that has a request waits for the write lock, for its message   *)
(* to be drained, and for its future.  The server answers in any order, or *)
(* never, and it may answer after the caller has given up.                 *)
(***************************************************************************)
EXTENDS Naturals, FiniteSets

CONSTANTS Callers,      \* tasks that use the client
          MaxRequests   \* bound: requests

Nobody == "nobody"
Waiting == [is |-> "waiting", of |-> 0]
Failed == [is |-> "failed", of |-> 0]
Answer(q) == [is |-> "answer", of |-> q]

VARIABLES session,     \* "none", "up", "lost" (no reader any more), "closing"
          requestId,   \* self._request_id
          pending,     \* self._pending: a set of request numbers and their callers
          lock,        \* who holds the write lock
          callers,     \* what each caller does: step, request number, question, future
          wire,        \* questions the server has and has not answered
          inbox,       \* answers on their way to the reader
          asked        \* history: the number of questions so far

requestVars == <<session, requestId, pending, lock, callers, wire, inbox, asked>>

AtRest == [step |-> "idle", id |-> 0, question |-> 0, future |-> Failed, first |-> FALSE]

RequestsInit ==
  /\ session = "none"
  /\ requestId = 0
  /\ pending = {}
  /\ lock = Nobody
  /\ callers = [c \in Callers |-> AtRest]
  /\ wire = {}
  /\ inbox = {}
  /\ asked = 0

-----------------------------------------------------------------------------
connected == session = "up"

(* Slip: the smallest number that is not pending.                          *)
FreeId ==
  CHOOSE n \in 1..(Cardinality(pending) + 1) :
    /\ \A p \in pending : p.id # n
    /\ \A m \in 1..(n - 1) : \E p \in pending : p.id = m

NextId == requestId + 1

(* The synchronous start of _request_connected; the question is a ghost    *)
(* that tells one request from another.                                    *)
Register(c, first) ==
  /\ asked < MaxRequests
  /\ asked' = asked + 1
  /\ requestId' = NextId
  /\ pending' = { p \in pending : p.id # NextId } \cup {[id |-> NextId, caller |-> c]}
  /\ callers' = [callers EXCEPT ![c] =
       [step |-> "lock", id |-> NextId, question |-> asked + 1,
        future |-> Waiting, first |-> first]]

(* request.                                                                *)
Request(c) ==
  /\ connected
  /\ callers[c].step = "idle"
  /\ Register(c, FALSE)
  /\ UNCHANGED <<session, lock, wire, inbox>>

(* connect, when nothing of an earlier session is left: the connection is  *)
(* opened and server.version asked for before anything else can run.       *)
Open(c) ==
  /\ session = "none"
  /\ callers[c].step = "idle"
  /\ session' = "up"
  /\ inbox' = {} /\ wire' = {}
  /\ Register(c, TRUE)
  /\ UNCHANGED lock

(* The lock is free: write, unless the writer has gone.                    *)
Write(c) ==
  /\ callers[c].step = "lock" /\ lock = Nobody
  /\ session # "none"
  /\ lock' = c
  /\ callers' = [callers EXCEPT ![c].step = "drain"]
  /\ wire' = wire \cup {[id |-> callers[c].id, question |-> callers[c].question]}
  /\ UNCHANGED <<session, requestId, pending, inbox, asked>>

Drained(c) ==
  /\ callers[c].step = "drain"
  /\ lock' = Nobody
  /\ callers' = [callers EXCEPT ![c].step = "wait"]
  /\ UNCHANGED <<session, requestId, pending, wire, inbox, asked>>

(* The finally clause: the number is taken out of the table.  A version    *)
(* request that fails closes the session it was to open.                   *)
Leave(c, next) ==
  /\ pending' = { p \in pending : p.id # callers[c].id }
  /\ callers' = [callers EXCEPT ![c] =
       IF next = "close" THEN [AtRest EXCEPT !.step = "close"] ELSE AtRest]
  /\ UNCHANGED <<session, requestId, wire, inbox, asked>>

AfterFailure(c) == IF callers[c].first THEN "close" ELSE "idle"

(* The writer has gone, the drain or the answer took too long.             *)
GiveUpRequest(c) ==
  \/ /\ callers[c].step = "lock" /\ lock = Nobody /\ session = "none"
     /\ Leave(c, AfterFailure(c)) /\ UNCHANGED lock
  \/ /\ callers[c].step = "drain"
     /\ Leave(c, AfterFailure(c)) /\ lock' = Nobody
  \/ /\ callers[c].step = "wait" /\ callers[c].future = Waiting
     /\ Leave(c, AfterFailure(c)) /\ UNCHANGED lock

(* The future has an answer or an exception.                               *)
Return(c) ==
  /\ callers[c].step = "wait" /\ callers[c].future # Waiting
  /\ Leave(c, IF callers[c].future = Failed THEN AfterFailure(c) ELSE "idle")
  /\ UNCHANGED lock

-----------------------------------------------------------------------------
(* The server.                                                             *)
ServerReplies ==
  /\ connected
  /\ \E q \in wire : wire' = wire \ {q} /\ inbox' = inbox \cup {q}
  /\ UNCHANGED <<session, requestId, pending, lock, callers, asked>>

(* What is done to the futures still waiting under some numbers.          *)
Settle(ids, future) ==
  callers' = [c \in Callers |->
    IF callers[c].future = Waiting
       /\ [id |-> callers[c].id, caller |-> c] \in pending /\ callers[c].id \in ids
    THEN [callers[c] EXCEPT !.future = future] ELSE callers[c]]

(* _reader_loop: an answer nobody waits for is dropped.                    *)
ReadAnswer ==
  /\ connected
  /\ \E a \in inbox :
       /\ inbox' = inbox \ {a}
       /\ Settle({a.id}, Answer(a.question))
  /\ UNCHANGED <<session, requestId, pending, lock, wire, asked>>

(* Slip: the reader ends without a word.                                   *)
FailNobody == UNCHANGED callers

(* _fail_pending.                                                          *)
FailPending == Settle({ p.id : p \in pending }, Failed)

(* The connection ends, an answer is malformed or too long, or the         *)
(* notification handler raises: the reader task ends.                      *)
ReaderFails ==
  /\ connected
  /\ session' = "lost"
  /\ FailPending
  /\ UNCHANGED <<requestId, pending, lock, wire, inbox, asked>>

(* close cancels the reader and waits for it; other tasks run meanwhile.   *)
BeginClose ==
  /\ session \in {"up", "lost"}
  /\ session' = "closing"
  /\ UNCHANGED <<requestId, pending, lock, callers, wire, inbox, asked>>

EndClose ==
  /\ session = "closing"
  /\ session' = "none"
  /\ FailPending
  /\ inbox' = {} /\ wire' = {}
  /\ UNCHANGED <<requestId, pending, lock, asked>>

(* connect's except clause has closed the session, or had it closed.       *)
Closed(c) ==
  /\ callers[c].step = "close" /\ session = "none"
  /\ callers' = [callers EXCEPT ![c] = AtRest]
  /\ UNCHANGED <<session, requestId, pending, lock, wire, inbox, asked>>

CallerStep(c) == Write(c) \/ Drained(c) \/ GiveUpRequest(c) \/ Return(c) \/ Closed(c)

RequestsNext ==
  \/ \E c \in Callers : Request(c) \/ Open(c) \/ CallerStep(c)
  \/ ServerReplies \/ ReadAnswer \/ ReaderFails \/ BeginClose \/ EndClose

RequestsSpec == RequestsInit /\ [][RequestsNext]_requestVars

-----------------------------------------------------------------------------
RequestsTypeOK ==
  /\ session \in {"none", "up", "lost", "closing"}
  /\ requestId \in Nat /\ asked \in Nat
  /\ pending \subseteq [id : Nat, caller : Callers]
  /\ lock \in Callers \cup {Nobody}
  /\ callers \in [Callers ->
       [step : {"idle", "lock", "drain", "wait", "close"}, id : Nat, question : Nat,
        future : [is : {"waiting", "failed", "answer"}, of : Nat], first : BOOLEAN]]
  /\ wire \subseteq [id : Nat, question : Nat]
  /\ inbox \subseteq [id : Nat, question : Nat]

(* A caller never gets the answer to another question: not to one of its   *)
(* own that timed out, not to one of another caller                        *)
(* (subscription_client.py:140-144, 203-218).                              *)
OwnAnswer ==
  \A c \in Callers :
    callers[c].future.is = "answer" => callers[c].future.of = callers[c].question

(* Once the reader task is gone nobody is left to wait for it until the    *)
(* timeout (subscription_client.py:229-241, 120-121); while close is still *)
(* cancelling the reader, it has not come to that yet.                     *)
NoOneWaitsOnDeadSession ==
  session \in {"none", "lost"} => \A c \in Callers : callers[c].future # Waiting
=============================================================================
