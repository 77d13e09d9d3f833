---------------------------- MODULE AddressReads ----------------------------
(***************************************************************************)
(* The read side of the service: address summaries, unspent outputs and    *)
(* history (app/services/address_service.py), the payment monitor's shared *)
(* observation (payment_service.py), transactions and broadcasts           *)
(* (tx_service.py), as the wallet, address and payment routes call them.   *)
(* Every lookup opens a one-shot ElectrumX session of its own              *)
(* (electrumx/client.py), asks its questions one after another and closes  *)
(* the session.                                                            *)
(*                                                                         *)
(* One address is modelled: every cache and the table of running           *)
(* observations are keyed by it.  Its data is a version number that moves  *)
(* when a transaction touches the address.  A lookup asks for several      *)
(* things in turn (a summary and an observation for the balance, the       *)
(* history and the mempool); the model keeps the oldest version they read, *)
(* which is that of the first question, and the others only take time.     *)
(* That an entry of the cache runs out is a step that may be taken at any  *)
(* time (its seconds, and the eviction of a full cache).                   *)
(***************************************************************************)
EXTENDS Naturals, Sequences, FiniteSets

CONSTANTS
    Readers,        \* the requests handled at once
    MaxTasks,       \* bound: observations running or awaited at once
    MaxMoves,       \* bound: transactions that touch the address
    MaxCancels      \* bound: waiting requests that are cancelled

ASSUME ReadsAssumption ==
    /\ MaxTasks \in Nat \ {0}
    /\ MaxMoves \in Nat
    /\ MaxCancels \in Nat

VARIABLES
    version,        \* what the ElectrumX server holds of the address
    caching,        \* whether the caches are switched on (CACHE_*_SECONDS)
    cached,         \* _address_cache, _utxo_cache, _history_cache and the
                    \* observation cache: what each holds
    reader,         \* the requests being handled
    task,           \* the observation lookups, by number
    inflight,       \* _payment_observation_tasks: the running one, or 0
    newest,         \* the newest balance the payment monitor has reported
    cancels         \* how many waiters were cancelled

readVars == <<version, caching, cached, reader, task, inflight, newest, cancels>>

-----------------------------------------------------------------------------
(* The lookups each route makes.  The wallet's address page shows a summary *)
(* and a history (the public address page the first of them); the           *)
(* transactions it asks for each row are left out.                          *)
ROUTES ==
    [wallet  |-> <<"summary", "history">>,
     utxo    |-> <<"utxos">>,
     history |-> <<"history">>,
     tx      |-> <<"transaction">>,
     send    |-> <<"broadcast">>,
     monitor |-> <<"observation">>]

HasFresh == {"wallet", "utxo", "history"}
CachedKinds == {"summary", "utxos", "history", "observation"}
Tasks == 1 .. MaxTasks

Nothing == MaxMoves + 1     \* nothing read, nothing kept
Older(m, n) == IF m < n THEN m ELSE n

Idle == [stage |-> "idle", todo |-> <<>>, fresh |-> FALSE, since |-> 0,
         got |-> Nothing, shown |-> Nothing, task |-> 0]
NoTask == [stage |-> "none", got |-> Nothing]

ReadsInit ==
    /\ version = 0
    /\ caching \in BOOLEAN
    /\ cached = [k \in CachedKinds |-> Nothing]
    /\ reader = [r \in Readers |-> Idle]
    /\ task = [t \in Tasks |-> NoTask]
    /\ inflight = 0
    /\ newest = 0
    /\ cancels = 0

-----------------------------------------------------------------------------
(* The handlers run on one event loop.  A finished observation wakes every  *)
(* request waiting on it in the same turn of the loop, so no answer of the  *)
(* server is read and no timer fires in between; other handlers that are    *)
(* ready may run.                                                           *)
Woken(r) ==
    /\ reader[r].stage = "waiting"
    /\ task[reader[r].task].stage \in {"done", "failed"}

NobodyWoken == \A r \in Readers : ~Woken(r)

Kind(r) == Head(reader[r].todo)

FreshHitsCache(r) ==
    /\ Kind(r) \in CachedKinds
    /\ cached[Kind(r)] # Nothing

(* A request that asks for fresh data passes the cache by.                  *)
CacheServes(r) ==
    /\ Kind(r) \in CachedKinds
    /\ ~reader[r].fresh
    /\ cached[Kind(r)] # Nothing

Answered(r, oldest) ==
    [reader[r] EXCEPT !.stage = "turn", !.todo = Tail(@), !.got = Nothing,
                      !.shown = Older(@, oldest), !.task = 0]

(* A request arrives.                                                       *)
BeginRead(r, route, fresh) ==
    /\ reader[r].stage = "idle"
    /\ fresh => route \in HasFresh
    /\ reader' = [reader EXCEPT ![r] =
                    [Idle EXCEPT !.stage = "turn", !.todo = ROUTES[route],
                                 !.fresh = fresh,
                                 !.since = IF fresh THEN version ELSE 0]]
    /\ UNCHANGED <<version, caching, cached, task, inflight, newest, cancels>>

(* The monitor's route reports what it was given; newest remembers it.      *)
Reported(kind, oldest) == IF kind = "observation" THEN oldest ELSE newest

ServeFromCache(r) ==
    /\ reader[r].stage = "turn" /\ reader[r].todo # <<>>
    /\ CacheServes(r)
    /\ reader' = [reader EXCEPT ![r] = Answered(r, cached[Kind(r)])]
    /\ newest' = Reported(Kind(r), cached[Kind(r)])
    /\ UNCHANGED <<version, caching, cached, task, inflight, cancels>>

(* A lookup of the request's own, in a session of its own.                  *)
StartLookup(r) ==
    /\ reader[r].stage = "turn" /\ reader[r].todo # <<>>
    /\ Kind(r) # "observation"
    /\ ~CacheServes(r)
    /\ reader' = [reader EXCEPT ![r].stage = "asking"]
    /\ UNCHANGED <<version, caching, cached, task, inflight, newest, cancels>>

(* The first question's answer.  A broadcast that the node takes spends     *)
(* from the address.                                                        *)
Ask(r) ==
    /\ NobodyWoken
    /\ reader[r].stage = "asking"
    /\ reader[r].got = Nothing
    /\ version' = IF Kind(r) = "broadcast" /\ version < MaxMoves
                    THEN version + 1 ELSE version
    /\ reader' = [reader EXCEPT ![r].got = version']
    /\ UNCHANGED <<caching, cached, task, inflight, newest, cancels>>

(* The other questions are answered and the session is closed, which takes  *)
(* a while, and only then is the answer kept for others - unless it was a   *)
(* fresh one.                                                               *)
FinishLookup(r) ==
    /\ NobodyWoken
    /\ reader[r].stage = "asking"
    /\ reader[r].got # Nothing
    /\ cached' = IF caching /\ Kind(r) \in CachedKinds /\ ~reader[r].fresh
                   THEN [cached EXCEPT ![Kind(r)] = reader[r].got]
                   ELSE cached
    /\ reader' = [reader EXCEPT ![r] = Answered(r, reader[r].got)]
    /\ UNCHANGED <<version, caching, task, inflight, newest, cancels>>

(* A timeout, a lost session or an error answer ends the request; whether   *)
(* a broadcast whose answer was lost went out is not known to the caller.   *)
LookupFails(r) ==
    /\ NobodyWoken
    /\ reader[r].stage = "asking"
    /\ IF Kind(r) = "broadcast" /\ reader[r].got = Nothing /\ version < MaxMoves
         THEN version' \in {version, version + 1}
         ELSE UNCHANGED version
    /\ reader' = [reader EXCEPT ![r] = Idle]
    /\ UNCHANGED <<caching, cached, task, inflight, newest, cancels>>

-----------------------------------------------------------------------------
(* The monitor: one lookup of an address at a time, shared by everyone.     *)

JoinNobody(r) == 0
Joined(r) == inflight

(* An observation that nobody has kept: join the running one, or start one. *)
AwaitObservation(r) ==
    /\ reader[r].stage = "turn" /\ reader[r].todo # <<>>
    /\ Kind(r) = "observation"
    /\ ~CacheServes(r)
    /\ IF Joined(r) # 0
         THEN /\ reader' = [reader EXCEPT ![r].stage = "waiting",
                                          ![r].task = Joined(r)]
              /\ UNCHANGED <<task, inflight>>
         ELSE \E t \in Tasks :
                /\ task[t] = NoTask
                /\ \A q \in Readers : reader[q].task # t
                /\ task' = [task EXCEPT ![t].stage = "running"]
                /\ inflight' = t
                /\ reader' = [reader EXCEPT ![r].stage = "waiting",
                                            ![r].task = t]
    /\ UNCHANGED <<version, caching, cached, newest, cancels>>

TaskAsk(t) ==
    /\ NobodyWoken
    /\ task[t].stage = "running"
    /\ task[t].got = Nothing
    /\ task' = [task EXCEPT ![t].got = version]
    /\ UNCHANGED <<version, caching, cached, reader, inflight, newest, cancels>>

TaskEnds(t) ==
    /\ NobodyWoken
    /\ task[t].stage = "running"
    /\ \/ /\ task[t].got # Nothing
          /\ task' = [task EXCEPT ![t].stage = "done"]
       \/ task' = [task EXCEPT ![t] = [NoTask EXCEPT !.stage = "failed"]]
    /\ UNCHANGED <<version, caching, cached, reader, inflight, newest, cancels>>

(* A task nobody holds any more is gone.                                    *)
TaskForgotten(t) ==
    /\ task[t].stage \in {"done", "failed"}
    /\ inflight # t
    /\ \A r \in Readers : reader[r].task # t
    /\ task' = [task EXCEPT ![t] = NoTask]
    /\ UNCHANGED <<version, caching, cached, reader, inflight, newest, cancels>>

(* Whoever leaves takes the entry out, if it is still that lookup's entry.  *)
RemoveAny(t) == 0
Removed(t) == IF inflight = t THEN 0 ELSE inflight

(* A waiter goes on when the lookup it waits for has ended.                 *)
ResumeWaiter(r) ==
    /\ Woken(r)
    /\ LET t == reader[r].task IN
         /\ inflight' = Removed(t)
         /\ IF task[t].stage = "done"
              THEN /\ cached' = IF caching
                        THEN [cached EXCEPT !["observation"] = task[t].got]
                        ELSE cached
                   /\ reader' = [reader EXCEPT ![r] = Answered(r, task[t].got)]
                   /\ newest' = Reported("observation", task[t].got)
              ELSE /\ reader' = [reader EXCEPT ![r] = Idle]
                   /\ UNCHANGED <<cached, newest>>
    /\ UNCHANGED <<version, caching, task, cancels>>

(* A waiter is cancelled: the lookup goes on (it is shielded), the entry is *)
(* taken out all the same.                                                  *)
CancelWaiter(r) ==
    /\ reader[r].stage = "waiting" /\ ~Woken(r)
    /\ cancels < MaxCancels
    /\ cancels' = cancels + 1
    /\ inflight' = Removed(reader[r].task)
    /\ reader' = [reader EXCEPT ![r] = Idle]
    /\ UNCHANGED <<version, caching, cached, task, newest>>

-----------------------------------------------------------------------------
(* The route has all it needs and answers.                                  *)
AnswerRead(r) ==
    /\ reader[r].stage = "turn" /\ reader[r].todo = <<>>
    /\ reader' = [reader EXCEPT ![r] = Idle]
    /\ UNCHANGED <<version, caching, cached, task, inflight, newest, cancels>>

(* An entry's time is over, or a full cache evicts it.                      *)
EntryRunsOut(k) ==
    /\ cached[k] # Nothing
    /\ cached' = [cached EXCEPT ![k] = Nothing]
    /\ UNCHANGED <<version, caching, reader, task, inflight, newest, cancels>>

(* A transaction of somebody else touches the address.                      *)
AddressMoves ==
    /\ version < MaxMoves
    /\ version' = version + 1
    /\ UNCHANGED <<caching, cached, reader, task, inflight, newest, cancels>>

(* The monitor and the other routes share nothing but the address.          *)
ReadsNextOn(routes) ==
    \/ \E r \in Readers :
         \/ \E route \in routes, fresh \in BOOLEAN :
              BeginRead(r, route, fresh)
         \/ ServeFromCache(r)
         \/ StartLookup(r)
         \/ Ask(r)
         \/ FinishLookup(r)
         \/ LookupFails(r)
         \/ AwaitObservation(r)
         \/ ResumeWaiter(r)
         \/ CancelWaiter(r)
         \/ AnswerRead(r)
    \/ \E t \in Tasks : TaskAsk(t) \/ TaskEnds(t) \/ TaskForgotten(t)
    \/ \E k \in CachedKinds : EntryRunsOut(k)
    \/ AddressMoves

ReadsNext == ReadsNextOn(DOMAIN ROUTES)

ReadsSpec == ReadsInit /\ [][ReadsNext]_readVars

-----------------------------------------------------------------------------
(* What a request that asked for fresh data is given was read from the      *)
(* server after the request arrived: the wallet builds a transaction from   *)
(* these outputs and must not be shown one it has already spent.            *)
FreshReadsAreFresh ==
    \A r \in Readers :
      reader[r].fresh => reader[r].shown >= reader[r].since

(* However many screens refresh at once, the address is looked up by one    *)
(* session at a time (unless a waiter was cancelled, which takes the entry  *)
(* of a lookup that goes on out of the table).                              *)
SingleFlight ==
    cancels = 0 => Cardinality({t \in Tasks : task[t].stage = "running"}) <= 1

(* The payment monitor never reports an older balance than it has already   *)
(* reported: a late waiter or an older cache entry cannot turn a payment    *)
(* that was seen back into one that is missing.                             *)
MonitorNeverGoesBack == [][cancels = 0 => newest' >= newest]_newest
=============================================================================
