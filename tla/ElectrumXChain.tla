--------------------------- MODULE ElectrumXChain ---------------------------
(***************************************************************************)
(* The ElectrumX server and the chain behind it, as the service sees them  *)
(* through headers.subscribe and scripthash.get_history: a tip height and, *)
(* for each transaction, where it is.  Transactions enter and leave the    *)
(* mempool, are mined, and fall back to the mempool when their block is    *)
(* disconnected.  External to the repository.                              *)
(***************************************************************************)
EXTENDS Integers

CONSTANTS
  Transactions,     \* the transactions that may ever be broadcast
  InitialTip,
  MaxHeight,        \* bound of the chain
  MaxChainSteps,    \* bound of the number of chain events
  MayReorg,         \* whether blocks may be disconnected
  MayEvict          \* whether transactions may leave the mempool unmined

(* The position of a transaction the server does not know.                 *)
Unknown == -1
(* The height get_history reports for the mempool (its -1, for unconfirmed *)
(* parents, is treated the same by every reader).                          *)
InMempool == 0

ASSUME ChainAssumption ==
  /\ MaxHeight \in Nat
  /\ InitialTip \in 0..MaxHeight
  /\ MaxChainSteps \in Nat

VARIABLES
  tip,              \* height of the best block
  position,         \* transaction -> Unknown, InMempool or its block height
  chainSteps,       \* chain events so far
  lowest,           \* history: the lowest tip a disconnected block has left
  evicted           \* history: whether a transaction was ever evicted

chainVars == <<tip, position, chainSteps, lowest, evicted>>

Disturbed == lowest < MaxHeight \/ evicted

ChainTypeOK ==
  /\ tip \in 0..MaxHeight
  /\ position \in [Transactions -> {Unknown, InMempool} \cup 1..MaxHeight]
  /\ chainSteps \in 0..MaxChainSteps
  /\ lowest \in 0..MaxHeight
  /\ evicted \in BOOLEAN

ChainInit ==
  /\ tip = InitialTip
  /\ position = [t \in Transactions |-> Unknown]
  /\ chainSteps = 0
  /\ lowest = MaxHeight
  /\ evicted = FALSE

ChainEvent ==
  /\ chainSteps < MaxChainSteps
  /\ chainSteps' = chainSteps + 1

Broadcast(t) ==
  /\ ChainEvent
  /\ position[t] = Unknown
  /\ position' = [position EXCEPT ![t] = InMempool]
  /\ UNCHANGED <<tip, lowest, evicted>>

Mine(mined) ==
  /\ ChainEvent
  /\ tip < MaxHeight
  /\ \A t \in mined : position[t] = InMempool
  /\ tip' = tip + 1
  /\ position' = [t \in Transactions |-> IF t \in mined THEN tip + 1 ELSE position[t]]
  /\ UNCHANGED <<lowest, evicted>>

Reorg ==
  /\ MayReorg
  /\ ChainEvent
  /\ tip > 0
  /\ tip' = tip - 1
  /\ position' = [t \in Transactions |-> IF position[t] = tip THEN InMempool ELSE position[t]]
  /\ lowest' = IF tip - 1 < lowest THEN tip - 1 ELSE lowest
  /\ UNCHANGED evicted

Evict(t) ==
  /\ MayEvict
  /\ ChainEvent
  /\ position[t] = InMempool
  /\ position' = [position EXCEPT ![t] = Unknown]
  /\ evicted' = TRUE
  /\ UNCHANGED <<tip, lowest>>

ChainNext ==
  \/ \E t \in Transactions : Broadcast(t) \/ Evict(t)
  \/ \E mined \in SUBSET Transactions : Mine(mined)
  \/ Reorg
=============================================================================
