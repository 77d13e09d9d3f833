---------------------- MODULE PaymentEvaluationProofs -----------------------
(***************************************************************************)
(* The evaluator under any stream of observations of any outputs, for any  *)
(* policy and any length of chain and clock: what the store keeps row by   *)
(* row is what the evaluator makes of the whole stream, and a status moves *)
(* one way when only the clock, a block or a repetition is new.            *)
(***************************************************************************)
EXTENDS PaymentEvaluation, PaymentStateProofs

(* Every observation is of an output, at a height, and at a time that has  *)
(* come by now.                                                            *)
OfAnOutput(o) ==
  /\ IsObservation(o)
  /\ \E u \in Outputs : o.tx = u.tx /\ o.vout = u.vout /\ o.value = u.value
  /\ o.first_seen <= now

EvaluationInv ==
  /\ observations \in Seq({ observations[i] : i \in DOMAIN observations })
  /\ \A i \in DOMAIN observations : OfAnOutput(observations[i])
  /\ rows = Deduplicate(observations, DOMAIN observations)
  /\ required \in Nat
  /\ tip \in Nat
  /\ now \in Nat

Positions == DOMAIN observations

LEMMA InitEvaluation == Init => EvaluationInv
<1> SUFFICES ASSUME Init PROVE EvaluationInv
  OBVIOUS
<1>1. observations = <<>> /\ DOMAIN observations = {}
  BY DEF Init
<1>2. Deduplicate(observations, {}) = {}
  BY DEF Deduplicate
<1> QED BY <1>1, <1>2, EvaluationAssumption DEF Init, EvaluationInv

(* What a new observation is, and where it goes.                           *)
LEMMA NewObservation ==
  ASSUME EvaluationInv, NEW u \in Outputs, NEW height \in 0 .. tip, Observe(u, height)
  PROVE  \E o : /\ OfAnOutput(o) /\ o.height = height /\ o.first_seen = now
                /\ observations' = Append(observations, o)
                /\ rows' = UpsertRow(rows, o)
                /\ DOMAIN observations = 1 .. Len(observations)
                /\ Len(observations) \in Nat
                /\ DOMAIN observations' = Positions \cup {Len(observations) + 1}
                /\ Len(observations') = Len(observations) + 1
                /\ observations'[Len(observations) + 1] = o
                /\ \A i \in Positions : observations'[i] = observations[i]
                /\ observations' \in Seq({ observations'[i] : i \in DOMAIN observations' })
                /\ UNCHANGED <<required, tip, now>>
<1> DEFINE o == [tx |-> u.tx, vout |-> u.vout, value |-> u.value,
                 height |-> height, first_seen |-> now]
           S == { observations[i] : i \in DOMAIN observations }
           more == Append(observations, o)
<1>1. OfAnOutput(o) /\ o.height = height /\ o.first_seen = now
  BY EvaluationAssumption DEF OfAnOutput, IsObservation, EvaluationInv
<1>2. observations' = more /\ rows' = UpsertRow(rows, o) /\ UNCHANGED <<required, tip, now>>
  BY DEF Observe
<1>3. observations \in Seq(S)
  BY DEF EvaluationInv
<1> HIDE DEF o
<1>4. /\ DOMAIN observations = 1 .. Len(observations) /\ Len(observations) \in Nat
      /\ DOMAIN more = 1 .. (Len(observations) + 1) /\ Len(more) = Len(observations) + 1
      /\ more[Len(observations) + 1] = o
      /\ \A i \in 1 .. Len(observations) : more[i] = observations[i]
  <2> HIDE DEF S
  <2> QED BY <1>3
<1>5. \A T : (\A i \in 1 .. (Len(observations) + 1) : more[i] \in T) => more \in Seq(T)
  <2> SUFFICES ASSUME NEW T, \A i \in 1 .. (Len(observations) + 1) : more[i] \in T
               PROVE  more \in Seq(T)
    OBVIOUS
  <2>1. observations \in Seq(T) /\ o \in T
    <3>1. \A i \in 1 .. Len(observations) : observations[i] \in T
      BY <1>4
    <3>2. o \in T
      BY <1>4
    <3> HIDE DEF S, more
    <3> QED BY <1>3, <1>4, <3>1, <3>2
  <2> QED BY <2>1
<1>6. more \in Seq({ more[i] : i \in DOMAIN more })
  <2> DEFINE T == { more[i] : i \in DOMAIN more }
  <2>1. \A i \in 1 .. (Len(observations) + 1) : more[i] \in T
    BY <1>4
  <2> HIDE DEF T, more
  <2> QED BY <1>5, <2>1
<1>7. 1 .. (Len(observations) + 1) = (1 .. Len(observations)) \cup {Len(observations) + 1}
  BY <1>4
<1> QED BY <1>1, <1>2, <1>4, <1>6, <1>7 DEF Positions

LEMMA ObservationsSeen == EvaluationInv => \A i \in Positions : IsObservation(observations[i])
BY DEF EvaluationInv, OfAnOutput, Positions

LEMMA PositionsAre ==
  ASSUME EvaluationInv
  PROVE  Len(observations) \in Nat /\ DOMAIN observations = 1 .. Len(observations)
<1> DEFINE S == { observations[i] : i \in DOMAIN observations }
<1>1. observations \in Seq(S)
  BY DEF EvaluationInv
<1> HIDE DEF S
<1> QED BY <1>1

LEMMA EvaluationStep == EvaluationInv /\ [Next]_vars => EvaluationInv'
<1> SUFFICES ASSUME EvaluationInv, [Next]_vars PROVE EvaluationInv'
  OBVIOUS
<1>1. ASSUME NEW u \in Outputs, NEW height \in 0 .. tip, Observe(u, height)
      PROVE  EvaluationInv'
  <2> DEFINE n == Len(observations)
  <2>1. PICK o : /\ OfAnOutput(o)
                 /\ rows' = UpsertRow(rows, o)
                 /\ n \in Nat /\ Positions = 1 .. n
                 /\ DOMAIN observations' = Positions \cup {n + 1}
                 /\ observations'[n + 1] = o
                 /\ \A i \in Positions : observations'[i] = observations[i]
                 /\ observations' \in Seq({ observations'[i] : i \in DOMAIN observations' })
                 /\ UNCHANGED <<required, tip, now>>
    BY <1>1, NewObservation DEF Positions
  <2>2. \A i \in Positions : IsObservation(observations[i])
    BY ObservationsSeen
  <2>3. Deduplicate(observations', Positions \cup {n + 1})
          = UpsertRow(Deduplicate(observations, Positions), o)
    <3>1. Positions \in SUBSET (1 .. n) /\ IsObservation(o)
      BY <2>1 DEF OfAnOutput
    <3> HIDE DEF n
    <3> QED BY <2>1, <2>2, <3>1, OneMoreIsAnUpsert
  <2>4. rows' = Deduplicate(observations', DOMAIN observations')
    BY <2>1, <2>3 DEF EvaluationInv, Positions
  <2>5. \A i \in Positions \cup {n + 1} :
          /\ IsObservation(observations'[i])
          /\ \E v \in Outputs : /\ observations'[i].tx = v.tx
                               /\ observations'[i].vout = v.vout
                               /\ observations'[i].value = v.value
          /\ observations'[i].first_seen <= now
    <3>1. \A i \in Positions : OfAnOutput(observations[i])
      BY DEF EvaluationInv, Positions
    <3> HIDE DEF n
    <3> QED BY <2>1, <3>1 DEF OfAnOutput
  <2>6. now' = now /\ DOMAIN observations' = Positions \cup {n + 1}
    BY <2>1
  <2>7. \A i \in DOMAIN observations' :
          /\ IsObservation(observations'[i])
          /\ \E v \in Outputs : /\ observations'[i].tx = v.tx
                               /\ observations'[i].vout = v.vout
                               /\ observations'[i].value = v.value
          /\ observations'[i].first_seen <= now'
    BY <2>5, <2>6
  <2> QED BY <2>1, <2>4, <2>7 DEF EvaluationInv, OfAnOutput
<1>2. CASE Connect
  BY <1>2 DEF Connect, EvaluationInv, OfAnOutput
<1>3. CASE Disconnect
  BY <1>3 DEF Disconnect, EvaluationInv, OfAnOutput
<1>4. CASE Tick
  <2>1. \A i \in DOMAIN observations : observations[i].first_seen \in Nat
    BY DEF EvaluationInv, OfAnOutput, IsObservation
  <2> QED BY <1>4, <2>1 DEF Tick, EvaluationInv, OfAnOutput
<1>5. CASE UNCHANGED vars
  BY <1>5 DEF vars, EvaluationInv, OfAnOutput
<1> QED BY <1>1, <1>2, <1>3, <1>4, <1>5 DEF Next

-----------------------------------------------------------------------------
(* What is evaluated.                                                      *)

LEMMA KeptIs ==
  ASSUME EvaluationInv
  PROVE  /\ FiniteOutputs(Kept)
         /\ \A o \in Kept : o.value > 0
         /\ Evaluation = EvaluateOutputs(Requested, Kept, tip, required, ExpiresAt, now)
<1> DEFINE P == InScope(observations, Scope)
<1>1. P \in SUBSET (1 .. Len(observations)) /\ Len(observations) \in Nat
  BY PositionsAre DEF InScope
<1>2. \A i \in P : IsObservation(observations[i]) /\ observations[i].value > 0
  <2>1. \A i \in DOMAIN observations :
          IsObservation(observations[i]) /\ observations[i].value > 0
    BY EvaluationAssumption DEF EvaluationInv, OfAnOutput
  <2> QED BY <2>1 DEF InScope
<1>3. Kept = Deduplicate(observations, P)
  BY DEF Kept
<1> HIDE DEF P
<1>4. IsFiniteSet(Kept) /\ \A o \in Kept : IsObservation(o)
  BY <1>1, <1>2, <1>3, KeptIsFinite
<1>5. \A k \in Outpoints(observations, P) : Collapsed(observations, P, k).value > 0
  <2> SUFFICES ASSUME NEW k \in Outpoints(observations, P)
               PROVE  Collapsed(observations, P, k).value > 0
    OBVIOUS
  <2>1. \A i \in P : IsObservation(observations[i])
    BY <1>2
  <2>2. Max(PlacesOf(observations, P, k)) \in P
    BY <1>1, <2>1, LastPosition, AtIs
  <2>3. Collapsed(observations, P, k).value = observations[Max(PlacesOf(observations, P, k))].value
    BY <1>1, <2>1, CollapsedIs
  <2> QED BY <1>2, <2>2, <2>3
<1>6. \A o \in Kept : o.value > 0
  BY <1>3, <1>5, DeduplicateIs
<1>7. Evaluation = EvaluateOutputs(Requested, Kept, tip, required, ExpiresAt, now)
  BY DEF Evaluation, EvaluatePaymentObservations, Kept, Scope
<1> QED BY <1>4, <1>6, <1>7 DEF FiniteOutputs

(* The confirmations of an output are the blocks from its own to the tip.  *)
LEMMA PolicyIsBuried ==
  ASSUME EvaluationInv, required > 0
  PROVE  Policy(Kept, tip, required) = SumValues(Buried(required))
<1>1. \A o \in Kept : o.height \in Nat
  BY KeptIs DEF FiniteOutputs, IsObservation
<1>2. tip \in Nat /\ required \in Nat
  BY DEF EvaluationInv
<1>3. \A o \in Kept :
        ConfirmationsForHeight(o.height, tip) >= required
          <=> o.height > 0 /\ Cardinality(o.height..tip) >= required
  <2> SUFFICES ASSUME NEW o \in Kept
               PROVE  ConfirmationsForHeight(o.height, tip) >= required
                        <=> o.height > 0 /\ Cardinality(o.height..tip) >= required
    OBVIOUS
  <2>1. Cardinality(o.height..tip) = IF o.height > tip THEN 0 ELSE tip - o.height + 1
    BY <1>1, <1>2, FS_Interval
  <2> QED BY <1>1, <1>2, <2>1 DEF ConfirmationsForHeight
<1>4. { o \in Kept : ConfirmationsForHeight(o.height, tip) >= required } = Buried(required)
  BY <1>3 DEF Buried
<1> QED BY <1>2, <1>4 DEF Policy

(* Confirmed status rests on confirmed value: the policy counts only what  *)
(* has confirmations, which only a confirmed output has, and it counts all *)
(* that is buried deep enough.                                             *)
THEOREM ConfirmedStatusIsConfirmed == Spec => []PolicyWithinConfirmed
<1>1. EvaluationInv => PolicyWithinConfirmed
  <2> SUFFICES ASSUME EvaluationInv PROVE PolicyWithinConfirmed
    OBVIOUS
  <2> DEFINE received == SumValues(Kept)
             confirmed == SumValues({ o \in Kept : o.height > 0 })
             policy == Policy(Kept, tip, required)
             status == StatusFor(Requested, received, policy, { o \in Kept : o.height <= 0 },
                                 ExpiresAt # None /\ now > ExpiresAt)
  <2>1. Evaluation = [ status |-> status, received |-> received,
                       confirmed |-> confirmed, policy |-> policy ]
    BY KeptIs, EvaluationIs
  <2>2. received \in Nat /\ confirmed \in Nat /\ policy \in Nat
    BY KeptIs, PartsAreNumbers
  <2>3. confirmed <= received /\ (required > 0 => policy <= confirmed)
    BY KeptIs, PolicyIsConfirmed DEF EvaluationInv
  <2>4. status = "paid_confirmed" => policy >= Requested
    BY DEF StatusFor
  <2>5. required > 0 => policy = SumValues(Buried(required))
    BY PolicyIsBuried
  <2> HIDE DEF received, confirmed, policy, status
  <2> QED BY <2>1, <2>2, <2>3, <2>4, <2>5, EvaluationAssumption DEF PolicyWithinConfirmed
<1> QED BY <1>1, InitEvaluation, EvaluationStep, PTL DEF Spec

(* The rows the store keeps evaluate like the stream they were made of.    *)
THEOREM RowsAreTheStream == Spec => []RowsEvaluateLikeTheStream
<1>1. EvaluationInv => RowsEvaluateLikeTheStream
  <2> SUFFICES ASSUME EvaluationInv,
                      \A i \in DOMAIN observations :
                        ObservationBelongsToPayment(observations[i], Scope)
               PROVE  Evaluation = EvaluateRows(Requested, rows, tip, required, Scope, now)
    BY DEF RowsEvaluateLikeTheStream
  <2>1. InScope(observations, Scope) = Positions
    BY DEF InScope, Positions
  <2>2. rows = Kept
    BY <2>1 DEF EvaluationInv, Kept, Positions
  <2>3. \A r \in Deduplicate(observations, Positions) : ObservationBelongsToPayment(r, Scope)
    <3>1. Positions \in SUBSET (1 .. Len(observations)) /\ Len(observations) \in Nat
      BY PositionsAre DEF Positions
    <3>2. \A i \in Positions : /\ IsObservation(observations[i])
                               /\ ObservationBelongsToPayment(observations[i], Scope)
      BY ObservationsSeen DEF Positions
    <3> QED BY <3>1, <3>2, KeptBelongs
  <2>4. { r \in rows : ObservationBelongsToPayment(r, Scope) } = Kept
    BY <2>2, <2>3 DEF EvaluationInv, Positions
  <2> QED BY <2>4, KeptIs DEF EvaluateRows, Scope
<1> QED BY <1>1, InitEvaluation, EvaluationStep, PTL DEF Spec

-----------------------------------------------------------------------------
(* What each kind of step does to what is evaluated.                       *)

LEMMA KeptStays ==
  ASSUME EvaluationInv, EvaluationInv', UNCHANGED <<observations, required>>
  PROVE  /\ FiniteOutputs(Kept)
         /\ \A o \in Kept : o.value > 0
         /\ Evaluation = EvaluateOutputs(Requested, Kept, tip, required, ExpiresAt, now)
         /\ Evaluation' = EvaluateOutputs(Requested, Kept, tip', required, ExpiresAt, now')
<1>1. Kept' = Kept
  BY DEF Kept
<1>2. Evaluation' = EvaluateOutputs(Requested, Kept', tip', required', ExpiresAt, now')
  BY DEF Evaluation, EvaluatePaymentObservations, Kept, Scope
<1> QED BY <1>1, <1>2, KeptIs

LEMMA OneThingMoves ==
  ASSUME [Next]_vars
  PROVE  \/ UNCHANGED <<tip, now>>
         \/ UNCHANGED <<observations, required, tip>>
         \/ UNCHANGED <<observations, required, now>>
<1>1. ASSUME NEW u \in Outputs, NEW height \in 0 .. tip, Observe(u, height)
      PROVE  UNCHANGED <<tip, now>>
  BY <1>1 DEF Observe
<1> QED BY <1>1 DEF Next, Connect, Disconnect, Tick, vars

(* The clock alone takes no money back.                                    *)
THEOREM ClockTakesNothingBack == Spec => ClockNeverUnpays
<1>1. ASSUME EvaluationInv, EvaluationInv', [Next]_vars, now' > now
      PROVE  OnlyExpires(Evaluation, Evaluation')
  <2>1. now \in Nat /\ now' \in Nat /\ tip \in Nat /\ required \in Nat
    BY <1>1 DEF EvaluationInv
  <2>2. UNCHANGED <<observations, required, tip>>
    BY <1>1, <2>1, OneThingMoves
  <2>3. /\ FiniteOutputs(Kept)
        /\ \A o \in Kept : o.value > 0
        /\ Evaluation = EvaluateOutputs(Requested, Kept, tip, required, ExpiresAt, now)
        /\ Evaluation' = EvaluateOutputs(Requested, Kept, tip, required, ExpiresAt, now')
    BY <1>1, <2>2, KeptStays
  <2>4. now <= now' /\ ExpiresAt \in Nat /\ Requested \in Nat \ {0}
    BY <1>1, <2>1, EvaluationAssumption
  <2> DEFINE kept == Kept
             later == now'
             before == Evaluation
             after == Evaluation'
  <2>5. /\ FiniteOutputs(kept) /\ \A o \in kept : o.value > 0
        /\ later \in Nat /\ now <= later
        /\ before = EvaluateOutputs(Requested, kept, tip, required, ExpiresAt, now)
        /\ after = EvaluateOutputs(Requested, kept, tip, required, ExpiresAt, later)
    BY <2>1, <2>3, <2>4
  <2> HIDE DEF kept, later, before, after
  <2>6. OnlyExpires(before, after)
    <3>1. \A o \in kept : o.value > 0
      BY <2>5
    <3>2. Requested \in Nat \ {0} /\ ExpiresAt \in Nat /\ tip \in Nat /\ required \in Nat
          /\ now \in Nat /\ later \in Nat /\ now <= later
      BY <2>1, <2>4, <2>5
    <3>3. FiniteOutputs(kept)
      BY <2>5
    <3> QED BY <2>5, <3>1, <3>2, <3>3, ClockOnly
  <2> QED BY <2>6 DEF before, after
<1>2. EvaluationInv /\ EvaluationInv' /\ [Next]_vars => [
        now' > now =>
          LET before == Evaluation
              after  == Evaluation'
          IN  /\ [after EXCEPT !.status = before.status] = before
              /\ after.status # before.status =>
                   /\ before.status \in {"waiting", "partial"}
                   /\ after.status = "expired" ]_vars
  BY <1>1 DEF OnlyExpires
<1> QED BY <1>2, InitEvaluation, EvaluationStep, PTL DEF Spec, ClockNeverUnpays

(* A new block alone never loses a confirmation.                           *)
THEOREM BlocksConfirm == Spec => NewBlockNeverUnconfirms
<1>1. ASSUME EvaluationInv, EvaluationInv', [Next]_vars, tip' > tip
      PROVE  /\ (Evaluation').policy >= Evaluation.policy
             /\ (Evaluation').received = Evaluation.received
             /\ Evaluation.status = "paid_confirmed" => (Evaluation').status = "paid_confirmed"
  <2>1. tip \in Nat /\ tip' \in Nat /\ required \in Nat /\ now \in Nat
    BY <1>1 DEF EvaluationInv
  <2>2. UNCHANGED <<observations, required, now>>
    BY <1>1, <2>1, OneThingMoves
  <2>3. /\ FiniteOutputs(Kept)
        /\ Evaluation = EvaluateOutputs(Requested, Kept, tip, required, ExpiresAt, now)
        /\ Evaluation' = EvaluateOutputs(Requested, Kept, tip', required, ExpiresAt, now)
    BY <1>1, <2>2, KeptStays
  <2>4. tip <= tip' /\ Requested \in Nat \ {0}
    BY <1>1, <2>1, EvaluationAssumption
  <2> DEFINE kept == Kept
             higher == tip'
             before == Evaluation
             after == Evaluation'
  <2>5. /\ FiniteOutputs(kept) /\ higher \in Nat /\ tip <= higher
        /\ before = EvaluateOutputs(Requested, kept, tip, required, ExpiresAt, now)
        /\ after = EvaluateOutputs(Requested, kept, higher, required, ExpiresAt, now)
    BY <2>1, <2>3, <2>4
  <2> HIDE DEF kept, higher, before, after
  <2>6. /\ after.policy >= before.policy
        /\ after.received = before.received
        /\ before.status = "paid_confirmed" => after.status = "paid_confirmed"
    BY <2>1, <2>4, <2>5, BlockOnly
  <2> QED BY <2>6 DEF before, after
<1>2. EvaluationInv /\ EvaluationInv' /\ [Next]_vars => [
        tip' > tip =>
          LET before == Evaluation
              after  == Evaluation'
          IN  /\ after.policy >= before.policy
              /\ after.received = before.received
              /\ before.status = "paid_confirmed" => after.status = "paid_confirmed" ]_vars
  BY <1>1
<1> QED BY <1>2, InitEvaluation, EvaluationStep, PTL DEF Spec, NewBlockNeverUnconfirms

(* An upsert of what is there already changes nothing.                     *)
LEMMA SameRowStays ==
  ASSUME NEW kept, NEW r \in kept, NEW o, IsObservation(r), IsObservation(o),
         \A s \in kept : Outpoint(s) = Outpoint(r) => s = r,
         o.tx = r.tx, o.vout = r.vout, o.value = r.value, o.height = r.height,
         r.first_seen <= o.first_seen
  PROVE  UpsertRow(kept, o) = kept
<1>1. RowFor(kept, o) = {r}
  BY DEF RowFor, Outpoint
<1>2. EarliestSeen({r.first_seen} \cup {o.first_seen}) = r.first_seen
  <2> DEFINE times == {r.first_seen} \cup {o.first_seen}
  <2>1. times \in SUBSET Nat /\ times # {} /\ r.first_seen \in times
    BY DEF IsObservation
  <2>2. EarliestSeen(times) \in times /\ \A t \in times : EarliestSeen(times) <= t
    <3> HIDE DEF times
    <3> QED BY <2>1, EarliestIs
  <2> QED BY <2>1, <2>2
<1>3. [o EXCEPT !.first_seen = r.first_seen] = r
  BY DEF IsObservation
<1>4. { s.first_seen : s \in RowFor(kept, o) } = {r.first_seen}
  BY <1>1
<1> QED BY <1>1, <1>2, <1>3, <1>4 DEF UpsertRow

(* A repeated observation counts once.                                     *)
THEOREM RepetitionIsHarmless == Spec => RepeatedObservationIsHarmless
<1> DEFINE last == observations'[Len(observations')]
           at == { i \in InScope(observations, Scope) :
                     Outpoint(observations[i]) = Outpoint(last) }
<1>1. ASSUME EvaluationInv, [Next]_vars,
             Len(observations') > Len(observations),
             ObservationBelongsToPayment(last, Scope),
             at # {},
             observations[Max(at)].height = last.height
      PROVE  Evaluation' = Evaluation
  <2>1. PICK u \in Outputs, height \in 0 .. tip : Observe(u, height)
    BY <1>1, PositionsAre DEF Next, Connect, Disconnect, Tick, vars
  <2> DEFINE n == Len(observations)
             P == InScope(observations, Scope)
  <2>2. PICK o : /\ OfAnOutput(o) /\ o.first_seen = now
                 /\ n \in Nat /\ Positions = 1 .. n
                 /\ DOMAIN observations' = Positions \cup {n + 1}
                 /\ Len(observations') = n + 1
                 /\ observations'[n + 1] = o
                 /\ \A i \in Positions : observations'[i] = observations[i]
                 /\ UNCHANGED <<required, tip, now>>
    BY <1>1, <2>1, NewObservation DEF Positions
  <2>3. last = o
    BY <2>2
  <2> HIDE DEF last
  <2>4. InScope(observations', Scope) = P \cup {n + 1}
    <3>1. P = { i \in Positions : ObservationBelongsToPayment(observations[i], Scope) }
      BY DEF InScope, Positions
    <3>2. ObservationBelongsToPayment(o, Scope)
      BY <1>1, <2>3
    <3>3. InScope(observations', Scope)
            = { i \in Positions \cup {n + 1} :
                  ObservationBelongsToPayment(observations'[i], Scope) }
      BY <2>2 DEF InScope
    <3>4. n + 1 \notin Positions
      BY <2>2
    <3> HIDE DEF P, n
    <3> QED BY <2>2, <3>1, <3>2, <3>3, <3>4
  <2>5. /\ P \in SUBSET (1 .. n) /\ P \subseteq Positions
        /\ \A i \in P : OfAnOutput(observations[i])
        /\ \A i \in P : IsObservation(observations[i])
        /\ \A i \in P : observations[i].first_seen <= now
    BY <1>1, <2>2 DEF InScope, Positions, EvaluationInv, OfAnOutput
  <2>6. Deduplicate(observations', P \cup {n + 1}) = UpsertRow(Deduplicate(observations, P), o)
    <3>1. IsObservation(o) /\ \A i \in P : observations'[i] = observations[i]
      BY <2>2, <2>5 DEF OfAnOutput
    <3>2. n \in Nat /\ observations'[n + 1] = o
      BY <2>2
    <3>3. P \in SUBSET (1 .. n) /\ \A i \in P : IsObservation(observations[i])
      BY <2>5
    <3> HIDE DEF P, n
    <3> QED BY <3>1, <3>2, <3>3, OneMoreIsAnUpsert
  <2> DEFINE k == Outpoint(o)
             r == Collapsed(observations, P, k)
  <2>7. at = PlacesOf(observations, P, k)
    BY <2>3 DEF PlacesOf
  <2> HIDE DEF at, P, n
  <2>8. k \in Outpoints(observations, P)
    BY <1>1, <2>7 DEF PlacesOf, Outpoints
  <2>8a. /\ n \in Nat /\ P \in SUBSET (1 .. n)
         /\ \A i \in P : IsObservation(observations[i])
    BY <2>2, <2>5
  <2>9. Max(at) \in P /\ Outpoint(observations[Max(at)]) = k
    <3>1. Max(PlacesOf(observations, P, k)) \in PlacesOf(observations, P, k)
      BY <2>8, <2>8a, LastPosition
    <3> QED BY <2>7, <3>1, AtIs
  <2>10. /\ IsObservation(r) /\ Outpoint(r) = k
         /\ r.value = observations[Max(at)].value
         /\ r.height = observations[Max(at)].height
         /\ r.first_seen = EarliestSeen(Times(observations, P, k))
    <3> HIDE DEF k
    <3>1. PICK m : m = Max(PlacesOf(observations, P, k))
      OBVIOUS
    <3>2. /\ IsObservation(r) /\ Outpoint(r) = k
          /\ r.value = observations[m].value
          /\ r.height = observations[m].height
          /\ r.first_seen = EarliestSeen(Times(observations, P, k))
      BY <2>8, <2>8a, <3>1, CollapsedIs
    <3> QED BY <2>7, <3>1, <3>2
  <2>11. r.height = o.height
    BY <1>1, <2>3, <2>10
  <2>12. r.tx = o.tx /\ r.vout = o.vout
    BY <2>10 DEF Outpoint
  <2>13. r.value = o.value
    <3>1. PICK v \in Outputs : o.tx = v.tx /\ o.vout = v.vout /\ o.value = v.value
      BY <2>2 DEF OfAnOutput
    <3>2. PICK w \in Outputs : /\ observations[Max(at)].tx = w.tx
                               /\ observations[Max(at)].vout = w.vout
                               /\ observations[Max(at)].value = w.value
      BY <2>5, <2>9 DEF OfAnOutput
    <3>3. <<v.tx, v.vout>> = <<w.tx, w.vout>>
      BY <2>9, <3>1, <3>2 DEF Outpoint
    <3>4. v = w
      BY <3>3, EvaluationAssumption
    <3> QED BY <2>10, <3>1, <3>2, <3>4
  <2>14. r.first_seen <= o.first_seen
    <3>1. observations[Max(at)].first_seen \in Times(observations, P, k)
      BY <2>7, <2>8, <2>8a, LastPosition DEF Times
    <3>2. EarliestSeen(Times(observations, P, k)) <= observations[Max(at)].first_seen
      BY <2>8, <2>8a, <3>1, FirstTime
    <3>3. observations[Max(at)].first_seen <= now /\ observations[Max(at)].first_seen \in Nat
      BY <2>5, <2>9 DEF IsObservation
    <3>4. now \in Nat /\ r.first_seen \in Nat
      BY <1>1, <2>10 DEF EvaluationInv, IsObservation
    <3> QED BY <2>2, <2>10, <3>2, <3>3, <3>4
  <2>15. r \in Deduplicate(observations, P)
         /\ \A s \in Deduplicate(observations, P) : Outpoint(s) = Outpoint(r) => s = r
    <3>1. \A key \in Outpoints(observations, P) :
            Outpoint(Collapsed(observations, P, key)) = key
      BY <2>8a, CollapsedIs
    <3> QED BY <2>8, <3>1, DeduplicateIs
  <2>16. UpsertRow(Deduplicate(observations, P), o) = Deduplicate(observations, P)
    <3>1. IsObservation(o)
      BY <2>2 DEF OfAnOutput
    <3> HIDE DEF r
    <3> QED BY <2>10, <2>11, <2>12, <2>13, <2>14, <2>15, <3>1, SameRowStays
  <2>17. Deduplicate(observations', InScope(observations', Scope))
           = Deduplicate(observations, InScope(observations, Scope))
    BY <2>4, <2>6, <2>16 DEF P
  <2>18. Evaluation' = EvaluateOutputs(Requested,
            Deduplicate(observations', InScope(observations', Scope)),
            tip', required', Scope.expires_at, now')
    BY DEF Evaluation, EvaluatePaymentObservations
  <2> QED BY <2>2, <2>17, <2>18 DEF Evaluation, EvaluatePaymentObservations
<1>2. EvaluationInv /\ [Next]_vars => [
        LET o  == observations'[Len(observations')]
            among == { i \in InScope(observations, Scope) :
                         Outpoint(observations[i]) = Outpoint(o) }
        IN  /\ Len(observations') > Len(observations)
            /\ ObservationBelongsToPayment(o, Scope)
            /\ among # {}
            /\ observations[Max(among)].height = o.height
            => Evaluation' = Evaluation ]_vars
  BY <1>1
<1> QED BY <1>2, InitEvaluation, EvaluationStep, PTL DEF Spec, RepeatedObservationIsHarmless
=============================================================================
