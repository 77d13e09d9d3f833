------------------------ MODULE PaymentStateProofs -------------------------
(***************************************************************************)
(* Lemmas about the pure operators of PaymentState and PaymentRows, for    *)
(* any observations: what a sum of values is, and what the evaluator's     *)
(* collapsing of repeated observations has to do with the store's upsert.  *)
(*                                                                         *)
(* A sum is a fold that takes the outputs in an order nobody knows.  The   *)
(* lemmas count atoms instead: an output of value v stands for v atoms,    *)
(* different outputs have different ones, and the fold returns how many    *)
(* there are.  That a sum of more outputs is no smaller is then what       *)
(* finite sets have anyway.                                                *)
(***************************************************************************)
EXTENDS PaymentRows, FiniteSetTheorems, WellFoundedInduction, TLAPS

(* A set of naturals has a least element.                                  *)
LEMMA LeastNumber ==
  ASSUME NEW S \in SUBSET Nat, S # {} PROVE \E x \in S : \A y \in S : x <= y
<1>1. PICK x \in S : \A y \in S : ~(<<y, x>> \in OpToRel(<, Nat))
  BY WFMin, NatLessThanWellFounded
<1>2. \A y \in S : ~(y < x)
  BY <1>1 DEF OpToRel
<1> QED BY <1>2

LEMMA MinIs ==
  ASSUME NEW S \in SUBSET Nat, S # {} PROVE Min(S) \in S /\ \A y \in S : Min(S) <= y
BY LeastNumber DEF Min

LEMMA MaxIs ==
  ASSUME NEW n \in Nat, NEW S \in SUBSET (1 .. n), S # {}
  PROVE  Max(S) \in S /\ \A y \in S : Max(S) >= y
<1> DEFINE below == { n - x : x \in S }
<1>1. below \in SUBSET Nat /\ below # {}
  <2>1. \A x \in S : n - x \in Nat
    OBVIOUS
  <2> QED BY <2>1
<1>2. PICK least \in below : \A y \in below : least <= y
  <2> HIDE DEF below
  <2> QED BY <1>1, LeastNumber
<1>3. PICK x \in S : least = n - x
  BY <1>2
<1>4. \A y \in S : x >= y
  <2> SUFFICES ASSUME NEW y \in S PROVE x >= y
    OBVIOUS
  <2>1. n - x <= n - y
    BY <1>2, <1>3
  <2> QED BY <2>1
<1> QED BY <1>4 DEF Max

-----------------------------------------------------------------------------
(* Sums.                                                                   *)

Amounts(S) == \A x \in S : x.value \in Nat

AtomsOf(x) == {x} \X (1 .. x.value)
Atoms(S) == UNION { AtomsOf(x) : x \in S }

LEMMA AtomsOfOne ==
  ASSUME NEW x, x.value \in Nat
  PROVE  IsFiniteSet(AtomsOf(x)) /\ Cardinality(AtomsOf(x)) = x.value
<1>1. IsFiniteSet({x}) /\ Cardinality({x}) = 1
  BY FS_Singleton
<1>2. IsFiniteSet(1 .. x.value) /\ Cardinality(1 .. x.value) = x.value
  BY FS_Interval
<1>3. IsFiniteSet({x} \X (1 .. x.value)) /\ Cardinality({x} \X (1 .. x.value)) = 1 * x.value
  BY <1>1, <1>2, FS_Product
<1> QED BY <1>3 DEF AtomsOf

LEMMA AtomsAreFinite ==
  ASSUME NEW S, IsFiniteSet(S), Amounts(S)
  PROVE  IsFiniteSet(Atoms(S)) /\ Cardinality(Atoms(S)) \in Nat
<1> DEFINE each == { AtomsOf(x) : x \in S }
           f == [x \in S |-> AtomsOf(x)]
<1>1. f \in Surjection(S, each)
  BY DEF Surjection
<1>2. IsFiniteSet(each)
  <2> HIDE DEF each, f
  <2> QED BY <1>1, FS_Surjection
<1>3. \A T \in each : IsFiniteSet(T)
  BY AtomsOfOne DEF Amounts
<1>4. IsFiniteSet(UNION each)
  <2> HIDE DEF each
  <2> QED BY <1>2, <1>3, FS_UNION
<1> QED BY <1>4, FS_CardinalityType DEF Atoms

LEMMA AtomsWithout ==
  ASSUME NEW S, IsFiniteSet(S), Amounts(S), NEW x \in S
  PROVE  Cardinality(Atoms(S)) = x.value + Cardinality(Atoms(S \ {x}))
<1> DEFINE T == S \ {x}
<1>1. Atoms(S) = AtomsOf(x) \cup Atoms(T)
  BY DEF Atoms
<1>2. AtomsOf(x) \cap Atoms(T) = {}
  BY DEF Atoms, AtomsOf
<1>3. IsFiniteSet(T) /\ Amounts(T)
  BY FS_Subset DEF Amounts
<1>4. /\ IsFiniteSet(AtomsOf(x)) /\ Cardinality(AtomsOf(x)) = x.value /\ x.value \in Nat
      /\ IsFiniteSet(Atoms(T)) /\ Cardinality(Atoms(T)) \in Nat
  <2> HIDE DEF T
  <2> QED BY <1>3, AtomsOfOne, AtomsAreFinite DEF Amounts
<1> HIDE DEF T
<1>5. Cardinality(AtomsOf(x) \cup Atoms(T))
        = Cardinality(AtomsOf(x)) + Cardinality(Atoms(T)) - Cardinality(AtomsOf(x) \cap Atoms(T))
  BY <1>4, FS_Union
<1>6. Cardinality(AtomsOf(x) \cap Atoms(T)) = 0
  BY <1>2, FS_EmptySet
<1> QED BY <1>1, <1>4, <1>5, <1>6 DEF T

Some(s) == CHOOSE x \in s : TRUE

(* What the fold computes is the number of atoms.                          *)
LEMMA SumCountsAtoms ==
  ASSUME NEW S, IsFiniteSet(S), Amounts(S)
  PROVE  SumValues(S) = Cardinality(Atoms(S))
<1> DEFINE Sums(g) == g = [s \in SUBSET S |->
                             IF s = {} THEN 0 ELSE Some(s).value + g[s \ {Some(s)}]]
           count == [s \in SUBSET S |-> Cardinality(Atoms(s))]
           sum == CHOOSE g : Sums(g)
<1>1. SumValues(S) = sum[S]
  BY DEF SumValues, MapThenSumSet, MapThenFoldSet, Some
<1>2. \A s \in SUBSET S : IsFiniteSet(s) /\ Amounts(s)
  BY FS_Subset DEF Amounts
<1>3. \A s \in SUBSET S : s # {} => Some(s) \in s
  BY DEF Some
<1>4. Cardinality(Atoms({})) = 0
  BY FS_EmptySet DEF Atoms
<1>5. \A s \in SUBSET S :
        Cardinality(Atoms(s)) =
          IF s = {} THEN 0 ELSE Some(s).value + Cardinality(Atoms(s \ {Some(s)}))
  BY <1>2, <1>3, <1>4, AtomsWithout
<1>6. Sums(count)
  BY <1>5
<1>7. Sums(sum)
  <2> HIDE DEF Sums, count
  <2> QED BY <1>6
<1>8. \A s \in SUBSET S :
        sum[s] = IF s = {} THEN 0 ELSE Some(s).value + sum[s \ {Some(s)}]
  <2> HIDE DEF sum
  <2>1. sum = [s \in SUBSET S |->
                 IF s = {} THEN 0 ELSE Some(s).value + sum[s \ {Some(s)}]]
    BY <1>7
  <2> QED BY <2>1
<1> HIDE DEF sum
<1> DEFINE wrong == { s \in SUBSET S : sum[s] # Cardinality(Atoms(s)) }
           sizes == { Cardinality(s) : s \in wrong }
<1>9. ASSUME wrong # {} PROVE FALSE
  <2>1. sizes \in SUBSET Nat /\ sizes # {}
    BY <1>2, <1>9, FS_CardinalityType
  <2>2. PICK n \in sizes : \A m \in sizes : n <= m
    <3> HIDE DEF sizes
    <3> QED BY <2>1, LeastNumber
  <2>3. PICK s \in wrong : n = Cardinality(s)
    BY <2>2
  <2>4. s # {}
    BY <1>4, <1>8, <2>3
  <2>5. /\ s \ {Some(s)} \in SUBSET S
        /\ Cardinality(s \ {Some(s)}) = Cardinality(s) - 1
        /\ Cardinality(s) \in Nat
    BY <1>2, <1>3, <2>3, <2>4, FS_RemoveElement, FS_CardinalityType
  <2>6. s \ {Some(s)} \notin wrong
    <3>1. ASSUME s \ {Some(s)} \in wrong PROVE FALSE
      <4>1. Cardinality(s \ {Some(s)}) \in sizes
        BY <3>1
      <4>2. n <= Cardinality(s) - 1
        <5> HIDE DEF sizes
        <5> QED BY <2>2, <2>5, <4>1
      <4> QED BY <2>3, <2>5, <4>2
    <3> QED BY <3>1
  <2>7. sum[s \ {Some(s)}] = Cardinality(Atoms(s \ {Some(s)}))
    BY <2>5, <2>6
  <2>8. s \in SUBSET S /\ sum[s] # Cardinality(Atoms(s))
    BY <2>3
  <2> QED BY <1>5, <1>8, <2>4, <2>7, <2>8
<1>10. sum[S] = Cardinality(Atoms(S))
  BY <1>9
<1> QED BY <1>1, <1>10

LEMMA SumIsNatural ==
  ASSUME NEW S, IsFiniteSet(S), Amounts(S) PROVE SumValues(S) \in Nat
BY SumCountsAtoms, AtomsAreFinite

LEMMA SumGrows ==
  ASSUME NEW S, IsFiniteSet(S), Amounts(S), NEW T \in SUBSET S
  PROVE  SumValues(T) <= SumValues(S)
<1>1. IsFiniteSet(T) /\ Amounts(T)
  BY FS_Subset DEF Amounts
<1>2. Atoms(T) \in SUBSET Atoms(S)
  BY DEF Atoms
<1>3. Cardinality(Atoms(T)) <= Cardinality(Atoms(S))
  BY <1>2, AtomsAreFinite, FS_Subset
<1> QED BY <1>1, <1>3, SumCountsAtoms

LEMMA SumIsPositive ==
  ASSUME NEW S, IsFiniteSet(S), Amounts(S), NEW x \in S, x.value > 0
  PROVE  SumValues(S) > 0
<1>1. Cardinality(Atoms(S)) = x.value + Cardinality(Atoms(S \ {x}))
  BY AtomsWithout
<1>2. IsFiniteSet(S \ {x}) /\ Amounts(S \ {x})
  BY FS_Subset DEF Amounts
<1>3. Cardinality(Atoms(S \ {x})) \in Nat
  BY <1>2, AtomsAreFinite
<1> QED BY <1>1, <1>3, SumCountsAtoms DEF Amounts

-----------------------------------------------------------------------------
(* Repeated observations.                                                  *)

IsObservation(o) ==
  /\ o = [tx |-> o.tx, vout |-> o.vout, value |-> o.value,
          height |-> o.height, first_seen |-> o.first_seen]
  /\ o.value \in Nat
  /\ o.height \in Nat
  /\ o.first_seen \in Nat

(* The parts of Deduplicate.                                               *)
PlacesOf(observations, positions, k) ==
  { i \in positions : Outpoint(observations[i]) = k }
Times(observations, positions, k) ==
  { observations[i].first_seen : i \in PlacesOf(observations, positions, k) }
Outpoints(observations, positions) ==
  { Outpoint(observations[i]) : i \in positions }
Collapsed(observations, positions, k) ==
  [observations[Max(PlacesOf(observations, positions, k))]
     EXCEPT !.first_seen = EarliestSeen(Times(observations, positions, k))]

LEMMA DeduplicateIs ==
  ASSUME NEW observations, NEW positions
  PROVE  Deduplicate(observations, positions) =
           { Collapsed(observations, positions, k) :
             k \in Outpoints(observations, positions) }
BY DEF Deduplicate, Collapsed, Outpoints, Times, PlacesOf

LEMMA EarliestIs ==
  ASSUME NEW times \in SUBSET Nat, times # {}
  PROVE  /\ EarliestSeen(times) \in times
         /\ \A t \in times : EarliestSeen(times) <= t
<1>1. times \ {None} = times
  BY DEF None
<1> QED BY <1>1, MinIs DEF EarliestSeen

LEMMA EarliestOfMore ==
  ASSUME NEW times \in SUBSET Nat, times # {}, NEW t \in Nat
  PROVE  EarliestSeen({EarliestSeen(times)} \cup {t}) = EarliestSeen(times \cup {t})
<1> DEFINE few == {EarliestSeen(times)} \cup {t}
           all == times \cup {t}
<1>1. EarliestSeen(times) \in times /\ \A x \in times : EarliestSeen(times) <= x
  BY EarliestIs
<1>2. few \in SUBSET Nat /\ few # {} /\ all \in SUBSET Nat /\ all # {}
  BY <1>1
<1>3. /\ EarliestSeen(few) \in few /\ \A x \in few : EarliestSeen(few) <= x
      /\ EarliestSeen(all) \in all /\ \A x \in all : EarliestSeen(all) <= x
  <2> HIDE DEF few, all
  <2> QED BY <1>2, EarliestIs
<1>4. EarliestSeen(few) \in all
  BY <1>1, <1>3
<1>5. EarliestSeen(all) <= EarliestSeen(few)
  BY <1>3, <1>4
<1>6. EarliestSeen(few) <= EarliestSeen(all)
  <2>1. CASE EarliestSeen(all) = t
    BY <1>3, <2>1
  <2>2. CASE EarliestSeen(all) \in times
    <3>1. EarliestSeen(times) <= EarliestSeen(all)
      BY <1>1, <2>2
    <3>2. EarliestSeen(few) <= EarliestSeen(times)
      BY <1>3
    <3>3. /\ EarliestSeen(few) \in Nat /\ EarliestSeen(all) \in Nat
          /\ EarliestSeen(times) \in Nat
      BY <1>1, <1>2, <1>3
    <3> HIDE DEF few, all
    <3> QED BY <3>1, <3>2, <3>3
  <2> QED BY <1>3, <2>1, <2>2
<1>7. EarliestSeen(few) \in Nat /\ EarliestSeen(all) \in Nat
  BY <1>2, <1>3
<1> QED BY <1>5, <1>6, <1>7

LEMMA AtIs ==
  ASSUME NEW observations, NEW positions, NEW k, NEW i \in PlacesOf(observations, positions, k)
  PROVE  i \in positions /\ Outpoint(observations[i]) = k
BY DEF PlacesOf

(* What is kept of an output is where it was seen last, and when first.    *)
LEMMA LastPosition ==
  ASSUME NEW n \in Nat, NEW observations, NEW positions \in SUBSET (1 .. n),
         \A i \in positions : IsObservation(observations[i]),
         NEW k \in Outpoints(observations, positions)
  PROVE  /\ Max(PlacesOf(observations, positions, k)) \in PlacesOf(observations, positions, k)
         /\ \A j \in PlacesOf(observations, positions, k) : j <= Max(PlacesOf(observations, positions, k))
<1> DEFINE at == PlacesOf(observations, positions, k)
<1>1. at \in SUBSET (1 .. n) /\ at # {}
  BY DEF PlacesOf, Outpoints
<1>2. Max(at) \in at /\ \A j \in at : Max(at) >= j
  <2> HIDE DEF at
  <2> QED BY <1>1, MaxIs
<1>3. \A j \in at : j \in Nat
  BY <1>1
<1> HIDE DEF at
<1>4. Max(at) \in at /\ \A j \in at : j <= Max(at)
  BY <1>2, <1>3
<1> QED BY <1>4 DEF at

LEMMA FirstTime ==
  ASSUME NEW n \in Nat, NEW observations, NEW positions \in SUBSET (1 .. n),
         \A i \in positions : IsObservation(observations[i]),
         NEW k \in Outpoints(observations, positions)
  PROVE  /\ Times(observations, positions, k) \in SUBSET Nat
         /\ Times(observations, positions, k) # {}
         /\ EarliestSeen(Times(observations, positions, k)) \in Times(observations, positions, k)
         /\ \A t \in Times(observations, positions, k) :
              EarliestSeen(Times(observations, positions, k)) <= t
<1> DEFINE times == Times(observations, positions, k)
<1>1. times \in SUBSET Nat /\ times # {}
  BY DEF Times, PlacesOf, Outpoints, IsObservation
<1>2. EarliestSeen(times) \in times /\ \A t \in times : EarliestSeen(times) <= t
  <2> HIDE DEF times
  <2> QED BY <1>1, EarliestIs
<1> QED BY <1>1, <1>2

LEMMA CollapsedIs ==
  ASSUME NEW n \in Nat, NEW observations, NEW positions \in SUBSET (1 .. n),
         \A i \in positions : IsObservation(observations[i]),
         NEW k \in Outpoints(observations, positions)
  PROVE  LET r == Collapsed(observations, positions, k)
             o == observations[Max(PlacesOf(observations, positions, k))]
         IN  /\ IsObservation(r)
             /\ Outpoint(r) = k
             /\ r.tx = o.tx /\ r.vout = o.vout
             /\ r.value = o.value /\ r.height = o.height
             /\ r.first_seen = EarliestSeen(Times(observations, positions, k))
<1> DEFINE at == PlacesOf(observations, positions, k)
           times == Times(observations, positions, k)
           r == Collapsed(observations, positions, k)
<1>1. Max(at) \in positions /\ Outpoint(observations[Max(at)]) = k
  BY LastPosition, AtIs
<1>2. /\ r = [observations[Max(at)] EXCEPT !.first_seen = EarliestSeen(times)]
      /\ IsObservation(observations[Max(at)])
  BY <1>1 DEF Collapsed
<1>3. EarliestSeen(times) \in Nat
  BY FirstTime
<1>4. /\ r.tx = observations[Max(at)].tx /\ r.vout = observations[Max(at)].vout
      /\ r.value = observations[Max(at)].value /\ r.height = observations[Max(at)].height
      /\ r.first_seen = EarliestSeen(times)
      /\ IsObservation(r)
  <2> HIDE DEF r, at, times
  <2> QED BY <1>2, <1>3 DEF IsObservation
<1> HIDE DEF r, at, times
<1>5. Outpoint(r) = k
  BY <1>1, <1>4 DEF Outpoint
<1> QED BY <1>4, <1>5 DEF r, at, times

(* One more observation does to what is kept of the others exactly what    *)
(* the store's upsert does to the rows.                                    *)
LEMMA OneMoreIsAnUpsert ==
  ASSUME NEW n \in Nat, NEW observations, NEW more, NEW o,
         NEW positions \in SUBSET (1 .. n),
         \A i \in positions : IsObservation(observations[i]),
         \A i \in positions : more[i] = observations[i],
         IsObservation(o), more[n + 1] = o
  PROVE  Deduplicate(more, positions \cup {n + 1})
           = UpsertRow(Deduplicate(observations, positions), o)
<1> DEFINE P == positions \cup {n + 1}
           key == Outpoint(o)
           old(k) == Collapsed(observations, positions, k)
           kept == Outpoints(observations, positions)
<1>1. Outpoints(more, P) = kept \cup {key}
  BY DEF Outpoints
<1>2. \A k : k # key => /\ PlacesOf(more, P, k) = PlacesOf(observations, positions, k)
                        /\ Times(more, P, k) = Times(observations, positions, k)
  <2> SUFFICES ASSUME NEW k, k # key
               PROVE  /\ PlacesOf(more, P, k) = PlacesOf(observations, positions, k)
                      /\ Times(more, P, k) = Times(observations, positions, k)
    OBVIOUS
  <2>1. PlacesOf(more, P, k) = PlacesOf(observations, positions, k)
    BY DEF PlacesOf
  <2>2. \A i \in PlacesOf(observations, positions, k) : more[i] = observations[i]
    BY DEF PlacesOf
  <2> QED BY <2>1, <2>2 DEF Times
<1>3. \A k \in kept : k # key => Collapsed(more, P, k) = old(k)
  <2> SUFFICES ASSUME NEW k \in kept, k # key PROVE Collapsed(more, P, k) = old(k)
    OBVIOUS
  <2>1. Max(PlacesOf(observations, positions, k)) \in positions
    BY LastPosition, AtIs
  <2> QED BY <1>2, <2>1 DEF Collapsed
<1>4. \A k \in kept : Outpoint(old(k)) = k
  BY CollapsedIs
<1>4a. \A k \in kept : old(k).first_seen = EarliestSeen(Times(observations, positions, k))
  BY CollapsedIs
<1>5. Deduplicate(observations, positions) = { old(k) : k \in kept }
  BY DeduplicateIs
<1>6. Deduplicate(more, P) = { Collapsed(more, P, k) : k \in kept \cup {key} }
  BY <1>1, DeduplicateIs
<1>7. PlacesOf(more, P, key) = PlacesOf(observations, positions, key) \cup {n + 1}
  BY DEF PlacesOf
<1>8. Max(PlacesOf(more, P, key)) = n + 1
  <2> DEFINE at == PlacesOf(more, P, key)
  <2>1. at \in SUBSET (1 .. (n + 1)) /\ at # {} /\ n + 1 \in at
    <3>1. at \subseteq P /\ n + 1 \in at
      BY <1>7 DEF PlacesOf
    <3>2. P \subseteq 1 .. (n + 1)
      OBVIOUS
    <3> HIDE DEF at, P
    <3> QED BY <3>1, <3>2
  <2>2. Max(at) \in at /\ Max(at) >= n + 1
    <3>1. n + 1 \in Nat
      OBVIOUS
    <3> HIDE DEF at
    <3> QED BY <2>1, <3>1, MaxIs
  <2>3. Max(at) \in 1 .. (n + 1)
    BY <2>1, <2>2
  <2> QED BY <2>2, <2>3
<1>9. Times(more, P, key) = Times(observations, positions, key) \cup {o.first_seen}
  <2>1. \A i \in PlacesOf(observations, positions, key) : more[i] = observations[i]
    BY DEF PlacesOf
  <2> QED BY <1>7, <2>1 DEF Times
<1>10. Collapsed(more, P, key)
         = [o EXCEPT !.first_seen =
              EarliestSeen(Times(observations, positions, key) \cup {o.first_seen})]
  BY <1>8, <1>9 DEF Collapsed
<1>11. RowFor(Deduplicate(observations, positions), o)
         = IF key \in kept THEN {old(key)} ELSE {}
  BY <1>4, <1>5 DEF RowFor
<1> DEFINE rows == RowFor(Deduplicate(observations, positions), o)
           seen == EarliestSeen({ r.first_seen : r \in rows } \cup {o.first_seen})
<1>12. seen = EarliestSeen(Times(observations, positions, key) \cup {o.first_seen})
  <2>1. CASE key \in kept
    <3>1. old(key).first_seen = EarliestSeen(Times(observations, positions, key))
      BY <2>1, <1>4a
    <3>2. Times(observations, positions, key) \in SUBSET Nat
          /\ Times(observations, positions, key) # {}
      BY <2>1 DEF Times, PlacesOf, Outpoints, IsObservation
    <3>3. { r.first_seen : r \in rows } = {EarliestSeen(Times(observations, positions, key))}
      BY <1>11, <2>1, <3>1
    <3>4. o.first_seen \in Nat
      BY DEF IsObservation
    <3> DEFINE times == Times(observations, positions, key)
    <3>5. EarliestSeen({EarliestSeen(times)} \cup {o.first_seen})
            = EarliestSeen(times \cup {o.first_seen})
      <4>1. times \in SUBSET Nat /\ times # {}
        BY <3>2
      <4> HIDE DEF times
      <4> QED BY <3>4, <4>1, EarliestOfMore
    <3> QED BY <3>3, <3>5
  <2>2. CASE key \notin kept
    <3>1. Times(observations, positions, key) = {}
      BY <2>2 DEF Times, PlacesOf, Outpoints
    <3> QED BY <1>11, <2>2, <3>1
  <2> QED BY <2>1, <2>2
<1>13. Deduplicate(observations, positions) \ rows = { old(k) : k \in kept \ {key} }
  <2> DEFINE all == Deduplicate(observations, positions)
  <2>1. \A j, k \in kept : old(j) = old(k) => j = k
    BY <1>4
  <2>2. rows = IF key \in kept THEN {old(key)} ELSE {}
    BY <1>11
  <2>3. all = { old(k) : k \in kept }
    BY <1>5
  <2> HIDE DEF all, rows, old, kept, key
  <2>4. all \ rows = { old(k) : k \in kept \ {key} }
    BY <2>1, <2>2, <2>3
  <2> QED BY <2>4 DEF all
<1>14. Deduplicate(more, P)
         = { old(k) : k \in kept \ {key} } \cup { [o EXCEPT !.first_seen = seen] }
  <2>1. Collapsed(more, P, key) = [o EXCEPT !.first_seen = seen]
    BY <1>10, <1>12
  <2>2. { Collapsed(more, P, k) : k \in kept \ {key} } = { old(k) : k \in kept \ {key} }
    BY <1>3
  <2>3. { Collapsed(more, P, k) : k \in kept \cup {key} }
          = { Collapsed(more, P, k) : k \in kept \ {key} } \cup {Collapsed(more, P, key)}
    OBVIOUS
  <2> HIDE DEF old, kept, seen, P
  <2> QED BY <1>6, <2>1, <2>2, <2>3
<1> QED BY <1>13, <1>14 DEF UpsertRow

(* What is kept is finite, and each of it is an observation.               *)
LEMMA KeptIsFinite ==
  ASSUME NEW n \in Nat, NEW observations, NEW positions \in SUBSET (1 .. n),
         \A i \in positions : IsObservation(observations[i])
  PROVE  /\ IsFiniteSet(Deduplicate(observations, positions))
         /\ \A r \in Deduplicate(observations, positions) : IsObservation(r)
<1> DEFINE kept == Deduplicate(observations, positions)
           f == [i \in positions |-> Collapsed(observations, positions, Outpoint(observations[i]))]
<1>1. kept = { Collapsed(observations, positions, k) : k \in Outpoints(observations, positions) }
  BY DeduplicateIs
<1>2. f \in Surjection(positions, kept)
  BY <1>1 DEF Surjection, Outpoints
<1>3. IsFiniteSet(positions)
  <2>1. IsFiniteSet(1 .. n)
    BY FS_Interval
  <2> QED BY <2>1, FS_Subset
<1>4. IsFiniteSet(kept)
  <2> HIDE DEF f, kept
  <2> QED BY <1>2, <1>3, FS_Surjection
<1>5. \A k \in Outpoints(observations, positions) :
        IsObservation(Collapsed(observations, positions, k))
  BY CollapsedIs
<1> QED BY <1>1, <1>4, <1>5

(* If all that is collapsed falls in the payment's window, so does what is *)
(* kept: the height is one that was seen, and so is the first-seen time.   *)
LEMMA KeptBelongs ==
  ASSUME NEW n \in Nat, NEW observations, NEW positions \in SUBSET (1 .. n), NEW scope,
         \A i \in positions : /\ IsObservation(observations[i])
                              /\ ObservationBelongsToPayment(observations[i], scope)
  PROVE  \A r \in Deduplicate(observations, positions) : ObservationBelongsToPayment(r, scope)
<1> SUFFICES ASSUME NEW k \in Outpoints(observations, positions)
             PROVE  ObservationBelongsToPayment(Collapsed(observations, positions, k), scope)
  BY DeduplicateIs
<1> DEFINE r == Collapsed(observations, positions, k)
           last == Max(PlacesOf(observations, positions, k))
<1>0. \A i \in positions : IsObservation(observations[i])
  OBVIOUS
<1>1. last \in PlacesOf(observations, positions, k) /\ last \in positions
  BY <1>0, LastPosition, AtIs
<1>2. r.height = observations[last].height
      /\ r.first_seen = EarliestSeen(Times(observations, positions, k))
  BY <1>0, CollapsedIs
<1>3. /\ EarliestSeen(Times(observations, positions, k)) \in Times(observations, positions, k)
      /\ \A t \in Times(observations, positions, k) :
           EarliestSeen(Times(observations, positions, k)) <= t
  BY <1>0, FirstTime
<1>4. PICK j \in positions : r.first_seen = observations[j].first_seen
  BY <1>2, <1>3 DEF Times, PlacesOf
<1>5. observations[last].first_seen \in Times(observations, positions, k)
  BY <1>1 DEF Times
<1>6. r.first_seen <= observations[last].first_seen
  BY <1>2, <1>3, <1>5
<1>7. /\ ObservationBelongsToPayment(observations[last], scope)
      /\ ObservationBelongsToPayment(observations[j], scope)
      /\ observations[last].first_seen \in Nat /\ observations[j].first_seen \in Nat
  BY <1>1, <1>4 DEF IsObservation
<1> HIDE DEF r, last
<1> QED BY <1>2, <1>4, <1>6, <1>7 DEF ObservationBelongsToPayment, None, r

-----------------------------------------------------------------------------
(* The evaluation of distinct outputs.                                     *)

FiniteOutputs(S) == IsFiniteSet(S) /\ \A o \in S : IsObservation(o)

Policy(outputs, tip, required) ==
  IF required = 0 THEN SumValues(outputs)
  ELSE SumValues({ o \in outputs : ConfirmationsForHeight(o.height, tip) >= required })

LEMMA EvaluationIs ==
  ASSUME NEW requested, NEW outputs, NEW tip, NEW required, NEW expires_at, NEW now
  PROVE  EvaluateOutputs(requested, outputs, tip, required, expires_at, now) =
           [ status    |-> StatusFor(requested, SumValues(outputs),
                             Policy(outputs, tip, required),
                             { o \in outputs : o.height <= 0 },
                             expires_at # None /\ now > expires_at),
             received  |-> SumValues(outputs),
             confirmed |-> SumValues({ o \in outputs : o.height > 0 }),
             policy    |-> Policy(outputs, tip, required) ]
BY DEF EvaluateOutputs, Policy

LEMMA PartsAreNumbers ==
  ASSUME NEW outputs, FiniteOutputs(outputs), NEW tip, NEW required
  PROVE  /\ SumValues(outputs) \in Nat
         /\ SumValues({ o \in outputs : o.height > 0 }) \in Nat
         /\ Policy(outputs, tip, required) \in Nat
<1>1. \A T \in SUBSET outputs : SumValues(T) \in Nat
  BY SumIsNatural, FS_Subset DEF FiniteOutputs, IsObservation, Amounts
<1> QED BY <1>1 DEF Policy

LEMMA PolicyIsConfirmed ==
  ASSUME NEW outputs, FiniteOutputs(outputs), NEW tip \in Nat, NEW required \in Nat
  PROVE  /\ SumValues({ o \in outputs : o.height > 0 }) <= SumValues(outputs)
         /\ required > 0 => Policy(outputs, tip, required)
                              <= SumValues({ o \in outputs : o.height > 0 })
<1> DEFINE confirmed == { o \in outputs : o.height > 0 }
           deep == { o \in outputs : ConfirmationsForHeight(o.height, tip) >= required }
<1>1. \A T \in SUBSET outputs : IsFiniteSet(T) /\ Amounts(T)
  BY FS_Subset DEF FiniteOutputs, IsObservation, Amounts
<1>2. SumValues(confirmed) <= SumValues(outputs)
  BY <1>1, SumGrows
<1>3. required > 0 => deep \in SUBSET confirmed
  BY DEF ConfirmationsForHeight, FiniteOutputs, IsObservation
<1>4. required > 0 => SumValues(deep) <= SumValues(confirmed)
  BY <1>1, <1>3, SumGrows
<1> QED BY <1>2, <1>4 DEF Policy

LEMMA PolicyGrowsWithTheTip ==
  ASSUME NEW outputs, FiniteOutputs(outputs), NEW tip \in Nat, NEW later \in Nat,
         tip <= later, NEW required \in Nat
  PROVE  Policy(outputs, tip, required) <= Policy(outputs, later, required)
<1> DEFINE deep(t) == { o \in outputs : ConfirmationsForHeight(o.height, t) >= required }
<1>1. \A T \in SUBSET outputs : IsFiniteSet(T) /\ Amounts(T)
  BY FS_Subset DEF FiniteOutputs, IsObservation, Amounts
<1>2. \A o \in outputs : o.height \in Nat
  BY DEF FiniteOutputs, IsObservation
<1>3. CASE required = 0
  <2>1. SumValues(outputs) \in Nat
    BY <1>1, SumIsNatural
  <2> QED BY <1>3, <2>1 DEF Policy
<1>4. CASE required # 0
  <2>1. deep(tip) \in SUBSET deep(later)
    BY <1>2, <1>4 DEF ConfirmationsForHeight
  <2>2. SumValues(deep(tip)) <= SumValues(deep(later))
    <3>1. IsFiniteSet(deep(later)) /\ Amounts(deep(later))
      BY <1>1
    <3> HIDE DEF deep
    <3> QED BY <2>1, <3>1, SumGrows
  <2> QED BY <1>4, <2>2 DEF Policy
<1> QED BY <1>3, <1>4

(* The clock alone.                                                        *)
OnlyExpires(before, after) ==
  /\ [after EXCEPT !.status = before.status] = before
  /\ after.status # before.status =>
       /\ before.status \in {"waiting", "partial"}
       /\ after.status = "expired"

LEMMA ClockOnly ==
  ASSUME NEW requested \in Nat \ {0}, NEW outputs, FiniteOutputs(outputs),
         \A o \in outputs : o.value > 0,
         NEW tip \in Nat, NEW required \in Nat, NEW expires_at \in Nat,
         NEW now \in Nat, NEW later \in Nat, now <= later,
         NEW before, NEW after,
         before = EvaluateOutputs(requested, outputs, tip, required, expires_at, now),
         after = EvaluateOutputs(requested, outputs, tip, required, expires_at, later)
  PROVE  OnlyExpires(before, after)
<1> DEFINE received == SumValues(outputs)
           policy == Policy(outputs, tip, required)
           unconfirmed == { o \in outputs : o.height <= 0 }
<1>1. received \in Nat /\ policy \in Nat
  BY PartsAreNumbers
<1>2. received = 0 => unconfirmed = {}
  <2>1. ASSUME NEW o \in outputs PROVE received > 0
    BY <2>1, SumIsPositive DEF FiniteOutputs, IsObservation, Amounts
  <2> QED BY <2>1
<1> HIDE DEF received, policy, unconfirmed
<1>3. expires_at # None /\ (now > expires_at => later > expires_at)
  BY DEF None
<1> DEFINE confirmed == SumValues({ o \in outputs : o.height > 0 })
           status(time) == StatusFor(requested, received, policy, unconfirmed,
                                     expires_at # None /\ time > expires_at)
           value(time) == [ status |-> status(time), received |-> received,
                            confirmed |-> confirmed, policy |-> policy ]
<1>4. /\ EvaluateOutputs(requested, outputs, tip, required, expires_at, now) = value(now)
      /\ EvaluateOutputs(requested, outputs, tip, required, expires_at, later) = value(later)
  BY EvaluationIs DEF received, policy, unconfirmed
<1>5. [value(later) EXCEPT !.status = value(now).status] = value(now)
  <2> HIDE DEF status, confirmed
  <2> QED OBVIOUS
<1>6. value(later).status # value(now).status =>
        /\ value(now).status \in {"waiting", "partial"}
        /\ value(later).status = "expired"
  BY <1>1, <1>2, <1>3 DEF StatusFor
<1> HIDE DEF value
<1>7. before = value(now) /\ after = value(later)
  BY <1>4
<1> QED BY <1>5, <1>6, <1>7 DEF OnlyExpires

(* A new block alone.                                                      *)
LEMMA BlockOnly ==
  ASSUME NEW requested \in Nat \ {0}, NEW outputs, FiniteOutputs(outputs),
         NEW tip \in Nat, NEW higher \in Nat, tip <= higher,
         NEW required \in Nat, NEW expires_at, NEW now,
         NEW before, NEW after,
         before = EvaluateOutputs(requested, outputs, tip, required, expires_at, now),
         after = EvaluateOutputs(requested, outputs, higher, required, expires_at, now)
  PROVE  /\ after.policy >= before.policy
         /\ after.received = before.received
         /\ before.status = "paid_confirmed" => after.status = "paid_confirmed"
<1> DEFINE received == SumValues(outputs)
           low == Policy(outputs, tip, required)
           high == Policy(outputs, higher, required)
<1>1. received \in Nat /\ low \in Nat /\ high \in Nat
  BY PartsAreNumbers
<1>2. low <= high
  BY PolicyGrowsWithTheTip
<1> HIDE DEF received, low, high
<1> DEFINE value(policy) ==
      [ status |-> StatusFor(requested, received, policy, { o \in outputs : o.height <= 0 },
                             expires_at # None /\ now > expires_at),
        received |-> received,
        confirmed |-> SumValues({ o \in outputs : o.height > 0 }),
        policy |-> policy ]
<1>3. /\ EvaluateOutputs(requested, outputs, tip, required, expires_at, now) = value(low)
      /\ EvaluateOutputs(requested, outputs, higher, required, expires_at, now) = value(high)
  BY EvaluationIs DEF received, low, high
<1>4. value(low).status = "paid_confirmed" => value(high).status = "paid_confirmed"
  BY <1>1, <1>2 DEF StatusFor
<1>5. /\ value(high).policy = high /\ value(low).policy = low
      /\ value(high).received = value(low).received
  OBVIOUS
<1> HIDE DEF value
<1> QED BY <1>1, <1>2, <1>3, <1>4, <1>5

-----------------------------------------------------------------------------
(* What an upsert does to the rows of a payment and to their sum.          *)

RowsOK(rows) ==
  /\ FiniteOutputs(rows)
  /\ \A r, s \in rows : Outpoint(r) = Outpoint(s) => r = s

(* The row that an upsert leaves for its output.                           *)
SeenTimes(rows, o) == { r.first_seen : r \in RowFor(rows, o) } \cup {o.first_seen}
Renewed(rows, o) == [o EXCEPT !.first_seen = EarliestSeen(SeenTimes(rows, o))]

LEMMA UpsertIs ==
  ASSUME NEW rows, NEW o
  PROVE  UpsertRow(rows, o) = (rows \ RowFor(rows, o)) \cup {Renewed(rows, o)}
BY DEF UpsertRow, Renewed, SeenTimes

LEMMA RenewedIs ==
  ASSUME NEW rows, FiniteOutputs(rows), NEW o, IsObservation(o), NEW new,
         new = Renewed(rows, o)
  PROVE  /\ IsObservation(new)
         /\ Outpoint(new) = Outpoint(o)
         /\ new.tx = o.tx /\ new.vout = o.vout
         /\ new.value = o.value
         /\ new.height = o.height
         /\ new.first_seen \in SeenTimes(rows, o)
         /\ \A t \in SeenTimes(rows, o) : new.first_seen <= t
<1> DEFINE times == SeenTimes(rows, o)
           seen == EarliestSeen(times)
<1>1. times \in SUBSET Nat /\ times # {}
  BY DEF SeenTimes, RowFor, FiniteOutputs, IsObservation
<1> HIDE DEF times
<1>2. seen \in times /\ \A t \in times : seen <= t
  BY <1>1, EarliestIs
<1>3. seen \in Nat
  BY <1>1, <1>2
<1>4. new = [o EXCEPT !.first_seen = seen]
  BY DEF Renewed, times
<1> HIDE DEF seen
<1>5. o = [tx |-> o.tx, vout |-> o.vout, value |-> o.value, height |-> o.height,
           first_seen |-> o.first_seen]
  BY DEF IsObservation
<1>6. /\ new = [tx |-> o.tx, vout |-> o.vout, value |-> o.value, height |-> o.height,
                first_seen |-> seen]
      /\ new.tx = o.tx /\ new.vout = o.vout /\ new.value = o.value
      /\ new.height = o.height /\ new.first_seen = seen
  BY <1>4, <1>5
<1>7. IsObservation(new)
  BY <1>3, <1>6 DEF IsObservation
<1> QED BY <1>2, <1>6, <1>7 DEF Outpoint, times

LEMMA UpsertKeepsRows ==
  ASSUME NEW rows, RowsOK(rows), NEW o, IsObservation(o)
  PROVE  RowsOK(UpsertRow(rows, o))
<1> DEFINE new == Renewed(rows, o)
           all == UpsertRow(rows, o)
           old == RowFor(rows, o)
<1>1. all = (rows \ old) \cup {new}
  BY UpsertIs
<1>2. IsObservation(new) /\ Outpoint(new) = Outpoint(o)
  BY RenewedIs DEF RowsOK
<1>3. \A r \in rows \ old : r \in rows /\ Outpoint(r) # Outpoint(o)
  BY DEF RowFor
<1> HIDE DEF new, all, old
<1>4. IsFiniteSet(all)
  <2>1. IsFiniteSet(rows \ old)
    BY FS_Subset DEF RowsOK, FiniteOutputs
  <2> QED BY <1>1, <2>1, FS_AddElement
<1>5. \A r \in all : IsObservation(r)
  BY <1>1, <1>2 DEF RowsOK, FiniteOutputs
<1>6. \A r, s \in all : Outpoint(r) = Outpoint(s) => r = s
  BY <1>1, <1>2, <1>3 DEF RowsOK
<1> QED BY <1>4, <1>5, <1>6 DEF RowsOK, FiniteOutputs, all

LEMMA SumWithout ==
  ASSUME NEW S, IsFiniteSet(S), Amounts(S), NEW x \in S
  PROVE  /\ SumValues(S) = x.value + SumValues(S \ {x})
         /\ SumValues(S \ {x}) \in Nat
<1>1. IsFiniteSet(S \ {x}) /\ Amounts(S \ {x})
  BY FS_Subset DEF Amounts
<1> QED BY <1>1, AtomsWithout, SumCountsAtoms, SumIsNatural

(* A sum over rows does not shrink by an upsert of the value that is there *)
(* already, as long as what counted goes on counting.                      *)
LEMMA UpsertKeepsTheSum ==
  ASSUME NEW rows, RowsOK(rows), NEW o, IsObservation(o), ~UpsertRefused(rows, o),
         NEW counted \in SUBSET rows, NEW later \in SUBSET UpsertRow(rows, o),
         \A r \in counted : Outpoint(r) # Outpoint(o) => r \in later,
         (\E r \in counted : Outpoint(r) = Outpoint(o)) => Renewed(rows, o) \in later
  PROVE  SumValues(counted) <= SumValues(later)
<1> DEFINE new == Renewed(rows, o)
<1>1. /\ IsFiniteSet(counted) /\ Amounts(counted)
      /\ IsFiniteSet(later) /\ Amounts(later)
  <2>1. RowsOK(UpsertRow(rows, o))
    BY UpsertKeepsRows
  <2>2. \A S, T : FiniteOutputs(S) /\ T \subseteq S => IsFiniteSet(T) /\ Amounts(T)
    BY FS_Subset DEF FiniteOutputs, Amounts, IsObservation
  <2> QED BY <2>1, <2>2 DEF RowsOK
<1>2. CASE \A r \in counted : Outpoint(r) # Outpoint(o)
  BY <1>1, <1>2, SumGrows
<1>3. ASSUME NEW x \in counted, Outpoint(x) = Outpoint(o) PROVE SumValues(counted) <= SumValues(later)
  <2>1. new \in later /\ new.value = o.value /\ Outpoint(new) = Outpoint(o)
    BY <1>3, RenewedIs DEF RowsOK
  <2>2. x.value = o.value
    BY <1>3 DEF UpsertRefused, RowFor
  <2> HIDE DEF new
  <2> DEFINE rest == counted \ {x}
             both == rest \cup {new}
  <2>3. \A r \in rest : Outpoint(r) # Outpoint(o)
    BY <1>3 DEF RowsOK
  <2>4. both \subseteq later /\ new \in both /\ both \ {new} = rest
    BY <2>1, <2>3
  <2>5. SumValues(counted) = x.value + SumValues(rest) /\ SumValues(rest) \in Nat
    BY <1>1, <1>3, SumWithout
  <2> HIDE DEF rest
  <2>6. IsFiniteSet(both) /\ Amounts(both)
    BY <1>1, <2>4, FS_Subset DEF Amounts
  <2> HIDE DEF both
  <2>7. SumValues(both) = new.value + SumValues(rest)
    BY <2>4, <2>6, SumWithout
  <2>8. SumValues(both) <= SumValues(later)
    BY <1>1, <2>4, SumGrows
  <2> QED BY <2>1, <2>2, <2>5, <2>7, <2>8
<1> QED BY <1>2, <1>3

(* What counted before an upsert counts after it, when the new observation *)
(* is neither from below the creation height nor from before the creation. *)
LEMMA RenewedBelongs ==
  ASSUME NEW rows, RowsOK(rows), NEW o, IsObservation(o), NEW scope,
         scope.created_at \in Nat, scope.created_height \in Nat, scope.expires_at \in Nat,
         NEW x \in RowFor(rows, o), ObservationBelongsToPayment(x, scope),
         scope.created_at <= o.first_seen,
         o.height > 0 => o.height > scope.created_height
  PROVE  ObservationBelongsToPayment(Renewed(rows, o), scope)
<1>1. PICK new : new = Renewed(rows, o)
  OBVIOUS
<1>2. /\ new.height = o.height /\ new.first_seen \in SeenTimes(rows, o)
      /\ \A t \in SeenTimes(rows, o) : new.first_seen <= t
  BY <1>1, RenewedIs DEF RowsOK
<1>3. x \in rows /\ \A r \in RowFor(rows, o) : r = x
  BY DEF RowsOK, RowFor
<1>4. IsObservation(x)
  BY <1>3 DEF RowsOK, FiniteOutputs
<1>5. new.first_seen \in {x.first_seen, o.first_seen} /\ new.first_seen <= x.first_seen
  BY <1>2, <1>3 DEF SeenTimes
<1>6. x.first_seen >= scope.created_at /\ x.first_seen <= scope.expires_at
  BY <1>4 DEF ObservationBelongsToPayment, IsObservation, None
<1>7. /\ new.first_seen \in Nat /\ new.first_seen >= scope.created_at
      /\ new.first_seen <= scope.expires_at
  BY <1>4, <1>5, <1>6 DEF IsObservation
<1>8. ~(new.height > 0 /\ new.height <= scope.created_height)
  BY <1>2 DEF IsObservation
<1> QED BY <1>1, <1>7, <1>8 DEF ObservationBelongsToPayment, None

(* A paid status rests on received value.                                  *)
LEMMA PaidIsReceived ==
  ASSUME NEW requested \in Nat, NEW outputs, FiniteOutputs(outputs), NEW tip, NEW required,
         NEW expires_at, NEW now, NEW e,
         e = EvaluateOutputs(requested, outputs, tip, required, expires_at, now)
  PROVE  e.status \in PaidStatuses <=> SumValues(outputs) >= requested
<1> DEFINE received == SumValues(outputs)
           policy == Policy(outputs, tip, required)
<1>1. received \in Nat /\ policy \in Nat
  BY PartsAreNumbers
<1>2. policy <= received
  BY <1>1, SumGrows DEF FiniteOutputs, IsObservation, Amounts, Policy
<1>3. e.status = StatusFor(requested, received, policy, { o \in outputs : o.height <= 0 },
                           expires_at # None /\ now > expires_at)
  BY EvaluationIs
<1> HIDE DEF received, policy
<1>4. e.status \in PaidStatuses <=> received >= requested
  BY <1>1, <1>2, <1>3 DEF StatusFor, PaidStatuses
<1> QED BY <1>4 DEF received
=============================================================================
