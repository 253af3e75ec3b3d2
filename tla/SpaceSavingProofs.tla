--------------------------- MODULE SpaceSavingProofs ---------------------------
(***************************************************************************)
(* The bounds of a Space-Saving summary, for any keys, capacities, weights *)
(* and ceiling of the counts, through any inserts, merges and clears, and  *)
(* the fair share of a summary that was not merged.                        *)
(***************************************************************************)
EXTENDS SpaceSaving, RowLemmas, FiniteSetTheorems, TLAPS

(***************************************************************************)
(* Arithmetic.                                                             *)
(***************************************************************************)
(* What saturates is a count, and no larger than it was. *)
LEMMA SaturatedType ==
  ASSUME NEW a \in Nat, NEW b \in Nat
  PROVE  /\ Saturated(a) \in Counts
         /\ SatAdd(a, b) \in Counts
         /\ a \in Counts => Saturated(a) = a /\ SatAdd(a, 0) = a
BY SummaryAssumption DEF Saturated, SatAdd, Counts

(* Two upper bounds add up to one. *)
LEMMA BoundsAdd ==
  ASSUME NEW a \in Nat, NEW b \in Nat, NEW x \in Nat, NEW y \in Nat,
         Saturated(a) <= x, Saturated(b) <= y
  PROVE  Saturated(a + b) <= SatAdd(x, y)
BY SummaryAssumption DEF Saturated, SatAdd

(* An arrival of weight w on a counter at x with error e. *)
LEMMA Arrival ==
  ASSUME NEW a \in Nat, NEW x \in Counts, NEW e \in Counts, NEW w \in Nat,
         Saturated(a) <= x, x <= a + e, e <= x
  PROVE  /\ SatAdd(x, w) \in Counts
         /\ Saturated(a + w) <= SatAdd(x, w)
         /\ SatAdd(x, w) <= (a + w) + e
         /\ e <= SatAdd(x, w)
         /\ x <= SatAdd(x, w)
BY SummaryAssumption DEF Saturated, SatAdd, Counts

(* And so do two error allowances. *)
LEMMA ErrorsAdd ==
  ASSUME NEW a \in Nat, NEW b \in Nat, NEW x \in Nat, NEW y \in Nat,
         NEW e \in Nat, NEW f \in Nat,
         x <= a + e, y <= b + f, e <= x, f <= y
  PROVE  /\ SatAdd(x, y) <= (a + b) + SatAdd(e, f)
         /\ SatAdd(e, f) <= SatAdd(x, y)
BY SummaryAssumption DEF Saturated, SatAdd

LEMMA Transitive ==
  ASSUME NEW x \in Nat, NEW y \in Nat, NEW z \in Nat, x <= y, y <= z
  PROVE  x <= z
OBVIOUS

LEMMA SatAddGrows ==
  ASSUME NEW x \in Nat, NEW y \in Nat, NEW m \in Nat, NEW n \in Nat,
         m <= x, n <= y
  PROVE  SatAdd(m, n) <= SatAdd(x, y)
BY SummaryAssumption DEF Saturated, SatAdd

(***************************************************************************)
(* The answers of a summary whose invariant holds.                         *)
(***************************************************************************)
\* The invariant, one summary at a time.
Typed(s) ==
  /\ monitored[s] \in SUBSET Keys
  /\ count[s] \in [Keys -> Counts]
  /\ error[s] \in [Keys -> Counts]
  /\ discardedMax[s] \in Counts
  /\ total[s] \in Counts
  /\ truth[s] \in [Keys -> Nat]
  /\ IsFiniteSet(monitored[s])
  /\ Cardinality(monitored[s]) <= Capacity[s]

Sound(s) ==
  /\ \A k \in monitored[s] :
       /\ Saturated(truth[s][k]) <= count[s][k]
       /\ count[s][k] <= truth[s][k] + error[s][k]
       /\ error[s][k] <= count[s][k]
       /\ discardedMax[s] <= count[s][k]
  /\ \A k \in Keys \ monitored[s] : Saturated(truth[s][k]) <= discardedMax[s]

Functions ==
  /\ DOMAIN monitored = Summaries /\ monitored = [s \in Summaries |-> monitored[s]]
  /\ DOMAIN count = Summaries /\ count = [s \in Summaries |-> count[s]]
  /\ DOMAIN error = Summaries /\ error = [s \in Summaries |-> error[s]]
  /\ DOMAIN discardedMax = Summaries /\ discardedMax = [s \in Summaries |-> discardedMax[s]]
  /\ DOMAIN total = Summaries /\ total = [s \in Summaries |-> total[s]]
  /\ DOMAIN truth = Summaries /\ truth = [s \in Summaries |-> truth[s]]

LEMMA PerSummary ==
  IInv <=> Functions /\ \A s \in Summaries : Typed(s) /\ Sound(s)
<1>1. IInv => Functions /\ \A s \in Summaries : Typed(s)
  BY DEF IInv, TypeOK, Functions, Typed
<1>2. IInv => \A s \in Summaries : Sound(s)
  BY DEF IInv, EstimatesBound, CountsAboveCeiling, DroppedBelowCeiling, Sound
<1>3. ASSUME Functions, \A s \in Summaries : Typed(s) /\ Sound(s)
      PROVE  IInv
  <2>1. TypeOK
    BY <1>3 DEF TypeOK, Functions, Typed
  <2>2. EstimatesBound /\ CountsAboveCeiling /\ DroppedBelowCeiling
    BY <1>3 DEF EstimatesBound, CountsAboveCeiling, DroppedBelowCeiling, Sound
  <2> QED
    BY <2>1, <2>2 DEF IInv
<1> QED
  BY <1>1, <1>2, <1>3

(* The same of the state after a step. *)
LEMMA PerSummaryAfter ==
  ASSUME Functions', \A s \in Summaries : Typed(s)' /\ Sound(s)'
  PROVE  IInv'
<1>1. TypeOK'
  BY DEF TypeOK, Functions, Typed
<1>2. EstimatesBound' /\ CountsAboveCeiling' /\ DroppedBelowCeiling'
  BY DEF EstimatesBound, CountsAboveCeiling, DroppedBelowCeiling, Sound
<1> QED
  BY <1>1, <1>2 DEF IInv

LEMMA LowestOf ==
  ASSUME NEW s \in Summaries, Typed(s), monitored[s] # {}
  PROVE  /\ \E v \in monitored[s] : Lowest(s) = count[s][v]
         /\ \A k \in monitored[s] : Lowest(s) <= count[s][k]
<1> DEFINE T == {count[s][k] : k \in monitored[s]}
<1>1. T \in SUBSET Nat /\ T # {}
  BY SummaryAssumption DEF Typed, Counts
<1>2. \E n \in T : \A m \in T : n <= m
  BY <1>1, LeastNumber
<1>3. \E n \in T : \A k \in monitored[s] : n <= count[s][k]
  BY <1>2
<1>4. Lowest(s) \in T /\ \A k \in monitored[s] : Lowest(s) <= count[s][k]
  BY <1>3 DEF Lowest
<1> QED
  BY <1>4

(* min_count is between the ceiling and every live count. *)
LEMMA MinCountOf ==
  ASSUME NEW s \in Summaries, Typed(s), Sound(s)
  PROVE  /\ MinCount(s) \in Counts
         /\ discardedMax[s] <= MinCount(s)
         /\ \A k \in monitored[s] : MinCount(s) <= count[s][k]
<1>1. CASE ~ Full(s)
  <2>1. MinCount(s) = discardedMax[s]
    BY <1>1 DEF MinCount
  <2>2. discardedMax[s] \in Counts /\ \A k \in monitored[s] : discardedMax[s] <= count[s][k]
    BY DEF Typed, Sound
  <2>3. discardedMax[s] <= discardedMax[s]
    BY <2>2 DEF Counts
  <2> QED
    BY <2>1, <2>2, <2>3
<1>2. CASE Full(s)
  <2>1. monitored[s] # {}
    BY <1>2, FS_EmptySet, SummaryAssumption DEF Full, Typed
  <2>2. PICK v \in monitored[s] : Lowest(s) = count[s][v]
    BY <2>1, LowestOf
  <2>3. \A k \in monitored[s] : Lowest(s) <= count[s][k]
    BY <2>1, LowestOf
  <2>4. /\ Lowest(s) \in Counts
        /\ discardedMax[s] \in Counts
        /\ discardedMax[s] <= Lowest(s)
    BY <2>2 DEF Typed, Sound
  <2>5. MinCount(s) = Lowest(s)
    BY <1>2, <2>4 DEF MinCount, Larger, Counts
  <2> QED
    BY <2>3, <2>4, <2>5
<1> QED
  BY <1>1, <1>2

(* What upper_bound and error answer for any key. *)
LEMMA UpperBoundOf ==
  ASSUME NEW s \in Summaries, Typed(s), Sound(s), NEW k \in Keys
  PROVE  /\ UpperBound(s, k) \in Counts
         /\ ErrorOf(s, k) \in Counts
         /\ Saturated(truth[s][k]) <= UpperBound(s, k)
         /\ UpperBound(s, k) <= truth[s][k] + ErrorOf(s, k)
         /\ ErrorOf(s, k) <= UpperBound(s, k)
         /\ MinCount(s) <= UpperBound(s, k)
<1>1. /\ MinCount(s) \in Counts
      /\ discardedMax[s] <= MinCount(s)
      /\ \A j \in monitored[s] : MinCount(s) <= count[s][j]
  BY MinCountOf
<1>2. truth[s][k] \in Nat /\ discardedMax[s] \in Counts
  BY DEF Typed
<1>3. CASE k \in monitored[s]
  <2>1. count[s][k] \in Counts /\ error[s][k] \in Counts
    BY DEF Typed
  <2>2. /\ Saturated(truth[s][k]) <= count[s][k]
        /\ count[s][k] <= truth[s][k] + error[s][k]
        /\ error[s][k] <= count[s][k]
    BY <1>3 DEF Sound
  <2>3. UpperBound(s, k) = count[s][k] /\ ErrorOf(s, k) = error[s][k]
    BY <1>3 DEF UpperBound, ErrorOf
  <2> QED
    BY <1>1, <1>3, <2>1, <2>2, <2>3
<1>4. CASE k \notin monitored[s]
  <2>1. UpperBound(s, k) = MinCount(s) /\ ErrorOf(s, k) = MinCount(s)
    BY <1>4 DEF UpperBound, ErrorOf
  <2>2. Saturated(truth[s][k]) <= discardedMax[s]
    BY <1>4 DEF Sound
  <2>3. Saturated(truth[s][k]) \in Counts
    BY <1>2, SaturatedType
  <2>4. Saturated(truth[s][k]) <= MinCount(s)
    BY <1>1, <1>2, <2>2, <2>3 DEF Counts
  <2>5. MinCount(s) <= truth[s][k] + MinCount(s) /\ MinCount(s) <= MinCount(s)
    BY <1>1, <1>2 DEF Counts
  <2> QED
    BY <1>1, <2>1, <2>4, <2>5
<1> QED
  BY <1>3, <1>4

(***************************************************************************)
(* Steps.                                                                  *)
(***************************************************************************)
Same(r) ==
  /\ monitored'[r] = monitored[r]
  /\ count'[r] = count[r]
  /\ error'[r] = error[r]
  /\ discardedMax'[r] = discardedMax[r]
  /\ total'[r] = total[r]
  /\ truth'[r] = truth[r]

LEMMA SameStays ==
  ASSUME NEW r \in Summaries, Typed(r), Sound(r), Same(r)
  PROVE  Typed(r)' /\ Sound(r)'
BY DEF Typed, Sound, Same

LEMMA InitHolds == Init => IInv
<1> SUFFICES ASSUME Init PROVE IInv
  OBVIOUS
<1>1. Functions
  BY DEF Init, Functions
<1>2. ASSUME NEW s \in Summaries
      PROVE  Typed(s) /\ Sound(s)
  <2>1. 0 \in Counts /\ 0 \in Nat /\ Saturated(0) = 0
    BY SummaryAssumption DEF Counts, Saturated
  <2>2. Capacity[s] \in Nat \ {0}
    BY SummaryAssumption
  <2>3. Typed(s)
    BY <2>1, <2>2, FS_EmptySet DEF Init, Typed, Nothing
  <2>4. Sound(s)
    BY <2>1 DEF Init, Sound, Nothing
  <2> QED
    BY <2>3, <2>4
<1> QED
  BY <1>1, <1>2, PerSummary

LEMMA RaiseKeeps ==
  ASSUME IInv, NEW s \in Summaries, NEW k \in Keys, NEW w \in Weights, Raise(s, k, w)
  PROVE  IInv'
<1>1. Functions /\ \A r \in Summaries : Typed(r) /\ Sound(r)
  BY PerSummary
<1>2. Functions'
  BY <1>1 DEF Functions, Raise, Recorded
<1>3. ASSUME NEW r \in Summaries, r # s
      PROVE  Typed(r)' /\ Sound(r)'
  <2>1. Same(r)
    BY <1>1, <1>3 DEF Functions, Raise, Recorded, Same
  <2> QED
    BY <1>1, <2>1, SameStays
<1>4. Typed(s)' /\ Sound(s)'
  <2>1. /\ k \in monitored[s]
        /\ monitored'[s] = monitored[s]
        /\ error'[s] = error[s]
        /\ discardedMax'[s] = discardedMax[s]
        /\ total'[s] = SatAdd(total[s], w)
        /\ count'[s] = [count[s] EXCEPT ![k] = SatAdd(count[s][k], w)]
        /\ truth'[s] = [truth[s] EXCEPT ![k] = truth[s][k] + w]
    BY <1>1 DEF Functions, Raise, Recorded
  <2>2. /\ w \in Nat
        /\ Typed(s) /\ Sound(s)
        /\ count[s][k] \in Counts /\ total[s] \in Counts /\ truth[s][k] \in Nat
        /\ error[s][k] \in Counts
        /\ Counts \subseteq Nat
    BY <1>1, SummaryAssumption DEF Typed, Counts
  <2>3. SatAdd(total[s], w) \in Counts /\ SatAdd(count[s][k], w) \in Counts
    BY <2>2, SaturatedType
  <2>4. Typed(s)'
    BY <2>1, <2>2, <2>3 DEF Typed
  <2>5. /\ Saturated(truth[s][k]) <= count[s][k]
        /\ count[s][k] <= truth[s][k] + error[s][k]
        /\ error[s][k] <= count[s][k]
        /\ discardedMax[s] <= count[s][k]
    BY <2>1, <2>2 DEF Sound
  <2>6. /\ Saturated(truth[s][k] + w) <= SatAdd(count[s][k], w)
        /\ SatAdd(count[s][k], w) <= (truth[s][k] + w) + error[s][k]
        /\ error[s][k] <= SatAdd(count[s][k], w)
        /\ count[s][k] <= SatAdd(count[s][k], w)
    BY <2>2, <2>5, Arrival
  <2>7. discardedMax[s] <= SatAdd(count[s][k], w)
    <3>1. discardedMax[s] \in Counts
      BY <2>2 DEF Typed
    <3> QED
      BY <2>2, <2>3, <2>5, <2>6, <3>1 DEF Counts
  <2>8. /\ count'[s][k] = SatAdd(count[s][k], w)
        /\ truth'[s][k] = truth[s][k] + w
        /\ \A j \in Keys \ {k} : count'[s][j] = count[s][j] /\ truth'[s][j] = truth[s][j]
    BY <2>1, <2>2 DEF Typed
  <2>9. Sound(s)'
    <3>1. ASSUME NEW j \in monitored[s]
          PROVE  /\ Saturated(truth'[s][j]) <= count'[s][j]
                 /\ count'[s][j] <= truth'[s][j] + error[s][j]
                 /\ error[s][j] <= count'[s][j]
                 /\ discardedMax[s] <= count'[s][j]
      <4>1. CASE j = k
        BY <2>6, <2>7, <2>8, <4>1
      <4>2. CASE j # k
        BY <2>2, <2>8, <4>2 DEF Sound, Typed
      <4> QED
        BY <4>1, <4>2
    <3>2. ASSUME NEW j \in Keys \ monitored[s]
          PROVE  Saturated(truth'[s][j]) <= discardedMax[s]
      BY <2>1, <2>2, <2>8 DEF Sound
    <3> QED
      BY <2>1, <3>1, <3>2 DEF Sound, Saturated
  <2> QED
    BY <2>4, <2>9
<1> QED
  BY <1>2, <1>3, <1>4, PerSummaryAfter

LEMMA SeatKeeps ==
  ASSUME IInv, NEW s \in Summaries, NEW k \in Keys, NEW w \in Weights, Seat(s, k, w)
  PROVE  IInv'
<1>1. Functions /\ \A r \in Summaries : Typed(r) /\ Sound(r)
  BY PerSummary
<1>2. Functions'
  BY <1>1 DEF Functions, Seat, Recorded
<1>3. ASSUME NEW r \in Summaries, r # s
      PROVE  Typed(r)' /\ Sound(r)'
  <2>1. Same(r)
    BY <1>1, <1>3 DEF Functions, Seat, Recorded, Same
  <2> QED
    BY <1>1, <2>1, SameStays
<1>4. Typed(s)' /\ Sound(s)'
  <2> DEFINE c == SatAdd(discardedMax[s], w)
  <2>1. /\ k \notin monitored[s]
        /\ ~ Full(s)
        /\ monitored'[s] = monitored[s] \cup {k}
        /\ error'[s] = [error[s] EXCEPT ![k] = discardedMax[s]]
        /\ discardedMax'[s] = discardedMax[s]
        /\ total'[s] = SatAdd(total[s], w)
        /\ count'[s] = [count[s] EXCEPT ![k] = c]
        /\ truth'[s] = [truth[s] EXCEPT ![k] = truth[s][k] + w]
    BY <1>1 DEF Functions, Seat, Recorded, SeatedFrom
  <2>2. /\ w \in Nat
        /\ Typed(s) /\ Sound(s)
        /\ discardedMax[s] \in Counts /\ total[s] \in Counts /\ truth[s][k] \in Nat
        /\ Counts \subseteq Nat
    BY <1>1, SummaryAssumption DEF Typed, Counts
  <2>3. /\ Saturated(truth[s][k]) <= discardedMax[s]
        /\ discardedMax[s] <= truth[s][k] + discardedMax[s]
        /\ discardedMax[s] <= discardedMax[s]
    <3>1. Saturated(truth[s][k]) <= discardedMax[s]
      BY <2>1, <2>2 DEF Sound
    <3>2. discardedMax[s] \in Nat /\ truth[s][k] \in Nat
      BY <2>2
    <3> QED
      BY <3>1, <3>2
  <2>4. /\ c \in Counts
        /\ Saturated(truth[s][k] + w) <= c
        /\ c <= (truth[s][k] + w) + discardedMax[s]
        /\ discardedMax[s] <= c
    BY <2>2, <2>3, Arrival
  <2>5. IsFiniteSet(monitored'[s]) /\ Cardinality(monitored'[s]) <= Capacity[s]
    <3>1. /\ IsFiniteSet(monitored[s] \cup {k})
          /\ Cardinality(monitored[s] \cup {k}) = Cardinality(monitored[s]) + 1
      BY <2>1, <2>2, FS_AddElement DEF Typed
    <3>2. Cardinality(monitored[s]) \in Nat /\ Capacity[s] \in Nat
      BY <2>2, FS_CardinalityType, SummaryAssumption DEF Typed
    <3>3. Cardinality(monitored[s]) <= Capacity[s] /\ Cardinality(monitored[s]) # Capacity[s]
      BY <2>1, <2>2 DEF Typed, Full
    <3> QED
      BY <2>1, <3>1, <3>2, <3>3
  <2>6. SatAdd(total[s], w) \in Counts
    BY <2>2, SaturatedType
  <2> HIDE DEF c
  <2>7. Typed(s)'
    BY <2>1, <2>2, <2>4, <2>5, <2>6 DEF Typed
  <2>8. /\ count'[s][k] = c
        /\ error'[s][k] = discardedMax[s]
        /\ truth'[s][k] = truth[s][k] + w
        /\ \A j \in Keys \ {k} : /\ count'[s][j] = count[s][j]
                                 /\ error'[s][j] = error[s][j]
                                 /\ truth'[s][j] = truth[s][j]
    BY <2>1, <2>2 DEF Typed
  <2>9. Sound(s)'
    <3>1. ASSUME NEW j \in monitored'[s]
          PROVE  /\ Saturated(truth'[s][j]) <= count'[s][j]
                 /\ count'[s][j] <= truth'[s][j] + error'[s][j]
                 /\ error'[s][j] <= count'[s][j]
                 /\ discardedMax[s] <= count'[s][j]
      <4>1. CASE j = k
        BY <2>4, <2>8, <4>1
      <4>2. CASE j # k
        <5>1. j \in monitored[s] /\ j \in Keys \ {k}
          BY <2>1, <2>2, <4>2 DEF Typed
        <5> QED
          BY <2>2, <2>8, <5>1 DEF Sound
      <4> QED
        BY <4>1, <4>2
    <3>2. ASSUME NEW j \in Keys \ monitored'[s]
          PROVE  Saturated(truth'[s][j]) <= discardedMax[s]
      BY <2>1, <2>2, <2>8 DEF Sound
    <3> QED
      BY <2>1, <3>1, <3>2 DEF Sound, Saturated
  <2> QED
    BY <2>7, <2>9
<1> QED
  BY <1>2, <1>3, <1>4, PerSummaryAfter

LEMMA DisplaceKeeps ==
  ASSUME IInv, NEW s \in Summaries, NEW k \in Keys, NEW w \in Weights, NEW v \in Keys,
         Displace(s, k, w, v)
  PROVE  IInv'
<1>1. Functions /\ \A r \in Summaries : Typed(r) /\ Sound(r)
  BY PerSummary
<1>2. Functions'
  BY <1>1 DEF Functions, Displace, Recorded
<1>3. ASSUME NEW r \in Summaries, r # s
      PROVE  Typed(r)' /\ Sound(r)'
  <2>1. Same(r)
    BY <1>1, <1>3 DEF Functions, Displace, Recorded, Same
  <2> QED
    BY <1>1, <2>1, SameStays
<1>4. Typed(s)' /\ Sound(s)'
  <2> DEFINE low == count[s][v]
             c   == SatAdd(low, w)
  <2>1. /\ k \notin monitored[s]
        /\ v \in monitored[s]
        /\ v # k
        /\ \A j \in monitored[s] : low <= count[s][j]
        /\ monitored'[s] = (monitored[s] \ {v}) \cup {k}
        /\ error'[s] = [error[s] EXCEPT ![v] = 0, ![k] = low]
        /\ discardedMax'[s] = low
        /\ total'[s] = SatAdd(total[s], w)
        /\ count'[s] = [count[s] EXCEPT ![v] = 0, ![k] = c]
        /\ truth'[s] = [truth[s] EXCEPT ![k] = truth[s][k] + w]
    BY <1>1 DEF Functions, Displace, Recorded, IsMinimum
  <2>2. /\ w \in Nat
        /\ Typed(s) /\ Sound(s)
        /\ discardedMax[s] \in Counts /\ total[s] \in Counts
        /\ truth[s][k] \in Nat /\ truth[s][v] \in Nat
        /\ low \in Counts
        /\ 0 \in Counts
        /\ Counts \subseteq Nat
    BY <1>1, SummaryAssumption DEF Typed, Counts
  <2>3. /\ Saturated(truth[s][k]) <= discardedMax[s]
        /\ Saturated(truth[s][v]) <= low
        /\ discardedMax[s] <= low
    BY <2>1, <2>2 DEF Sound
  <2>4. \A a \in Nat : Saturated(a) \in Nat
    BY SummaryAssumption DEF Saturated
  <2>5. /\ Saturated(truth[s][k]) <= low
        /\ low <= truth[s][k] + low
        /\ low <= low
    <3> HIDE DEF low
    <3>1. /\ low \in Nat /\ discardedMax[s] \in Nat /\ truth[s][k] \in Nat
          /\ Saturated(truth[s][k]) \in Nat
      BY <2>2, <2>4
    <3>2. Saturated(truth[s][k]) <= low
      BY <2>3, <3>1, Transitive
    <3>3. low <= truth[s][k] + low /\ low <= low
      BY <3>1
    <3> QED
      BY <3>2, <3>3
  <2>6. /\ c \in Counts
        /\ Saturated(truth[s][k] + w) <= c
        /\ c <= (truth[s][k] + w) + low
        /\ low <= c
    BY <2>2, <2>5, Arrival
  <2>7. IsFiniteSet(monitored'[s]) /\ Cardinality(monitored'[s]) <= Capacity[s]
    <3>1. /\ IsFiniteSet(monitored[s] \ {v})
          /\ Cardinality(monitored[s] \ {v}) = Cardinality(monitored[s]) - 1
      BY <2>1, <2>2, FS_RemoveElement DEF Typed
    <3>2. /\ IsFiniteSet((monitored[s] \ {v}) \cup {k})
          /\ Cardinality((monitored[s] \ {v}) \cup {k}) = Cardinality(monitored[s] \ {v}) + 1
      <4>1. k \notin monitored[s] \ {v}
        BY <2>1
      <4> QED
        BY <3>1, <4>1, FS_AddElement
    <3>3. Cardinality(monitored[s]) \in Nat /\ Cardinality(monitored[s]) <= Capacity[s]
      BY <2>2, FS_CardinalityType DEF Typed
    <3> QED
      BY <2>1, <3>1, <3>2, <3>3
  <2>8. SatAdd(total[s], w) \in Counts
    BY <2>2, SaturatedType
  <2> HIDE DEF c, low
  <2>9. Typed(s)'
    BY <2>1, <2>2, <2>6, <2>7, <2>8 DEF Typed
  <2>10. /\ count'[s][k] = c
         /\ error'[s][k] = low
         /\ truth'[s][k] = truth[s][k] + w
         /\ \A j \in Keys \ {k} : truth'[s][j] = truth[s][j]
         /\ \A j \in Keys \ {k, v} : count'[s][j] = count[s][j] /\ error'[s][j] = error[s][j]
    BY <2>1, <2>2 DEF Typed
  <2>11. Sound(s)'
    <3>1. ASSUME NEW j \in monitored'[s]
          PROVE  /\ Saturated(truth'[s][j]) <= count'[s][j]
                 /\ count'[s][j] <= truth'[s][j] + error'[s][j]
                 /\ error'[s][j] <= count'[s][j]
                 /\ low <= count'[s][j]
      <4>1. CASE j = k
        BY <2>6, <2>10, <4>1
      <4>2. CASE j # k
        <5>1. j \in monitored[s] /\ j \in Keys \ {k, v} /\ j \in Keys \ {k}
          BY <2>1, <2>2, <4>2 DEF Typed
        <5> QED
          BY <2>1, <2>2, <2>10, <5>1 DEF Sound
      <4> QED
        BY <4>1, <4>2
    <3>2. ASSUME NEW j \in Keys \ monitored'[s]
          PROVE  Saturated(truth'[s][j]) <= low
      <4>1. j \in Keys \ {k} /\ truth'[s][j] = truth[s][j]
        BY <2>1, <2>10
      <4>2. CASE j = v
        BY <2>3, <4>1, <4>2
      <4>3. CASE j # v
        <5>1. Saturated(truth[s][j]) <= discardedMax[s]
          BY <2>1, <2>2, <4>3 DEF Sound
        <5>2. /\ low \in Nat /\ discardedMax[s] \in Nat
              /\ Saturated(truth[s][j]) \in Nat
          BY <2>2, <2>4 DEF Typed
        <5>3. Saturated(truth[s][j]) <= low
          BY <2>3, <5>1, <5>2, Transitive
        <5> QED
          BY <4>1, <5>3
      <4> QED
        BY <4>2, <4>3
    <3> QED
      BY <2>1, <3>1, <3>2 DEF Sound, Saturated
  <2> QED
    BY <2>9, <2>11
<1> QED
  BY <1>2, <1>3, <1>4, PerSummaryAfter

LEMMA ClearKeeps ==
  ASSUME IInv, NEW s \in Summaries, Clear(s)
  PROVE  IInv'
<1>1. Functions /\ \A r \in Summaries : Typed(r) /\ Sound(r)
  BY PerSummary
<1>2. Functions'
  BY <1>1 DEF Functions, Clear
<1>3. ASSUME NEW r \in Summaries, r # s
      PROVE  Typed(r)' /\ Sound(r)'
  <2>1. Same(r)
    BY <1>1, <1>3 DEF Functions, Clear, Same
  <2> QED
    BY <1>1, <2>1, SameStays
<1>4. Typed(s)' /\ Sound(s)'
  <2>1. /\ monitored'[s] = {}
        /\ count'[s] = Nothing
        /\ error'[s] = Nothing
        /\ discardedMax'[s] = 0
        /\ total'[s] = 0
        /\ truth'[s] = Nothing
    BY <1>1 DEF Functions, Clear
  <2>2. 0 \in Counts /\ 0 \in Nat /\ Saturated(0) = 0 /\ Capacity[s] \in Nat
    BY SummaryAssumption DEF Counts, Saturated
  <2>3. Typed(s)'
    BY <2>1, <2>2, FS_EmptySet DEF Typed, Nothing
  <2>4. Sound(s)'
    <3>1. \A k \in Keys : Saturated(truth'[s][k]) = 0
      BY <2>1, <2>2 DEF Nothing
    <3> QED
      BY <2>1, <2>2, <3>1 DEF Sound, Saturated
  <2> QED
    BY <2>3, <2>4
<1> QED
  BY <1>2, <1>3, <1>4, PerSummaryAfter

(***************************************************************************)
(* A merge leaves summary s with the keys kept and the ceiling c.          *)
(***************************************************************************)
LEMMA CombinedOf ==
  ASSUME NEW s \in Summaries, Typed(s), Sound(s),
         NEW t \in Summaries, Typed(t), Sound(t), NEW k \in Keys
  PROVE  LET e == SatAdd(ErrorOf(s, k), ErrorOf(t, k))
             n == truth[s][k] + truth[t][k]
         IN  /\ Combined(s, t, k) \in Counts
             /\ e \in Counts
             /\ n \in Nat
             /\ Saturated(n) \in Counts
             /\ Saturated(n) <= Combined(s, t, k)
             /\ Combined(s, t, k) <= n + e
             /\ e <= Combined(s, t, k)
             /\ SatAdd(MinCount(s), MinCount(t)) <= Combined(s, t, k)
             /\ SatAdd(MinCount(s), MinCount(t)) \in Counts
<1>1. /\ UpperBound(s, k) \in Counts
      /\ ErrorOf(s, k) \in Counts
      /\ Saturated(truth[s][k]) <= UpperBound(s, k)
      /\ UpperBound(s, k) <= truth[s][k] + ErrorOf(s, k)
      /\ ErrorOf(s, k) <= UpperBound(s, k)
      /\ MinCount(s) <= UpperBound(s, k)
  BY UpperBoundOf
<1>2. /\ UpperBound(t, k) \in Counts
      /\ ErrorOf(t, k) \in Counts
      /\ Saturated(truth[t][k]) <= UpperBound(t, k)
      /\ UpperBound(t, k) <= truth[t][k] + ErrorOf(t, k)
      /\ ErrorOf(t, k) <= UpperBound(t, k)
      /\ MinCount(t) <= UpperBound(t, k)
  BY UpperBoundOf
<1>3. MinCount(s) \in Counts /\ MinCount(t) \in Counts
  BY MinCountOf
<1>4. truth[s][k] \in Nat /\ truth[t][k] \in Nat /\ Counts \subseteq Nat
  BY SummaryAssumption DEF Typed, Counts
<1>5. truth[s][k] + truth[t][k] \in Nat
  BY <1>4
<1>6. /\ SatAdd(UpperBound(s, k), UpperBound(t, k)) \in Counts
      /\ SatAdd(ErrorOf(s, k), ErrorOf(t, k)) \in Counts
      /\ SatAdd(MinCount(s), MinCount(t)) \in Counts
      /\ Saturated(truth[s][k] + truth[t][k]) \in Counts
  BY <1>1, <1>2, <1>3, <1>4, <1>5, SaturatedType
<1>7. Saturated(truth[s][k] + truth[t][k]) <= SatAdd(UpperBound(s, k), UpperBound(t, k))
  BY <1>1, <1>2, <1>4, BoundsAdd
<1>8. LET e == SatAdd(ErrorOf(s, k), ErrorOf(t, k))
      IN  /\ SatAdd(UpperBound(s, k), UpperBound(t, k)) <= (truth[s][k] + truth[t][k]) + e
          /\ e <= SatAdd(UpperBound(s, k), UpperBound(t, k))
  BY <1>1, <1>2, <1>4, ErrorsAdd
<1>9. SatAdd(MinCount(s), MinCount(t)) <= SatAdd(UpperBound(s, k), UpperBound(t, k))
  BY <1>1, <1>2, <1>3, <1>4, SatAddGrows
<1> QED
  BY <1>5, <1>6, <1>7, <1>8, <1>9 DEF Combined

LEMMA MergeKeeps ==
  ASSUME IInv, NEW s \in Summaries, NEW t \in Summaries, Merge(s, t)
  PROVE  IInv'
<1>1. Functions /\ \A r \in Summaries : Typed(r) /\ Sound(r)
  BY PerSummary
<1>2. Functions'
  BY <1>1 DEF Functions, Merge
<1>3. ASSUME NEW r \in Summaries, r # s
      PROVE  Typed(r)' /\ Sound(r)'
  <2>1. Same(r)
    BY <1>1, <1>3 DEF Functions, Merge, Same
  <2> QED
    BY <1>1, <2>1, SameStays
<1>4. Typed(s)' /\ Sound(s)'
  <2> DEFINE E(k) == SatAdd(ErrorOf(s, k), ErrorOf(t, k))
             N(k) == truth[s][k] + truth[t][k]
             C(k) == Combined(s, t, k)
             m    == SatAdd(MinCount(s), MinCount(t))
  <2>0. PICK kept \in Survivors(s, t) :
          /\ monitored'[s] = kept
          /\ count'[s] = [k \in Keys |-> IF k \in kept THEN C(k) ELSE 0]
          /\ error'[s] = [k \in Keys |-> IF k \in kept THEN E(k) ELSE 0]
          /\ \E c \in Ceilings(s, t, kept) :
               /\ \A d \in Ceilings(s, t, kept) : d <= c
               /\ discardedMax'[s] = c
    BY <1>1 DEF Functions, Merge
  <2>1. PICK c \in Ceilings(s, t, kept) :
          /\ monitored'[s] = kept
          /\ count'[s] = [k \in Keys |-> IF k \in kept THEN C(k) ELSE 0]
          /\ error'[s] = [k \in Keys |-> IF k \in kept THEN E(k) ELSE 0]
          /\ \A d \in Ceilings(s, t, kept) : d <= c
          /\ discardedMax'[s] = c
    BY <2>0
  <2>2. /\ total'[s] = SatAdd(total[s], total[t])
        /\ truth'[s] = [k \in Keys |-> N(k)]
    BY <1>1 DEF Functions, Merge
  <2>3. Typed(s) /\ Sound(s) /\ Typed(t) /\ Sound(t) /\ Counts \subseteq Nat /\ 0 \in Counts
    BY <1>1, SummaryAssumption DEF Counts
  <2>4. \A k \in Keys :
          /\ C(k) \in Counts
          /\ E(k) \in Counts
          /\ N(k) \in Nat
          /\ Saturated(N(k)) \in Counts
          /\ Saturated(N(k)) <= C(k)
          /\ C(k) <= N(k) + E(k)
          /\ E(k) <= C(k)
          /\ m <= C(k)
          /\ m \in Counts
    BY <2>3, CombinedOf
  <2>5. /\ kept \subseteq Union(s, t)
        /\ Union(s, t) \subseteq Keys
        /\ \A k \in kept, d \in Union(s, t) \ kept : C(d) <= C(k)
        /\ Cardinality(kept) <= Capacity[s]
    <3>1. Capacity[s] \in Nat
      BY SummaryAssumption
    <3> QED
      BY <2>3, <3>1 DEF Survivors, Union, Typed
  <2>6. IsFiniteSet(kept)
    <3>1. IsFiniteSet(monitored[s] \cup monitored[t])
      BY <2>3, FS_Union DEF Typed
    <3> QED
      BY <2>5, <3>1, FS_Subset DEF Union
  <2>7. SatAdd(total[s], total[t]) \in Counts
    BY <2>3, SaturatedType DEF Typed
  \* Every ceiling is a combined bound of a key that is out, or the two
  \* minima; the largest is c.
  <2>8. m \in Ceilings(s, t, kept) /\ \A d \in Union(s, t) \ kept : C(d) \in Ceilings(s, t, kept)
    BY DEF Ceilings
  <2>9. m <= c /\ \A d \in Union(s, t) \ kept : C(d) <= c
    BY <2>1, <2>8
  <2>10. c \in Counts /\ \A k \in kept : c <= C(k)
    <3>0. m \in Counts
      <4>1. MinCount(s) \in Counts /\ MinCount(t) \in Counts
        BY <2>3, MinCountOf
      <4> QED
        BY <2>3, <4>1, SaturatedType
    <3>1. c = m \/ \E d \in Union(s, t) \ kept : c = C(d)
      BY <2>1 DEF Ceilings
    <3>2. CASE c = m
      BY <2>4, <2>5, <3>0, <3>2
    <3>3. CASE \E d \in Union(s, t) \ kept : c = C(d)
      BY <2>4, <2>5, <3>3
    <3> QED
      BY <3>1, <3>2, <3>3
  \* A key that neither holds was at most at both minima.
  <2>11. \A d \in Keys \ Union(s, t) : C(d) = m
    BY DEF Union, Combined, UpperBound
  <2> HIDE DEF C, E, N, m
  <2>12. Typed(s)'
    <3>1. kept \in SUBSET Keys
      BY <2>5
    <3>2. count'[s] \in [Keys -> Counts] /\ error'[s] \in [Keys -> Counts]
      BY <2>1, <2>3, <2>4
    <3>3. truth'[s] \in [Keys -> Nat]
      BY <2>2, <2>4
    <3> QED
      BY <2>1, <2>2, <2>5, <2>6, <2>7, <2>10, <3>1, <3>2, <3>3 DEF Typed
  <2>13. Sound(s)'
    <3>1. ASSUME NEW k \in monitored'[s]
          PROVE  /\ Saturated(truth'[s][k]) <= count'[s][k]
                 /\ count'[s][k] <= truth'[s][k] + error'[s][k]
                 /\ error'[s][k] <= count'[s][k]
                 /\ discardedMax'[s] <= count'[s][k]
      <4>1. k \in kept /\ k \in Keys
        BY <2>1, <2>5
      <4>2. count'[s][k] = C(k) /\ error'[s][k] = E(k) /\ truth'[s][k] = N(k)
        BY <2>1, <2>2, <4>1
      <4> QED
        BY <2>1, <2>4, <2>10, <4>1, <4>2
    <3>2. ASSUME NEW d \in Keys \ monitored'[s]
          PROVE  Saturated(truth'[s][d]) <= discardedMax'[s]
      <4>1. d \in Keys \ kept /\ truth'[s][d] = N(d)
        BY <2>1, <2>2
      <4>2. C(d) <= c
        BY <2>9, <2>11, <4>1
      <4>3. Saturated(N(d)) \in Nat /\ C(d) \in Nat /\ c \in Nat /\ Saturated(N(d)) <= C(d)
        BY <2>3, <2>4, <2>10, <4>1
      <4>4. Saturated(N(d)) <= c
        BY <4>2, <4>3, Transitive
      <4> QED
        BY <2>1, <4>1, <4>4
    <3> QED
      BY <3>1, <3>2 DEF Sound, Saturated
  <2> QED
    BY <2>12, <2>13
<1> QED
  BY <1>2, <1>3, <1>4, PerSummaryAfter

LEMMA NextKeeps == IInv /\ [Next]_vars => IInv'
<1> SUFFICES ASSUME IInv, [Next]_vars PROVE IInv'
  OBVIOUS
<1>1. CASE UNCHANGED vars
  BY <1>1 DEF vars, IInv, TypeOK, EstimatesBound, CountsAboveCeiling, DroppedBelowCeiling
<1>2. CASE Next
  <2>1. PICK s \in Summaries :
          \/ \E k \in Keys, w \in Weights : Insert(s, k, w)
          \/ \E t \in Summaries : Merge(s, t)
          \/ Clear(s)
    BY <1>2 DEF Next
  <2>2. CASE \E k \in Keys, w \in Weights : Insert(s, k, w)
    BY <2>2, RaiseKeeps, SeatKeeps, DisplaceKeeps DEF Insert
  <2>3. CASE \E t \in Summaries : Merge(s, t)
    BY <2>3, MergeKeeps
  <2>4. CASE Clear(s)
    BY <2>4, ClearKeeps
  <2> QED
    BY <2>1, <2>2, <2>3, <2>4
<1> QED
  BY <1>1, <1>2

(***************************************************************************)
(* Theorems.                                                               *)
(***************************************************************************)
(* Through every insert_many, eviction, merge and clear the counts, the    *)
(* errors and the ceiling of every summary stay in range and bound what    *)
(* the stream carried, and no summary outgrows its capacity.               *)
THEOREM InvariantCorrect == Spec => []IInv
<1> QED
  BY InitHolds, NextKeeps, PTL DEF Spec

(* query never underestimates a monitored key and overstates it by at most *)
(* the error that is returned with it.                                     *)
THEOREM EstimatesBoundCorrect == Spec => []EstimatesBound
<1>1. IInv => EstimatesBound
  BY DEF IInv
<1> QED
  BY <1>1, InvariantCorrect, PTL

(* The assertion of insert_many holds: the discarded ceiling is never      *)
(* above a count that is still live.                                       *)
THEOREM CountsAboveCeilingCorrect == Spec => []CountsAboveCeiling
<1>1. IInv => CountsAboveCeiling
  BY DEF IInv
<1> QED
  BY <1>1, InvariantCorrect, PTL

(* upper_bound is one for any key, monitored, evicted or cut off.          *)
THEOREM UpperBoundCorrect == Spec => []UpperBoundHolds
<1>1. IInv => UpperBoundHolds
  BY PerSummary, UpperBoundOf DEF UpperBoundHolds
<1> QED
  BY <1>1, InvariantCorrect, PTL

(* A key that is_guaranteed names really carried more weight than every    *)
(* key the summary does not hold, saturated counts included.               *)
THEOREM GuaranteedOutranksCorrect == Spec => []GuaranteedOutranks
<1>1. ASSUME IInv, NEW s \in Summaries, NEW k \in Keys, IsGuaranteed(s, k),
             NEW d \in Keys \ monitored[s]
      PROVE  truth[s][d] < truth[s][k]
  <2>1. Typed(s) /\ Sound(s)
    BY <1>1, PerSummary
  <2>2. MinCount(s) \in Counts /\ discardedMax[s] <= MinCount(s)
    BY <2>1, MinCountOf
  <2>3. k \in monitored[s] /\ count[s][k] - error[s][k] > MinCount(s)
    BY <1>1 DEF IsGuaranteed
  <2>4. /\ count[s][k] \in Counts /\ error[s][k] \in Counts /\ discardedMax[s] \in Counts
        /\ truth[s][k] \in Nat /\ truth[s][d] \in Nat
    BY <2>1 DEF Typed
  <2>5. count[s][k] <= truth[s][k] + error[s][k] /\ Saturated(truth[s][d]) <= discardedMax[s]
    BY <2>1, <2>3 DEF Sound
  <2>6. MinCount(s) < truth[s][k] /\ MinCount(s) < MaxCount
    BY <2>2, <2>3, <2>4, <2>5, SummaryAssumption DEF Counts
  <2>7. truth[s][d] <= MinCount(s)
    BY <2>2, <2>4, <2>5, <2>6, SummaryAssumption DEF Counts, Saturated
  <2> QED
    BY <2>2, <2>4, <2>6, <2>7 DEF Counts
<1>2. IInv => GuaranteedOutranks
  BY <1>1 DEF GuaranteedOutranks
<1> QED
  BY <1>2, InvariantCorrect, PTL


(***************************************************************************)
(* The ceiling against the weight of the stream.  Nothing merged in, every *)
(* count that an insert raises is paid for by its weight: an eviction only *)
(* moves a count to another key.                                           *)
(***************************************************************************)
Fair(s) ==
  /\ ~Full(s) => discardedMax[s] = 0
  /\ \A k \in Keys \ monitored[s] : count[s][k] = 0
  /\ SumOf(count[s]) <= SumOf(truth[s])

Shared == \A s \in Summaries \ merged : Fair(s)

LEMMA SumTyped ==
  ASSUME NEW f \in [Keys -> Counts]
  PROVE  SumOf(f) \in Nat /\ f \in [Keys -> Nat]
<1>1. f \in [Keys -> Nat]
  BY SummaryAssumption DEF Counts
<1> QED
  BY <1>1, SumIsNat, KeysFinite

LEMMA SumOfTruth ==
  ASSUME NEW f \in [Keys -> Nat]
  PROVE  SumOf(f) \in Nat
BY SumIsNat, KeysFinite

(* One key of a function changes.                                          *)
LEMMA SumMoved ==
  ASSUME NEW f \in [Keys -> Nat], NEW g \in [Keys -> Nat], NEW k \in Keys,
         \A j \in Keys \ {k} : f[j] = g[j]
  PROVE  SumOf(f) + g[k] = SumOf(g) + f[k]
BY SumChanged, KeysFinite

LEMMA OneChanged ==
  ASSUME NEW f \in [Keys -> Nat], NEW k \in Keys, NEW n \in Nat,
         NEW g, g = [f EXCEPT ![k] = n]
  PROVE  /\ g \in [Keys -> Nat]
         /\ SumOf(f) \in Nat /\ SumOf(g) \in Nat
         /\ SumOf(f) + n = SumOf(g) + f[k]
<1>1. g \in [Keys -> Nat] /\ g[k] = n /\ \A j \in Keys \ {k} : f[j] = g[j]
  OBVIOUS
<1>2. SumOf(f) \in Nat /\ SumOf(g) \in Nat
  BY <1>1, SumOfTruth
<1>3. SumOf(f) + g[k] = SumOf(g) + f[k]
  BY <1>1, SumMoved
<1> QED
  BY <1>1, <1>2, <1>3

LEMMA OthersStayFair ==
  ASSUME NEW r \in Summaries, Fair(r), monitored'[r] = monitored[r], count'[r] = count[r],
         discardedMax'[r] = discardedMax[r], truth'[r] = truth[r]
  PROVE  Fair(r)'
BY DEF Fair, Full

LEMMA RaiseIsFair ==
  ASSUME IInv, NEW s \in Summaries, NEW k \in Keys, NEW w \in Weights, Raise(s, k, w), Fair(s)
  PROVE  Fair(s)'
<1>1. Functions /\ Typed(s)
  BY PerSummary
<1>2. /\ k \in monitored[s]
      /\ monitored'[s] = monitored[s]
      /\ discardedMax'[s] = discardedMax[s]
      /\ count'[s] = [count[s] EXCEPT ![k] = SatAdd(count[s][k], w)]
      /\ truth'[s] = [truth[s] EXCEPT ![k] = truth[s][k] + w]
  BY <1>1 DEF Functions, Raise, Recorded
<1>3. /\ w \in Nat
      /\ count[s] \in [Keys -> Nat] /\ truth[s] \in [Keys -> Nat]
      /\ count[s][k] \in Nat /\ truth[s][k] \in Nat
  BY <1>1, SumTyped, SummaryAssumption DEF Typed
<1>4. SatAdd(count[s][k], w) \in Nat /\ SatAdd(count[s][k], w) <= count[s][k] + w
  BY <1>3, SummaryAssumption DEF SatAdd, Saturated
<1>5. PICK c \in Nat : c = SatAdd(count[s][k], w)
  BY <1>4
<1>6. PICK t \in Nat : t = truth[s][k] + w
  BY <1>3
<1>7. /\ SumOf(count[s]) \in Nat /\ SumOf(count'[s]) \in Nat
      /\ SumOf(count[s]) + c = SumOf(count'[s]) + count[s][k]
  BY <1>2, <1>3, <1>5, OneChanged
<1>8. /\ SumOf(truth[s]) \in Nat /\ SumOf(truth'[s]) \in Nat
      /\ SumOf(truth[s]) + t = SumOf(truth'[s]) + truth[s][k]
  BY <1>2, <1>3, <1>6, OneChanged
<1>9. SumOf(count[s]) <= SumOf(truth[s])
  BY DEF Fair
<1>10. SumOf(count'[s]) <= SumOf(truth'[s])
  BY <1>3, <1>4, <1>5, <1>6, <1>7, <1>8, <1>9
<1>11. \A j \in Keys \ monitored'[s] : count'[s][j] = 0
  BY <1>2, <1>3 DEF Fair
<1>12. ~Full(s)' => discardedMax'[s] = 0
  BY <1>2 DEF Fair, Full
<1> QED
  BY <1>10, <1>11, <1>12 DEF Fair

LEMMA SeatIsFair ==
  ASSUME IInv, NEW s \in Summaries, NEW k \in Keys, NEW w \in Weights, Seat(s, k, w), Fair(s)
  PROVE  Fair(s)'
<1>1. Functions /\ Typed(s)
  BY PerSummary
<1>2. /\ k \notin monitored[s]
      /\ ~Full(s)
      /\ monitored'[s] = monitored[s] \cup {k}
      /\ discardedMax'[s] = discardedMax[s]
      /\ count'[s] = [count[s] EXCEPT ![k] = SatAdd(discardedMax[s], w)]
      /\ truth'[s] = [truth[s] EXCEPT ![k] = truth[s][k] + w]
  BY <1>1 DEF Functions, Seat, Recorded, SeatedFrom
<1>3. /\ w \in Nat
      /\ count[s] \in [Keys -> Nat] /\ truth[s] \in [Keys -> Nat]
      /\ count[s][k] = 0 /\ truth[s][k] \in Nat
      /\ discardedMax[s] = 0
  BY <1>1, <1>2, SumTyped, SummaryAssumption DEF Typed, Fair
<1>4. SatAdd(discardedMax[s], w) \in Nat /\ SatAdd(discardedMax[s], w) <= w
  BY <1>3, SummaryAssumption DEF SatAdd, Saturated
<1>5. PICK c \in Nat : c = SatAdd(discardedMax[s], w)
  BY <1>4
<1>6. PICK t \in Nat : t = truth[s][k] + w
  BY <1>3
<1>7. /\ SumOf(count[s]) \in Nat /\ SumOf(count'[s]) \in Nat
      /\ SumOf(count[s]) + c = SumOf(count'[s]) + count[s][k]
  BY <1>2, <1>3, <1>5, OneChanged
<1>8. /\ SumOf(truth[s]) \in Nat /\ SumOf(truth'[s]) \in Nat
      /\ SumOf(truth[s]) + t = SumOf(truth'[s]) + truth[s][k]
  BY <1>2, <1>3, <1>6, OneChanged
<1>9. SumOf(count[s]) <= SumOf(truth[s])
  BY DEF Fair
<1>10. SumOf(count'[s]) <= SumOf(truth'[s])
  BY <1>3, <1>4, <1>5, <1>6, <1>7, <1>8, <1>9
<1>11. \A j \in Keys \ monitored'[s] : count'[s][j] = 0
  BY <1>2, <1>3 DEF Fair
<1>12. ~Full(s)' => discardedMax'[s] = 0
  BY <1>2, <1>3
<1> QED
  BY <1>10, <1>11, <1>12 DEF Fair

LEMMA DisplaceIsFair ==
  ASSUME IInv, NEW s \in Summaries, NEW k \in Keys, NEW w \in Weights, NEW v \in Keys,
         Displace(s, k, w, v), Fair(s)
  PROVE  Fair(s)'
<1>1. Functions /\ Typed(s)
  BY PerSummary
<1>2. /\ k \notin monitored[s] /\ v \in monitored[s] /\ v # k
      /\ Full(s)
      /\ monitored'[s] = (monitored[s] \ {v}) \cup {k}
      /\ count'[s] = [count[s] EXCEPT ![v] = 0, ![k] = SatAdd(count[s][v], w)]
      /\ truth'[s] = [truth[s] EXCEPT ![k] = truth[s][k] + w]
  BY <1>1 DEF Functions, Displace, Recorded, IsMinimum
<1>3. /\ w \in Nat
      /\ count[s] \in [Keys -> Nat] /\ truth[s] \in [Keys -> Nat]
      /\ count[s][k] = 0 /\ count[s][v] \in Nat /\ truth[s][k] \in Nat
  BY <1>1, <1>2, SumTyped, SummaryAssumption DEF Typed, Fair
<1>4. SatAdd(count[s][v], w) \in Nat /\ SatAdd(count[s][v], w) <= count[s][v] + w
  BY <1>3, SummaryAssumption DEF SatAdd, Saturated
<1>5. PICK c \in Nat : c = SatAdd(count[s][v], w)
  BY <1>4
<1>6. PICK t \in Nat : t = truth[s][k] + w
  BY <1>3
<1>7. PICK g : g = [count[s] EXCEPT ![v] = 0]
  OBVIOUS
<1>8. /\ g \in [Keys -> Nat] /\ SumOf(count[s]) \in Nat /\ SumOf(g) \in Nat
      /\ SumOf(count[s]) + 0 = SumOf(g) + count[s][v]
  <2>1. 0 \in Nat
    OBVIOUS
  <2> QED
    BY <1>3, <1>7, <2>1, OneChanged
<1>9. g[k] = 0 /\ count'[s] = [g EXCEPT ![k] = c]
  BY <1>2, <1>3, <1>5, <1>7
<1>10. /\ SumOf(count'[s]) \in Nat
       /\ SumOf(g) + c = SumOf(count'[s]) + g[k]
  <2>1. PICK q : q = count'[s]
    OBVIOUS
  <2>2. q \in [Keys -> Nat] /\ q[k] = c /\ \A j \in Keys \ {k} : g[j] = q[j]
    BY <1>8, <1>9, <2>1
  <2>3. SumOf(q) \in Nat
    BY <2>2, SumOfTruth
  <2>4. SumOf(g) + q[k] = SumOf(q) + g[k]
    BY <1>8, <2>2, SumMoved
  <2> QED
    BY <2>1, <2>2, <2>3, <2>4
<1>11. /\ SumOf(truth[s]) \in Nat /\ SumOf(truth'[s]) \in Nat
       /\ SumOf(truth[s]) + t = SumOf(truth'[s]) + truth[s][k]
  BY <1>2, <1>3, <1>6, OneChanged
<1>12. SumOf(count[s]) <= SumOf(truth[s])
  BY DEF Fair
<1>13. SumOf(count'[s]) <= SumOf(truth'[s])
  BY <1>3, <1>4, <1>5, <1>6, <1>8, <1>9, <1>10, <1>11, <1>12
<1>14. \A j \in Keys \ monitored'[s] : count'[s][j] = 0
  BY <1>2, <1>3 DEF Fair
<1>15. Full(s)'
  <2>1. IsFiniteSet(monitored[s]) /\ Cardinality(monitored[s]) = Capacity[s]
    BY <1>1, <1>2 DEF Typed, Full
  <2>2. PICK r : r = monitored[s] \ {v}
    OBVIOUS
  <2>3. IsFiniteSet(r) /\ Cardinality(r) = Capacity[s] - 1
    BY <1>2, <2>1, <2>2, FS_RemoveElement, ZenonT(60)
  <2>4. k \notin r /\ monitored'[s] = r \cup {k}
    BY <1>2, <2>2
  <2>5. Cardinality(r \cup {k}) = Cardinality(r) + 1
    BY <2>3, <2>4, FS_AddElement
  <2>6. Capacity[s] \in Nat
    BY SummaryAssumption
  <2>7. Cardinality(monitored'[s]) = Capacity[s]
    BY <2>3, <2>4, <2>5, <2>6
  <2> QED
    BY <2>7 DEF Full
<1> QED
  BY <1>13, <1>14, <1>15 DEF Fair

LEMMA EmptyIsFair ==
  ASSUME NEW s \in Summaries, monitored[s] = {}, count[s] = Nothing, truth[s] = Nothing,
         discardedMax[s] = 0
  PROVE  Fair(s)
<1>1. SumOf(Nothing) \in Nat
  BY SumOfTruth DEF Nothing
<1>2. \A k \in Keys : count[s][k] = 0
  BY DEF Nothing
<1> QED
  BY <1>1, <1>2 DEF Fair

LEMMA InitShared == Init => Shared
<1> SUFFICES ASSUME Init, NEW s \in Summaries
             PROVE  Fair(s)
  BY DEF Shared
<1> QED
  BY EmptyIsFair DEF Init

LEMMA ClearIsFair ==
  ASSUME IInv, NEW s \in Summaries, Clear(s)
  PROVE  Fair(s)'
<1>1. Functions
  BY PerSummary
<1>2. monitored'[s] = {} /\ count'[s] = Nothing /\ truth'[s] = Nothing /\ discardedMax'[s] = 0
  BY <1>1 DEF Functions, Clear
<1>3. SumOf(Nothing) \in Nat
  BY SumOfTruth DEF Nothing
<1>4. \A k \in Keys : count'[s][k] = 0
  BY <1>2 DEF Nothing
<1> QED
  BY <1>2, <1>3, <1>4 DEF Fair

LEMMA StepIsShared ==
  ASSUME IInv, Shared, [Next]_vars
  PROVE  Shared'
<1>1. Functions
  BY PerSummary
<1>2. CASE UNCHANGED vars
  BY <1>2 DEF vars, Shared, Fair, Full
<1>3. ASSUME NEW s \in Summaries,
             \/ \E k \in Keys, w \in Weights : Insert(s, k, w)
             \/ \E t \in Summaries : Merge(s, t)
             \/ Clear(s)
      PROVE  Shared'
  <2>1. ASSUME NEW r \in Summaries, r # s
        PROVE  /\ monitored'[r] = monitored[r] /\ count'[r] = count[r]
               /\ discardedMax'[r] = discardedMax[r] /\ truth'[r] = truth[r]
               /\ r \in merged' <=> r \in merged
    <3>1. CASE \E k \in Keys, w \in Weights : Insert(s, k, w)
      BY <1>1, <2>1, <3>1 DEF Functions, Insert, Raise, Seat, Displace, Recorded
    <3>2. CASE \E t \in Summaries : Merge(s, t)
      BY <1>1, <2>1, <3>2 DEF Functions, Merge
    <3>3. CASE Clear(s)
      BY <1>1, <2>1, <3>3 DEF Functions, Clear
    <3> QED
      BY <1>3, <3>1, <3>2, <3>3
  <2>2. \A r \in Summaries \ merged' : r # s => Fair(r)'
    BY <2>1, OthersStayFair DEF Shared
  <2>3. s \notin merged' => Fair(s)'
    <3>1. CASE \E k \in Keys, w \in Weights : Insert(s, k, w)
      <4>1. PICK k \in Keys, w \in Weights : Insert(s, k, w)
        BY <3>1
      <4>2. merged' = merged
        BY <4>1 DEF Insert, Raise, Seat, Displace, Recorded
      <4>3. s \notin merged' => Fair(s)
        BY <4>2 DEF Shared
      <4> QED
        BY <4>1, <4>3, RaiseIsFair, SeatIsFair, DisplaceIsFair DEF Insert
    <3>2. CASE \E t \in Summaries : Merge(s, t)
      BY <3>2 DEF Merge
    <3>3. CASE Clear(s)
      BY <3>3, ClearIsFair
    <3> QED
      BY <1>3, <3>1, <3>2, <3>3
  <2> QED
    BY <2>2, <2>3 DEF Shared
<1> QED
  BY <1>2, <1>3 DEF Next

LEMMA SharedAlways == Spec => []Shared
<1>1. IInv /\ Shared /\ [Next]_vars => Shared'
  BY StepIsShared
<1> QED
  BY <1>1, InitShared, InvariantCorrect, PTL DEF Spec

(* The sizing rule: whatever is inserted, evicted and cleared, the ceiling *)
(* of a summary that nothing was merged into is at most the weight of its  *)
(* stream divided by its capacity.                                         *)
THEOREM CeilingIsFairShareCorrect == Spec => []CeilingIsFairShare
<1>1. ASSUME IInv, Shared, NEW s \in Summaries \ merged
      PROVE  MinCount(s) * Capacity[s] <= MapThenSumSet(LAMBDA k : truth[s][k], Keys)
  <2>1. Typed(s) /\ Sound(s) /\ Fair(s)
    BY <1>1, PerSummary DEF Shared
  <2>2. /\ count[s] \in [Keys -> Nat] /\ truth[s] \in [Keys -> Nat]
        /\ SumOf(count[s]) \in Nat /\ SumOf(truth[s]) \in Nat
        /\ SumOf(count[s]) <= SumOf(truth[s])
    BY <2>1, SumTyped, SumOfTruth DEF Typed, Fair
  <2>3. DOMAIN truth[s] = Keys
    BY <2>2
  <2>4. MapThenSumSet(LAMBDA k : truth[s][k], Keys) = SumOf(truth[s])
    BY <2>3, Zenon DEF SumOf
  <2>5. /\ MinCount(s) \in Nat
        /\ \A k \in monitored[s] : MinCount(s) <= count[s][k]
    BY <2>1, MinCountOf DEF Counts
  <2>6. CASE Full(s)
    <3>1. monitored[s] \in SUBSET Keys
      BY <2>1 DEF Typed
    <3>2. MinCount(s) * Cardinality(monitored[s]) <= SumOf(count[s])
      BY <2>2, <2>5, <3>1, SumAtLeast, KeysFinite
    <3>3. Cardinality(monitored[s]) = Capacity[s] /\ Capacity[s] \in Nat
      BY <2>6, SummaryAssumption DEF Full
    <3>4. PICK p \in Nat : p = MinCount(s) * Capacity[s]
      BY <2>5, <3>3
    <3> QED
      BY <2>2, <2>4, <3>2, <3>3, <3>4
  <2>7. CASE ~Full(s)
    <3>1. MinCount(s) = 0
      BY <2>1, <2>7 DEF Fair, MinCount
    <3>2. Capacity[s] \in Nat
      BY SummaryAssumption
    <3>3. MinCount(s) * Capacity[s] = 0
      BY <3>1, <3>2
    <3> QED
      BY <2>2, <2>4, <3>3
  <2> QED
    BY <2>6, <2>7
<1>2. IInv /\ Shared => CeilingIsFairShare
  BY <1>1 DEF CeilingIsFairShare
<1> QED
  BY <1>2, InvariantCorrect, SharedAlways, PTL

=============================================================================
