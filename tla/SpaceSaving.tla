------------------------------ MODULE SpaceSaving ------------------------------
(***************************************************************************)
(* What the Space-Saving summaries of src/src/sketches/space_saving.rs     *)
(* answer with: for each summary the monitored keys with their count and   *)
(* error, and the ceiling on every key that is not monitored.  How the     *)
(* counters are linked is left to StreamSummary, which implements this     *)
(* module.                                                                 *)
(*                                                                         *)
(* Counts are u64 and saturate: MaxCount stands for u64::MAX.  truth is    *)
(* what the streams really carried, and is never cut off.                  *)
(***************************************************************************)
EXTENDS Integers, FiniteSets, FiniteSetsExt

CONSTANTS
  Keys,
  Summaries,
  Capacity,   \* of each summary, after max(1)
  Weights,    \* counts passed to insert_many; zero is a no-op
  MaxCount,
  MaxCalls    \* bound: calls of insert_many, merge and clear

ASSUME SummaryAssumption ==
  /\ Capacity \in [Summaries -> Nat \ {0}]
  /\ Weights \subseteq Nat \ {0}
  /\ MaxCount \in Nat
  /\ MaxCalls \in Nat

\* The weight of a stream is a sum over the keys.
ASSUME KeysFinite == IsFiniteSet(Keys)

VARIABLES
  monitored,     \* the keys each summary holds a counter for
  count, error,  \* their counts and error allowances
  discardedMax,  \* largest count known to have left
  total,         \* weight recorded
  truth,         \* history: weight each key really had
  merged,        \* history: summaries that have absorbed another
  calls

counters == <<monitored, count, error, discardedMax, total>>
vars == <<monitored, count, error, discardedMax, total, truth, merged, calls>>

Larger(a, b)  == IF a > b THEN a ELSE b
Saturated(n)  == IF n > MaxCount THEN MaxCount ELSE n
SatAdd(a, b)  == Saturated(a + b)

(***************************************************************************)
(* The answers of a summary.                                               *)
(***************************************************************************)
Full(s) == Cardinality(monitored[s]) = Capacity[s]

Lowest(s) ==
  CHOOSE n \in {count[s][k] : k \in monitored[s]} :
    \A k \in monitored[s] : n <= count[s][k]

\* Slip: what has left is forgotten.
MinCount_LiveOnly(s) == IF Full(s) THEN Lowest(s) ELSE 0
MinCount(s) ==
  IF Full(s) THEN Larger(discardedMax[s], Lowest(s)) ELSE discardedMax[s]

UpperBound(s, k) == IF k \in monitored[s] THEN count[s][k] ELSE MinCount(s)
ErrorOf(s, k) == IF k \in monitored[s] THEN error[s][k] ELSE MinCount(s)

IsGuaranteed_OrTies(s, k) ==
  k \in monitored[s] /\ count[s][k] - error[s][k] >= MinCount(s)
IsGuaranteed(s, k) ==
  k \in monitored[s] /\ count[s][k] - error[s][k] > MinCount(s)

(***************************************************************************)
(* Operations.                                                             *)
(***************************************************************************)
Nothing == [k \in Keys |-> 0]

Init ==
  /\ monitored = [s \in Summaries |-> {}]
  /\ count = [s \in Summaries |-> Nothing]
  /\ error = [s \in Summaries |-> Nothing]
  /\ discardedMax = [s \in Summaries |-> 0]
  /\ total = [s \in Summaries |-> 0]
  /\ truth = [s \in Summaries |-> Nothing]
  /\ merged = {}
  /\ calls = 0

Call == calls < MaxCalls /\ calls' = calls + 1

\* What every insert_many records.
Recorded(s, k, w) ==
  /\ Call
  /\ total' = [total EXCEPT ![s] = SatAdd(@, w)]
  /\ truth' = [truth EXCEPT ![s][k] = @ + w]
  /\ UNCHANGED merged

Raise(s, k, w) ==
  /\ k \in monitored[s]
  /\ Recorded(s, k, w)
  /\ count' = [count EXCEPT ![s][k] = SatAdd(@, w)]
  /\ UNCHANGED <<monitored, error, discardedMax>>

\* Slip: a free counter starts from nothing.
SeatedFrom_Zero(s) == 0
SeatedFrom(s) == discardedMax[s]

Seat(s, k, w) ==
  /\ k \notin monitored[s]
  /\ ~Full(s)
  /\ Recorded(s, k, w)
  /\ monitored' = [monitored EXCEPT ![s] = @ \cup {k}]
  /\ count' = [count EXCEPT ![s][k] = SatAdd(SeatedFrom(s), w)]
  /\ error' = [error EXCEPT ![s][k] = SeatedFrom(s)]
  /\ UNCHANGED discardedMax

\* Slip: any counter is taken.
IsMinimum_Any(s, v) == v \in monitored[s]
IsMinimum(s, v) ==
  v \in monitored[s] /\ \A k \in monitored[s] : count[s][v] <= count[s][k]

\* An eviction takes a smallest counter over, with its count as error.
Displace(s, k, w, v) ==
  /\ k \notin monitored[s]
  /\ Full(s)
  /\ IsMinimum(s, v)
  /\ Recorded(s, k, w)
  /\ monitored' = [monitored EXCEPT ![s] = (@ \ {v}) \cup {k}]
  /\ count' = [count EXCEPT ![s] = [@ EXCEPT ![v] = 0, ![k] = SatAdd(count[s][v], w)]]
  /\ error' = [error EXCEPT ![s] = [@ EXCEPT ![v] = 0, ![k] = count[s][v]]]
  /\ discardedMax' = [discardedMax EXCEPT ![s] = count[s][v]]

Union(s, t) == monitored[s] \cup monitored[t]
Combined(s, t, k) == SatAdd(UpperBound(s, k), UpperBound(t, k))

\* The largest counts of the union, as many as fit.
Survivors(s, t) ==
  {kept \in SUBSET Union(s, t) :
     /\ \A k \in kept, d \in Union(s, t) \ kept : Combined(s, t, d) <= Combined(s, t, k)
     /\ \/ kept = Union(s, t) /\ Cardinality(kept) <= Capacity[s]
        \/ kept # Union(s, t) /\ Cardinality(kept) = Capacity[s]}

\* Ceilings on a key that the union does not hold or that was cut off.
Ceilings(s, t, kept) ==
  {SatAdd(MinCount(s), MinCount(t))} \cup {Combined(s, t, d) : d \in Union(s, t) \ kept}

Merge(s, t) ==
  /\ s # t
  /\ Call
  /\ \E kept \in Survivors(s, t) :
       /\ monitored' = [monitored EXCEPT ![s] = kept]
       /\ count' = [count EXCEPT ![s] =
            [k \in Keys |-> IF k \in kept THEN Combined(s, t, k) ELSE 0]]
       /\ error' = [error EXCEPT ![s] =
            [k \in Keys |-> IF k \in kept THEN SatAdd(ErrorOf(s, k), ErrorOf(t, k)) ELSE 0]]
       /\ \E c \in Ceilings(s, t, kept) :
            /\ \A d \in Ceilings(s, t, kept) : d <= c
            /\ discardedMax' = [discardedMax EXCEPT ![s] = c]
  /\ total' = [total EXCEPT ![s] = SatAdd(@, total[t])]
  /\ truth' = [truth EXCEPT ![s] = [k \in Keys |-> @[k] + truth[t][k]]]
  /\ merged' = merged \cup {s}

Clear(s) ==
  /\ Call
  /\ monitored' = [monitored EXCEPT ![s] = {}]
  /\ count' = [count EXCEPT ![s] = Nothing]
  /\ error' = [error EXCEPT ![s] = Nothing]
  /\ discardedMax' = [discardedMax EXCEPT ![s] = 0]
  /\ total' = [total EXCEPT ![s] = 0]
  /\ truth' = [truth EXCEPT ![s] = Nothing]
  /\ merged' = merged \ {s}

Insert(s, k, w) ==
  \/ Raise(s, k, w)
  \/ Seat(s, k, w)
  \/ \E v \in Keys : Displace(s, k, w, v)

Next ==
  \E s \in Summaries :
    \/ \E k \in Keys, w \in Weights : Insert(s, k, w)
    \/ \E t \in Summaries : Merge(s, t)
    \/ Clear(s)

Spec == Init /\ [][Next]_vars

(***************************************************************************)
(* Properties.                                                             *)
(***************************************************************************)
Counts == 0..MaxCount

(* Well formed, and never more counters than the capacity. *)
TypeOK ==
  /\ monitored \in [Summaries -> SUBSET Keys]
  /\ count \in [Summaries -> [Keys -> Counts]]
  /\ error \in [Summaries -> [Keys -> Counts]]
  /\ discardedMax \in [Summaries -> Counts]
  /\ total \in [Summaries -> Counts]
  /\ truth \in [Summaries -> [Keys -> Nat]]
  /\ \A s \in Summaries :
       IsFiniteSet(monitored[s]) /\ Cardinality(monitored[s]) <= Capacity[s]

(* A monitored key's count never underestimates what insert_many and merge *)
(* have brought it and overstates it by at most its error (lines 3 to 7),  *)
(* through evictions, merges and saturation.                               *)
EstimatesBound ==
  \A s \in Summaries : \A k \in monitored[s] :
    /\ Saturated(truth[s][k]) <= count[s][k]
    /\ count[s][k] <= truth[s][k] + error[s][k]
    /\ error[s][k] <= count[s][k]

(* The assertion of insert_many: the ceiling is not above a live count.    *)
CountsAboveCeiling ==
  \A s \in Summaries : \A k \in monitored[s] : discardedMax[s] <= count[s][k]

(* No key that left a summary, or that never was in it, had more weight    *)
(* than the ceiling that min_count answers with.                           *)
DroppedBelowCeiling ==
  \A s \in Summaries : \A k \in Keys \ monitored[s] :
    Saturated(truth[s][k]) <= discardedMax[s]

(* The inductive invariant. *)
IInv == TypeOK /\ EstimatesBound /\ CountsAboveCeiling /\ DroppedBelowCeiling

(* upper_bound never falls below the truth, for any key in the stream,     *)
(* monitored, dropped on the way or cut off by a merge.                    *)
UpperBoundHolds ==
  \A s \in Summaries, k \in Keys : Saturated(truth[s][k]) <= UpperBound(s, k)

(* A key is_guaranteed names outranks every key that is not monitored.     *)
GuaranteedOutranks ==
  \A s \in Summaries : \A k \in Keys : IsGuaranteed(s, k) =>
    \A d \in Keys \ monitored[s] : truth[s][d] < truth[s][k]

(* The sizing rule of docs/api/api_space_saving.md: over a stream of total *)
(* weight N the ceiling is at most N / capacity, as long as nothing was    *)
(* merged in.  (Counts and totals of a merge do not follow it.)            *)
CeilingIsFairShare ==
  \A s \in Summaries \ merged :
    MinCount(s) * Capacity[s] <= MapThenSumSet(LAMBDA k : truth[s][k], Keys)
=============================================================================
