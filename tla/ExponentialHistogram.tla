-------------------------- MODULE ExponentialHistogram --------------------------
(***************************************************************************)
(* The sliding-window histogram of src/src/sketch_framework/eh.rs: buckets *)
(* from oldest to newest, each with a sketch, merged by size (L1) or by    *)
(* mass (L2), and the interval query over them.                            *)
(*                                                                         *)
(* A sketch is the set of updates it has taken in and its kind; two        *)
(* sketches of different kinds refuse to merge (a custom updater may       *)
(* replace the sketch of its bucket, and DDSketches may have different     *)
(* index mappings).  An update runs its merge loop one turn at a step;     *)
(* `&mut self' keeps every other call out until it returns.  Masses are    *)
(* whole numbers, so MASS_EPSILON only absorbs the rounding of a division  *)
(* that is not made here.                                                  *)
(***************************************************************************)
EXTENDS Integers, Sequences, FiniteSets, FiniteSetsExt

CONSTANTS
  K,             \* merge parameter, after max(1)
  Norms,         \* the norms a histogram may merge by
  Kinds,         \* kinds of sketches a bucket may hold
  Prototype,     \* the kind of type_to_clone
  Keys, Weights, \* what one update adds
  Windows,       \* window lengths the caller sets
  InputsOf,      \* bound: the updates tried, by norm
  MaxTime,       \* bound: latest timestamp
  MaxGap,        \* bound: how far a timestamp is ahead of the latest one
  MaxLate,       \* bound: how far it is behind
  MaxUpdates,    \* bound: updates, by norm
  MaxReplaced,   \* bound: updates that replace the sketch of their bucket
  MaxResizes     \* bound: calls of update_window, by norm

Times   == 0..MaxTime
Entries == [time : Times, key : Keys, weight : Weights, kind : Kinds]

ASSUME HistogramAssumption ==
  /\ K \in Nat \ {0}
  /\ Norms \subseteq {"L1", "L2"}
  /\ Weights \subseteq Nat
  /\ Windows \subseteq Nat
  /\ InputsOf \in [Norms -> SUBSET Entries]
  /\ MaxTime \in Nat
  /\ MaxGap \in Nat
  /\ MaxLate \in Nat
  /\ MaxUpdates \in [Norms -> Nat]
  /\ MaxReplaced \in Nat
  /\ MaxResizes \in [Norms -> Nat]

\* A mass is a sum over the keys.
ASSUME KeysFinite == IsFiniteSet(Keys)

VARIABLES
  norm,          \* merge_norm, "L1" or "L2"
  payload,       \* buckets, oldest first
  window,        \* current window length
  phase,         \* "idle", or the merge loop an update is in
  at,            \* i of merge_volumes_l1
  same,          \* same_size_vol of merge_volumes_l1
  log,           \* history: the updates, in order
  cutoff,        \* history: the largest expiry limit an update has used
  resizes        \* history: calls of update_window

loopVars == <<phase, at, same>>
history  == <<log, cutoff, resizes>>
vars == <<norm, payload, window, phase, at, same, log, cutoff, resizes>>

(***************************************************************************)
(* Buckets.                                                                *)
(***************************************************************************)
Larger(a, b)  == IF a > b THEN a ELSE b
Smaller(a, b) == IF a < b THEN a ELSE b

(* The L2 mass of a sketch that has seen these updates of a log; sketches  *)
(* merged by size have none.                                               *)
Mass(updates, seen) ==
  LET count(key) == MapThenSumSet(LAMBDA o : updates[o].weight,
                                  {o \in seen : updates[o].key = key})
  IN  IF norm = "L1" THEN 0
      ELSE MapThenSumSet(LAMBDA key : count(key) * count(key), Keys)

Joined(a, b) ==
  [seen |-> a.seen \cup b.seen,
   kind |-> a.kind,
   size |-> a.size + b.size,
   mass |-> Mass(log, a.seen \cup b.seen),
   min  |-> Smaller(a.min, b.min),
   max  |-> Larger(a.max, b.max)]

(* merge_at_index: whether the pair refuses, and the payload without it.   *)
Refuses(index) ==
  /\ index + 1 <= Len(payload)
  /\ payload[index].kind # payload[index + 1].kind

Rest(index) == SubSeq(payload, index + 2, Len(payload))

MergedAt(index) ==
  IF index + 1 > Len(payload) THEN payload
  ELSE SubSeq(payload, 1, index - 1)
         \o <<Joined(payload[index], payload[index + 1])>>
         \o Rest(index)

(***************************************************************************)
(* Update: expiry, the new bucket, then one of the merge loops.            *)
(***************************************************************************)
Init ==
  /\ norm \in Norms
  /\ payload = <<>>
  /\ window \in Windows
  /\ phase = "idle"
  /\ at = 0
  /\ same = 0
  /\ log = <<>>
  /\ cutoff = 0
  /\ resizes = 0

Latest == IF log = <<>> THEN 0 ELSE Max({log[o].time : o \in DOMAIN log})

(* time.saturating_sub(window) *)
CutoffAt(time) == IF time < window THEN 0 ELSE time - window

Expired_WholeWindow(bucket, time) == bucket.min < CutoffAt(time)
Expired(bucket, time) == bucket.max < CutoffAt(time)

Alive(time) == {i \in DOMAIN payload : ~Expired(payload[i], time)}

(* take_while stops at the first bucket that is still in the window. *)
Survivors_OneTooMany(time) ==
  IF Alive(time) = {} THEN <<>>
  ELSE SubSeq(payload, Larger(1, Min(Alive(time)) - 1), Len(payload))
Survivors(time) ==
  IF Alive(time) = {} THEN <<>>
  ELSE SubSeq(payload, Min(Alive(time)), Len(payload))

Replaced == {o \in DOMAIN log : log[o].kind # Prototype}

UpdateWith(time, key, weight, kind) ==
  LET entry == [time |-> time, key |-> key, weight |-> weight, kind |-> kind]
      new   == [seen |-> {Len(log) + 1}, kind |-> kind, size |-> 1,
                mass |-> Mass(Append(log, entry), {Len(log) + 1}),
                min  |-> time, max |-> time]
      next  == Append(Survivors(time), new)
  IN  /\ phase = "idle"
      /\ Len(log) < MaxUpdates[norm]
      /\ time <= Latest + MaxGap
      /\ time + MaxLate >= Latest
      /\ kind # Prototype => Cardinality(Replaced) < MaxReplaced
      /\ payload' = next
      /\ log' = Append(log, entry)
      /\ cutoff' = Larger(cutoff, CutoffAt(time))
      /\ IF norm = "L2"
         THEN phase' = "l2" /\ UNCHANGED <<at, same>>
         ELSE IF Len(next) < 2
              THEN UNCHANGED loopVars
              ELSE phase' = "l1" /\ at' = Len(next) - 1 /\ same' = 1
      /\ UNCHANGED <<norm, window, resizes>>

UpdateWindow(w) ==
  /\ phase = "idle"
  /\ resizes < MaxResizes[norm]
  /\ window' = w
  /\ resizes' = resizes + 1
  /\ UNCHANGED <<norm, payload, loopVars, log, cutoff>>

Return == phase' = "idle" /\ at' = 0 /\ same' = 0

(* same_size_vol >= k / 2 + 2 *)
RunTooLong_OneLate(n) == 2 * n >= K + 6
RunTooLong(n) == 2 * n >= K + 4

(* The counter moves on to the next older bucket, or leaves the loop.      *)
NextOlder ==
  IF at = 1 THEN phase' = "l1_oldest" /\ at' = 0
  ELSE at' = at - 1 /\ UNCHANGED phase

CountSame ==
  /\ phase = "l1"
  /\ payload[at].size = payload[at + 1].size
  /\ same' = same + 1
  /\ NextOlder
  /\ UNCHANGED <<norm, payload, window, history>>

(* A run of equal sizes ends here: its two oldest buckets merge if it is   *)
(* too long, and the result may extend the next run.                       *)
EndRun ==
  /\ phase = "l1"
  /\ payload[at].size # payload[at + 1].size
  /\ ~(RunTooLong(same) /\ Refuses(at + 1))
  /\ payload' = IF RunTooLong(same) THEN MergedAt(at + 1) ELSE payload
  /\ same' = IF /\ at + 1 <= Len(payload')
                /\ at > 1
                /\ payload'[at + 1].size = payload'[at].size
             THEN 2 ELSE 1
  /\ NextOlder
  /\ UNCHANGED <<norm, window, history>>

RunRefuses ==
  /\ phase = "l1"
  /\ payload[at].size # payload[at + 1].size
  /\ RunTooLong(same)
  /\ Refuses(at + 1)
  /\ Return
  /\ UNCHANGED <<norm, payload, window, history>>

(* After the loop: the run that reaches the oldest bucket. *)
EndOldestRun ==
  /\ phase = "l1_oldest"
  /\ payload' = IF Len(payload) >= 2 /\ RunTooLong(same) /\ ~Refuses(1)
                THEN MergedAt(1) ELSE payload
  /\ Return
  /\ UNCHANGED <<norm, window, history>>

MassAfter_NewestOnly(i) ==
  IF i + 2 <= Len(payload) THEN payload[Len(payload)].mass ELSE 0
MassAfter(i) == MapThenSumSet(LAMBDA j : payload[j].mass, (i + 2)..Len(payload))

(* find_l2_merge_candidate: the newest pair whose mass is at most 1/k of   *)
(* all that is newer.                                                      *)
Candidates ==
  {i \in 1..(Len(payload) - 1) :
     K * (payload[i].mass + payload[i + 1].mass) <= MassAfter(i)}

MergeCandidate ==
  /\ phase = "l2"
  /\ Candidates # {}
  /\ ~Refuses(Max(Candidates))
  /\ payload' = MergedAt(Max(Candidates))
  /\ UNCHANGED <<norm, window, loopVars, history>>

EndL2 ==
  /\ phase = "l2"
  /\ Candidates # {} => Refuses(Max(Candidates))
  /\ Return
  /\ UNCHANGED <<norm, payload, window, history>>

Done ==
  /\ phase = "idle"
  /\ Len(log) = MaxUpdates[norm]
  /\ UNCHANGED vars

Update == \E u \in InputsOf[norm] : UpdateWith(u.time, u.key, u.weight, u.kind)

Next ==
  \/ Update
  \/ \E w \in Windows : UpdateWindow(w)
  \/ CountSame \/ EndRun \/ RunRefuses \/ EndOldestRun
  \/ MergeCandidate \/ EndL2
  \/ Done

Spec == Init /\ [][Next]_vars

(***************************************************************************)
(* query_interval_merge and cover, over indices 1..Len(payload).           *)
(***************************************************************************)
Holding(t) == {i \in DOMAIN payload : payload[i].min <= t /\ t <= payload[i].max}

Distance(a, b) == IF a > b THEN a - b ELSE b - a

NearerEnd(t, i) == Distance(t, payload[i].min) > Distance(t, payload[i].max)

(* The last bucket that holds a time is taken, and the first bucket of all *)
(* when none does; a time past either end is clamped.                      *)
FromBucket(t) ==
  LET found == IF t < payload[1].min \/ Holding(t) = {} THEN 1 ELSE Max(Holding(t))
  IN  IF NearerEnd(t, found) /\ found < Len(payload) THEN found + 1 ELSE found

ToBucket(t) ==
  IF t > payload[Len(payload)].max THEN Len(payload)
  ELSE IF Holding(t) = {} THEN 1 ELSE Max(Holding(t))

NoAnswer == [some |-> FALSE, seen |-> {}]

Query_EndExcluded(t1, t2) ==
  IF payload = <<>> THEN NoAnswer
  ELSE LET from == FromBucket(t1)
           upTo == Larger(from, ToBucket(t2) - 1)
       IN  [some |-> TRUE, seen |-> UNION {payload[i].seen : i \in from..upTo}]
Query(t1, t2) ==
  IF payload = <<>> THEN NoAnswer
  ELSE LET from  == FromBucket(t1)
           upTo  == Larger(from, ToBucket(t2))
           range == from..upTo
       IN  IF \E i \in range : payload[i].kind # payload[from].kind THEN NoAnswer
           ELSE [some |-> TRUE, seen |-> UNION {payload[i].seen : i \in range}]

Cover(mint, maxt) ==
  /\ payload # <<>>
  /\ payload[Len(payload)].max >= maxt
  /\ payload[1].min <= mint

(***************************************************************************)
(* Properties.                                                             *)
(***************************************************************************)
Phases == {"idle", "l1", "l1_oldest", "l2"}

(* The histogram is well formed at every turn of an update: a bucket holds *)
(* updates that were made and a time range they can have.                  *)
TypeOK ==
  /\ norm \in Norms
  /\ \A i \in DOMAIN payload :
       /\ payload[i].seen \subseteq DOMAIN log
       /\ payload[i].kind \in Kinds
       /\ payload[i].size \in Nat
       /\ payload[i].min \in Times
       /\ payload[i].max \in Times
  /\ window \in Windows
  /\ phase \in Phases
  /\ at \in Nat
  /\ same \in Nat
  /\ log \in Seq(Entries)
  /\ Len(log) <= MaxUpdates[norm]
  /\ cutoff \in Nat
  /\ resizes \in 0..MaxResizes[norm]

Retained == UNION {payload[i].seen : i \in DOMAIN payload}

(* merge_at_index and the expiry of update_with move and drop whole        *)
(* buckets: no update is in two of them, and one that is in none is older  *)
(* than a limit that was in force.                                         *)
EachInOneBucket ==
  /\ \A i, j \in DOMAIN payload : i # j => payload[i].seen \cap payload[j].seen = {}
  /\ \A o \in DOMAIN log : o \in Retained \/ log[o].time < cutoff

(* No sketch that one bucket holds was merged out of two kinds.            *)
KindsUnmixed ==
  \A i \in DOMAIN payload : \A o \in payload[i].seen : log[o].kind = payload[i].kind

(* A bucket's time range holds the times of its updates.                   *)
SpansHold ==
  \A i \in DOMAIN payload : \A o \in payload[i].seen :
    payload[i].min <= log[o].time /\ log[o].time <= payload[i].max

(* The inductive invariant of the proofs. *)
IInv == TypeOK /\ EachInOneBucket /\ KindsUnmixed /\ SpansHold

InOrder  == \A o, p \in DOMAIN log : o < p => log[o].time <= log[p].time
Strictly == \A o, p \in DOMAIN log : o < p => log[o].time < log[p].time
OneKind  == \A o, p \in DOMAIN log : log[o].kind = log[p].kind

(* The bound of the L1 rule: after an update no k/2 + 2 buckets have the   *)
(* same size, and sizes do not grow from old to new, so the buckets are    *)
(* logarithmic in the updates retained.  One pass of merge_volumes_l1 is   *)
(* enough for it, whatever expired before.                                 *)
RunsBounded ==
  norm = "L1" /\ phase = "idle" /\ OneKind =>
    /\ \A i \in DOMAIN payload :
         2 * Cardinality({j \in DOMAIN payload : payload[j].size = payload[i].size}) < K + 4
    /\ \A i \in 1..(Len(payload) - 1) : payload[i].size >= payload[i + 1].size

(* The bound of the L2 rule: after an update any two neighbours together   *)
(* weigh more than 1/k of all that is newer.                               *)
PairsHeavy ==
  norm = "L2" /\ phase = "idle" /\ OneKind =>
    \A i \in 1..(Len(payload) - 1) :
      K * (Mass(log, payload[i].seen) + Mass(log, payload[i + 1].seen))
        > MapThenSumSet(LAMBDA j : Mass(log, payload[j].seen), (i + 2)..Len(payload))

(* In order of time, the buckets an update leaves are laid out in order    *)
(* and none has left the window the update saw.                            *)
NothingStale ==
  InOrder /\ log # <<>> =>
    /\ \A i \in 1..(Len(payload) - 1) : payload[i].max <= payload[i + 1].min
    /\ phase # "idle" => payload[1].max >= CutoffAt(Latest)

(* Over the full retained span [get_min_time, get_max_time] the query      *)
(* merges every retained bucket, as long as no two updates share a time.   *)
FullSpanIsWhole ==
  phase = "idle" /\ Strictly /\ OneKind /\ payload # <<>> =>
    Query(payload[1].min, payload[Len(payload)].max).seen = Retained

(* A query whose ends lie in two different buckets is off by no more than  *)
(* those two: it has every update between them and none beyond.            *)
OffByItsEnds ==
  phase = "idle" /\ Strictly /\ OneKind =>
    \A i, j \in DOMAIN payload :
      i < j =>
        \A t1 \in payload[i].min..payload[i].max, t2 \in payload[j].min..payload[j].max :
          LET answer == Query(t1, t2).seen
          IN  /\ \A o \in Retained :
                   payload[i].max < log[o].time /\ log[o].time <= t2 => o \in answer
              /\ \A o \in answer :
                   payload[i].min <= log[o].time /\ log[o].time <= payload[j].max

(* What a query over retained time answers with, to the bucket.            *)
AnswersItsSpan == FullSpanIsWhole /\ OffByItsEnds

(* eh.rs, line 238: the query merges the buckets that overlap the          *)
(* interval; certainly, then, those that lie inside it, as long as no two  *)
(* updates share a time and no pair refuses to merge.                      *)
InsideIsAnswered ==
  phase = "idle" /\ Strictly /\ OneKind =>
    \A t1, t2 \in Times :
      LET inside == {i \in DOMAIN payload : t1 <= payload[i].min /\ payload[i].max <= t2}
      IN  UNION {payload[i].seen : i \in inside} \subseteq Query(t1, t2).seen
=============================================================================
