--------------------------------- MODULE UnivTiers ---------------------------------
(***************************************************************************)
(* EHUnivOptimized of src/src/sketch_framework/eh_univ_optimized.rs: new   *)
(* updates go to exact frequency maps; the oldest map, when it has many    *)
(* keys, is promoted to a UnivMon sketch; both tiers merge neighbours that *)
(* are light beside what is newer.  UnivSketchPool (univmon_optimized.rs)  *)
(* lends the sketches and takes them back when two merge and when one      *)
(* expires.                                                                *)
(*                                                                         *)
(* A bucket is the set of updates it counts.  Of a UnivMon this module     *)
(* keeps the layer every key reaches, with one row of counters: the        *)
(* updates counted, the candidate keys of its heap and the flag that they  *)
(* are all the keys.  Which candidates a full heap keeps depends on        *)
(* estimates and on hash order: any of them.  The weight sum and the l22   *)
(* cached beside a sketch are never read by the code modelled here.        *)
(* Merge loops run one turn at a step; `&mut self' keeps other calls out.  *)
(* Masses are whole numbers, so MASS_EPSILON has nothing to absorb.        *)
(***************************************************************************)
EXTENDS Integers, Sequences, FiniteSets, FiniteSetsExt

CONSTANTS
  K,              \* merge parameter, after max(1)
  MaxMapSize,     \* keys a map may hold, twice over
  HeapSize,       \* candidates a sketch keeps
  PoolCap,        \* sketches allocated up front
  Keys,
  CellOf,         \* counter a key falls on
  SignOf,         \* sign it is counted with
  Inputs,         \* pairs of a key and a value an update may bring
  Windows,        \* window lengths the caller sets
  MaxTime,        \* bound: latest timestamp
  MaxGap,         \* bound: how far a timestamp is ahead of the latest one
  MaxLate,        \* bound: how far it is behind
  MaxUpdates,     \* bound: updates
  MaxResizes      \* bound: calls of update_window

Times == 0..MaxTime

ASSUME TiersAssumption ==
  /\ K \in Nat \ {0}
  /\ MaxMapSize \in Nat \ {0}
  /\ HeapSize \in Nat \ {0}
  /\ PoolCap \in Nat
  /\ Inputs \subseteq Keys \X Nat
  /\ Windows \subseteq Nat
  /\ MaxTime \in Nat
  /\ MaxGap \in Nat
  /\ MaxLate \in Nat
  /\ MaxUpdates \in Nat
  /\ MaxResizes \in Nat

ASSUME SignsAssumption == SignOf \in [Keys -> {-1, 1}]

VARIABLES
  um,             \* sketch tier, oldest first
  maps,           \* map tier, oldest first
  free,           \* free_list of the pool
  allocated,      \* total_allocated of the pool
  window,         \* current window length
  phase,          \* "idle", or the part of update that runs
  at,             \* i of the merge loop, counted from 1
  newer,          \* sum_l22
  log,            \* history: the updates, in order
  cutoff,         \* history: the largest expiry limit an update has used
  resizes         \* history: calls of update_window

pool    == <<free, allocated>>
loop    == <<phase, at, newer>>
history == <<log, cutoff, resizes>>
vars == <<um, maps, free, allocated, window, phase, at, newer, log, cutoff, resizes>>

(***************************************************************************)
(* Buckets and sketches.                                                   *)
(***************************************************************************)
Larger(a, b)  == IF a > b THEN a ELSE b
Smaller(a, b) == IF a < b THEN a ELSE b

CountIn(updates, seen, key) ==
  MapThenSumSet(LAMBDA o : updates[o].value, {o \in seen : updates[o].key = key})

KeysOf(updates, seen) == {updates[o].key : o \in seen}

MapMass(updates, seen) ==
  MapThenSumSet(LAMBDA key : CountIn(updates, seen, key) * CountIn(updates, seen, key),
                KeysOf(updates, seen))

(* get_l2 squared of layer 0: keys that share a counter add up there.      *)
SketchMass(seen) ==
  LET counter(cell) ==
        MapThenSumSet(LAMBDA key : SignOf[key] * CountIn(log, seen, key),
                      {key \in KeysOf(log, seen) : CellOf[key] = cell})
  IN  MapThenSumSet(LAMBDA cell : counter(cell) * counter(cell),
                    {CellOf[key] : key \in KeysOf(log, seen)})

Clean == [seen |-> {}, cand |-> {}, complete |-> TRUE]

SketchOf(bucket) ==
  [seen |-> bucket.seen, cand |-> bucket.cand, complete |-> bucket.complete]

(* UnivMon::free, before the pool takes a sketch back. *)
Freed_KeepsHeap(sketch) == [Clean EXCEPT !.cand = sketch.cand]
Freed(sketch) == Clean

(* The candidates a heap of HeapSize may keep of all it is offered. *)
Kept(keys) == {c \in SUBSET keys : Cardinality(c) = Smaller(HeapSize, Cardinality(keys))}

(* Inserting the keys of a map into a sketch, and merging two sketches.    *)
Filled(sketch, map, cand) ==
  [seen     |-> sketch.seen \cup map.seen,
   cand     |-> cand,
   complete |-> sketch.complete
                  /\ Cardinality(sketch.cand \cup KeysOf(log, map.seen)) <= HeapSize,
   min      |-> map.min,
   max      |-> map.max]

JoinedSketch_FlagsOnly(a, b, cand) ==
  [seen     |-> a.seen \cup b.seen,
   cand     |-> cand,
   complete |-> a.complete /\ b.complete,
   min      |-> Smaller(a.min, b.min),
   max      |-> Larger(a.max, b.max)]
JoinedSketch(a, b, cand) ==
  [seen     |-> a.seen \cup b.seen,
   cand     |-> cand,
   complete |-> a.complete /\ b.complete /\ Cardinality(a.cand \cup b.cand) <= HeapSize,
   min      |-> Smaller(a.min, b.min),
   max      |-> Larger(a.max, b.max)]

JoinedMap(a, b) ==
  [seen |-> a.seen \cup b.seen,
   l22  |-> MapMass(log, a.seen \cup b.seen),
   min  |-> Smaller(a.min, b.min),
   max  |-> Larger(a.max, b.max)]

(* Neighbours i and i + 1 of a tier, replaced by one bucket. *)
MergedPair(tier, bucket, i) ==
  SubSeq(tier, 1, i - 1) \o <<bucket>> \o SubSeq(tier, i + 2, Len(tier))

(***************************************************************************)
(* update: expiry, the new map, the map loop, promotion, the sketch loop.  *)
(***************************************************************************)
Init ==
  /\ um = <<>>
  /\ maps = <<>>
  /\ free = [i \in 1..PoolCap |-> Clean]
  /\ allocated = PoolCap
  /\ window \in Windows
  /\ phase = "idle" /\ at = 0 /\ newer = 0
  /\ log = <<>>
  /\ cutoff = 0
  /\ resizes = 0

Latest == IF log = <<>> THEN 0 ELSE Max({log[o].time : o \in DOMAIN log})

(* time.saturating_sub(window) *)
CutoffAt(time) == IF time < window THEN 0 ELSE time - window

(* take_while stops at the first bucket that is still in the window. *)
Alive_ByOldest(tier, time) == {i \in DOMAIN tier : tier[i].min >= CutoffAt(time)}
Alive(tier, time) == {i \in DOMAIN tier : tier[i].max >= CutoffAt(time)}

Survivors(tier, time) ==
  IF Alive(tier, time) = {} THEN <<>>
  ELSE SubSeq(tier, Min(Alive(tier, time)), Len(tier))

Update(time, key, value) ==
  LET entry == [time |-> time, key |-> key, value |-> value]
      new   == [seen |-> {Len(log) + 1}, l22 |-> value * value, min |-> time, max |-> time]
      gone  == Len(um) - Len(Survivors(um, time))
  IN  /\ phase = "idle"
      /\ Len(log) < MaxUpdates
      /\ time <= Latest + MaxGap
      /\ time + MaxLate >= Latest
      /\ um' = Survivors(um, time)
      /\ free' = free \o [i \in 1..gone |-> Freed(SketchOf(um[i]))]
      /\ maps' = Append(Survivors(maps, time), new)
      /\ log' = Append(log, entry)
      /\ cutoff' = Larger(cutoff, CutoffAt(time))
      /\ newer' = 0
      /\ IF Len(maps') >= 2 THEN phase' = "maps" /\ at' = Len(maps') - 1
                            ELSE phase' = "promote" /\ at' = 0
      /\ UNCHANGED <<allocated, window, resizes>>

UpdateWindow(w) ==
  /\ phase = "idle"
  /\ resizes < MaxResizes
  /\ window' = w
  /\ resizes' = resizes + 1
  /\ UNCHANGED <<um, maps, pool, loop, log, cutoff>>

Return == phase' = "idle" /\ at' = 0 /\ newer' = 0

(* pair_l22 <= sum_l22 / k *)
Light_Strictly(pair) == K * pair < newer
Light(pair) == K * pair <= newer

(* The index moves on to the next older pair, or the loop ends. *)
OlderPair == at' = at - 1 /\ UNCHANGED phase

MapPair == maps[at].l22 + maps[at + 1].l22

MergeMaps ==
  /\ phase = "maps"
  /\ Light(MapPair)
  /\ maps' = MergedPair(maps, JoinedMap(maps[at], maps[at + 1]), at)
  /\ IF at = 1 THEN phase' = "promote" /\ at' = 0 ELSE OlderPair
  /\ UNCHANGED <<um, pool, window, newer, history>>

KeepMaps ==
  /\ phase = "maps"
  /\ ~Light(MapPair)
  /\ newer' = newer + maps[at + 1].l22
  /\ IF at = 1 THEN phase' = "promote" /\ at' = 0 ELSE OlderPair
  /\ UNCHANGED <<um, maps, pool, window, history>>

TooManyKeys(map) == 2 * Cardinality(KeysOf(log, map.seen)) >= MaxMapSize

(* promote_oldest_map, and take of the pool. *)
Promote ==
  LET taken == IF free = <<>> THEN Clean ELSE free[Len(free)]
  IN  /\ phase = "promote"
      /\ TooManyKeys(maps[1])
      /\ maps' = Tail(maps)
      /\ IF free = <<>>
         THEN allocated' = allocated + 1 /\ UNCHANGED free
         ELSE free' = SubSeq(free, 1, Len(free) - 1) /\ UNCHANGED allocated
      /\ \E cand \in Kept(taken.cand \cup KeysOf(log, maps[1].seen)) :
           um' = Append(um, Filled(taken, maps[1], cand))
      /\ IF um = <<>> THEN Return
         ELSE phase' = "sketches" /\ at' = Len(um) /\ UNCHANGED newer
      /\ UNCHANGED <<window, history>>

KeepOldestMap ==
  /\ phase = "promote"
  /\ ~TooManyKeys(maps[1])
  /\ Return
  /\ UNCHANGED <<um, maps, pool, window, history>>

SketchPair == SketchMass(um[at].seen) + SketchMass(um[at + 1].seen)

MergeSketches ==
  /\ phase = "sketches"
  /\ Light(SketchPair)
  /\ \E cand \in Kept(um[at].cand \cup um[at + 1].cand) :
       um' = MergedPair(um, JoinedSketch(um[at], um[at + 1], cand), at)
  /\ free' = Append(free, Freed(SketchOf(um[at + 1])))
  /\ IF at = 1 THEN Return ELSE OlderPair /\ UNCHANGED newer
  /\ UNCHANGED <<maps, allocated, window, history>>

KeepSketches ==
  /\ phase = "sketches"
  /\ ~Light(SketchPair)
  /\ IF at = 1 THEN Return ELSE OlderPair /\ newer' = newer + SketchMass(um[at + 1].seen)
  /\ UNCHANGED <<um, maps, pool, window, history>>

Done ==
  /\ phase = "idle"
  /\ Len(log) = MaxUpdates
  /\ UNCHANGED vars

Next ==
  \/ \E time \in Times, input \in Inputs : Update(time, input[1], input[2])
  \/ \E w \in Windows : UpdateWindow(w)
  \/ MergeMaps \/ KeepMaps
  \/ Promote \/ KeepOldestMap
  \/ MergeSketches \/ KeepSketches
  \/ Done

Spec == Init /\ [][Next]_vars

(***************************************************************************)
(* query_interval: buckets are numbered through, the sketch tier first.    *)
(***************************************************************************)
Total == Len(um) + Len(maps)

Bucket(i) == IF i <= Len(um) THEN um[i] ELSE maps[i - Len(um)]

Holding(t, range) == {i \in range : Bucket(i).min <= t /\ t <= Bucket(i).max}

(* The first bucket of a tier that holds a time; the map tier overrides    *)
(* the sketch tier, and the oldest bucket is the answer when none does.    *)
Found_SketchesFirst(t) ==
  LET sketches == Holding(t, 1..Len(um))
      exact    == Holding(t, (Len(um) + 1)..Total)
  IN  IF sketches # {} THEN Min(sketches) ELSE IF exact # {} THEN Min(exact) ELSE 1
Found(t) ==
  LET sketches == Holding(t, 1..Len(um))
      exact    == Holding(t, (Len(um) + 1)..Total)
  IN  IF exact # {} THEN Min(exact) ELSE IF sketches # {} THEN Min(sketches) ELSE 1

Distance(a, b) == IF a > b THEN a - b ELSE b - a

NearerEnd(t, i) == Distance(t, Bucket(i).min) > Distance(t, Bucket(i).max)

FromBucket(t) ==
  LET found == IF t < Bucket(1).min THEN 1 ELSE Found(t)
  IN  IF NearerEnd(t, found) /\ found < Total THEN found + 1 ELSE found

ToBucket(t) ==
  IF maps # <<>> /\ t > maps[Len(maps)].max THEN Total ELSE Found(t)

(* The updates an answer counts, and whether it is an exact map. *)
Query_FirstSketchOnly(t1, t2) ==
  LET from == FromBucket(t1)
      upTo == Larger(from, ToBucket(t2))
      hybrid == from <= Len(um) /\ upTo > Len(um)
  IN  [exact |-> from > Len(um),
       seen  |-> UNION {Bucket(i).seen :
                          i \in IF hybrid THEN {from} \cup (Len(um) + 1)..upTo ELSE from..upTo}]
Query(t1, t2) ==
  LET from == FromBucket(t1)
      upTo == Larger(from, ToBucket(t2))
  IN  [exact |-> from > Len(um), seen |-> UNION {Bucket(i).seen : i \in from..upTo}]

(***************************************************************************)
(* Properties.                                                             *)
(***************************************************************************)
Phases  == {"idle", "maps", "promote", "sketches"}
Entries == [time : Times, key : Keys, value : Nat]

Held(tier) == UNION {tier[i].seen : i \in DOMAIN tier}

Apart(tier) ==
  \A i, j \in DOMAIN tier : i # j => tier[i].seen \cap tier[j].seen = {}

(* A bucket's time range holds the times of its updates. *)
Spans(tier, updates) ==
  \A i \in DOMAIN tier :
    /\ tier[i].min \in Times
    /\ tier[i].max \in Times
    /\ \A o \in tier[i].seen :
         /\ o \in DOMAIN updates
         /\ tier[i].min <= updates[o].time
         /\ updates[o].time <= tier[i].max

(* Both tiers are well formed at every turn of an update, and a loop       *)
(* stands at a pair that exists.                                           *)
TypeOK ==
  /\ Spans(um, log)
  /\ Spans(maps, log)
  /\ window \in Windows
  /\ phase \in Phases
  /\ phase = "maps" => at \in 1..(Len(maps) - 1)
  /\ phase = "promote" => Len(maps) >= 1
  /\ phase = "sketches" => at \in 1..(Len(um) - 1)
  /\ log \in Seq(Entries)
  /\ cutoff \in Nat
  /\ resizes \in Nat

(* Merging, promoting and expiring move whole buckets: no update is in two *)
(* of them, of one tier or of both, and one that is in none is older than  *)
(* a limit that was in force.                                              *)
EachInOneTier ==
  /\ Apart(um)
  /\ Apart(maps)
  /\ Held(um) \cap Held(maps) = {}
  /\ \A o \in DOMAIN log : o \in Held(um) \cup Held(maps) \/ log[o].time < cutoff

(* Every sketch the pool ever allocated is a bucket or on the free list    *)
(* (none is leaked by a merge, an expiry or a promotion), and what is on   *)
(* the free list is as good as new.                                        *)
SketchPoolAccounts ==
  /\ allocated = Len(um) + Len(free)
  /\ \A i \in DOMAIN free : free[i] = Clean

(* The inductive invariant of the proofs. *)
IInv == TypeOK /\ EachInOneTier /\ SketchPoolAccounts

(* A sketch that claims a complete candidate set has every key it counted, *)
(* whatever merges and recycling it went through; it never has another.    *)
CandidatesTell ==
  \A i \in DOMAIN um :
    /\ um[i].cand \subseteq KeysOf(log, um[i].seen)
    /\ um[i].complete => um[i].cand = KeysOf(log, um[i].seen)

(* Keys of opposite signs on one counter take mass off each other.         *)
NoCancelling ==
  \A key, other \in Keys : CellOf[key] = CellOf[other] => SignOf[key] = SignOf[other]

MassNewer(i) ==
  MapThenSumSet(LAMBDA j : SketchMass(um[j].seen), (i + 2)..Len(um))
    + MapThenSumSet(LAMBDA j : maps[j].l22, DOMAIN maps)

(* The size bound of both tiers: when an update returns, any two neighbour *)
(* maps weigh more than 1/k of the maps newer than they are, and, when it  *)
(* promoted one, any two neighbour sketches more than 1/k of all that is   *)
(* newer.  One pass over each tier is enough, and the sum the map loop     *)
(* hands on is that of the maps that remain.                               *)
MapsHeavy ==
  \A i \in 1..(Len(maps) - 1) :
    K * (MapMass(log, maps[i].seen) + MapMass(log, maps[i + 1].seen))
      > MapThenSumSet(LAMBDA j : MapMass(log, maps[j].seen), (i + 2)..Len(maps))

SketchesHeavy ==
  \A i \in 1..(Len(um) - 1) :
    K * (SketchMass(um[i].seen) + SketchMass(um[i + 1].seen)) > MassNewer(i)

TiersHeavy ==
  [][/\ phase # "idle" /\ phase' = "idle" => MapsHeavy'
     /\ phase = "sketches" /\ phase' = "idle" /\ NoCancelling => SketchesHeavy']_vars

InOrder == \A o, p \in DOMAIN log : o < p => log[o].time <= log[p].time

(* A query between two times that buckets hold answers with every bucket   *)
(* that lies strictly between them, of either tier, and, unless both times *)
(* fall in one bucket, with nothing of a bucket beyond them; an answer is  *)
(* exact only if no sketch takes part.                                     *)
InsideAnswered ==
  phase = "idle" /\ InOrder =>
    \A t1, t2 \in Times :
      LET held(t)   == Holding(t, 1..Total)
          inside    == {i \in 1..Total : t1 < Bucket(i).min /\ Bucket(i).max < t2}
          overlap   == {i \in 1..Total : t1 <= Bucket(i).max /\ Bucket(i).min <= t2}
          answer    == Query(t1, t2)
          seenIn(s) == UNION {Bucket(i).seen : i \in s}
      IN  held(t1) # {} /\ held(t2) # {} /\ t1 <= t2 =>
            /\ seenIn(inside) \subseteq answer.seen
            /\ held(t1) \cap held(t2) = {} =>
                 /\ answer.seen \subseteq seenIn(overlap)
                 /\ answer.exact => answer.seen \cap Held(um) = {}
=============================================================================
