----------------------------- MODULE StreamSummary -----------------------------
(***************************************************************************)
(* The Stream-Summary of src/src/sketches/space_saving.rs: counters in     *)
(* doubly linked lists, one list to a bucket of equal counts, buckets in a *)
(* doubly linked list by count, both in arenas of positions, and an index  *)
(* from digests to counters.  It implements SpaceSaving.                   *)
(*                                                                         *)
(* A summary is a record and every private operation of the code an        *)
(* operator from summary to summary.  Positions count from 1 and Nil is 0. *)
(* Reload is a serialisation and the rebuild behind it.                    *)
(***************************************************************************)
EXTENDS Integers, Sequences, FiniteSets, SequencesExt

CONSTANTS
  Keys,       \* integers; their order stands for key_order
  Summaries,
  Capacity,
  Weights,
  MaxCount,
  MaxCalls,
  DigestOf    \* hash64_seeded(0, _); keys may collide

Nil == 0
Digests == {DigestOf[k] : k \in Keys}

ASSUME StreamAssumption ==
  /\ Keys \subseteq Int
  /\ DOMAIN DigestOf = Keys

VARIABLES
  summary,
  truth, merged, calls  \* history

vars == <<summary, truth, merged, calls>>

Saturated(n) == IF n > MaxCount THEN MaxCount ELSE n
SatAdd(a, b) == Saturated(a + b)
Larger(a, b) == IF a > b THEN a ELSE b

Empty ==
  [monitored |-> <<>>, buckets |-> <<>>, free |-> <<>>, head |-> Nil, tail |-> Nil,
   index |-> [d \in Digests |-> <<>>], total |-> 0, discardedMax |-> 0]

(***************************************************************************)
(* The lists.                                                              *)
(***************************************************************************)
CountOf(m, cid) == m.buckets[m.monitored[cid].bucket].count

\* Slip: a heavier arrival takes the next place, as a unit arrival may.
Gap_Neighbours(m, after, count) ==
  <<after, IF after = Nil THEN m.head ELSE m.buckets[after].next>>
\* Neighbours of a bucket for this count, looked for behind `after'.
Gap(m, after, count) ==
  LET walk[prev, next \in 0..Len(m.buckets)] ==
        IF next # Nil /\ m.buckets[next].count < count
        THEN walk[next, m.buckets[next].next]
        ELSE <<prev, next>>
  IN  walk[after, IF after = Nil THEN m.head ELSE m.buckets[after].next]

FreshBucket(m) == IF m.free # <<>> THEN Last(m.free) ELSE Len(m.buckets) + 1

SetNext(arena, i, n) ==
  [j \in DOMAIN arena |-> IF j = i THEN [arena[j] EXCEPT !.next = n] ELSE arena[j]]
SetPrev(arena, i, p) ==
  [j \in DOMAIN arena |-> IF j = i THEN [arena[j] EXCEPT !.prev = p] ELSE arena[j]]
SetHead(arena, i, c) ==
  [j \in DOMAIN arena |-> IF j = i THEN [arena[j] EXCEPT !.head = c] ELSE arena[j]]

InsertBucket(m, prev, next, count) ==
  LET bid == FreshBucket(m)
      new == [count |-> count, head |-> Nil, prev |-> prev, next |-> next]
      all == [b \in 1..Larger(bid, Len(m.buckets)) |-> IF b = bid THEN new ELSE m.buckets[b]]
  IN  [m EXCEPT
        !.buckets = SetPrev(SetNext(all, prev, bid), next, bid),
        !.free = IF @ # <<>> THEN Front(@) ELSE @,
        !.head = IF prev = Nil THEN bid ELSE @,
        !.tail = IF next = Nil THEN bid ELSE @]

\* The bucket of a count and the summary it is in.
BucketFor(m, after, count) ==
  LET gap == Gap(m, after, count)
  IN  IF gap[2] # Nil /\ m.buckets[gap[2]].count = count
      THEN [bid |-> gap[2], in |-> m]
      ELSE [bid |-> FreshBucket(m), in |-> InsertBucket(m, gap[1], gap[2], count)]

Attach(m, cid, bid) ==
  LET first  == m.buckets[bid].head
      placed == [c \in DOMAIN m.monitored |->
                   IF c = cid
                   THEN [m.monitored[c] EXCEPT !.prev = Nil, !.next = first, !.bucket = bid]
                   ELSE m.monitored[c]]
  IN  [m EXCEPT !.monitored = SetPrev(placed, first, cid),
                !.buckets = SetHead(@, bid, cid)]

\* Slip: the next bucket still points back at the dead one.
Bypassed_OneWay(buckets, bid) == SetNext(buckets, buckets[bid].prev, buckets[bid].next)
Bypassed(buckets, bid) ==
  SetPrev(SetNext(buckets, buckets[bid].prev, buckets[bid].next),
          buckets[bid].next, buckets[bid].prev)

Freed(free, bid) == Append(free, bid)

DropBucket(m, bid) ==
  [m EXCEPT
    !.buckets = SetHead(SetNext(SetPrev(Bypassed(@, bid), bid, Nil), bid, Nil), bid, Nil),
    !.head = IF m.buckets[bid].prev = Nil THEN m.buckets[bid].next ELSE @,
    !.free = Freed(@, bid)]

Detach(m, cid) ==
  LET gone     == m.monitored[cid]
      linked   == SetPrev(SetNext(m.monitored, gone.prev, gone.next), gone.next, gone.prev)
      unlinked == [m EXCEPT
        !.monitored = [c \in DOMAIN linked |->
           IF c = cid THEN [linked[c] EXCEPT !.prev = Nil, !.next = Nil, !.bucket = Nil]
           ELSE linked[c]],
        !.buckets = IF gone.prev = Nil THEN SetHead(@, gone.bucket, gone.next) ELSE @]
  IN  IF unlinked.buckets[gone.bucket].head = Nil
      THEN DropBucket(unlinked, gone.bucket) ELSE unlinked

RaiseCounter(m, cid, count) ==
  LET from   == m.monitored[cid].bucket
      upTo   == SatAdd(m.buckets[from].count, count)
      target == BucketFor(m, from, upTo)
  IN  IF upTo = m.buckets[from].count THEN m
      ELSE Attach(Detach(target.in, cid), cid, target.bid)

Indexed(index, key, cid) ==
  [d \in Digests |-> IF d = DigestOf[key] THEN Append(index[d], cid) ELSE index[d]]
\* Slip: the index still finds the counter under its old key.
Unindexed_Not(index, key, cid) == index
Unindexed(index, key, cid) ==
  [d \in Digests |-> IF d = DigestOf[key] THEN SelectSeq(index[d], LAMBDA c : c # cid)
                     ELSE index[d]]

SeatCounter(m, key, count, error) ==
  LET cid    == Len(m.monitored) + 1
      new    == [key |-> key, error |-> error, bucket |-> Nil, prev |-> Nil, next |-> Nil]
      target == BucketFor([m EXCEPT !.monitored = Append(@, new)], Nil, count)
      seated == Attach(target.in, cid, target.bid)
  IN  [seated EXCEPT !.index = Indexed(@, key, cid)]

\* The counter of a key, by its digest and then by comparing keys.
Lookup(m, key) ==
  LET found == SelectSeq(m.index[DigestOf[key]], LAMBDA c : m.monitored[c].key = key)
  IN  IF found = <<>> THEN Nil ELSE Head(found)

(***************************************************************************)
(* insert_many, min_count, top_k.                                          *)
(***************************************************************************)
MinCount(s) ==
  LET m == summary[s]
  IN  IF Len(m.monitored) = Capacity[s] /\ m.head # Nil
      THEN Larger(m.discardedMax, m.buckets[m.head].count)
      ELSE m.discardedMax

Displaced(m, key, count) ==
  LET victim == m.buckets[m.head].head
      lowest == m.buckets[m.head].count
      taken  == [m EXCEPT
        !.discardedMax = lowest,
        !.monitored = [c \in DOMAIN @ |->
           IF c = victim THEN [@[c] EXCEPT !.key = key, !.error = lowest] ELSE @[c]],
        !.index = Indexed(Unindexed(@, m.monitored[victim].key, victim), key, victim)]
  IN  RaiseCounter(taken, victim, count)

Inserted(m, capacity, key, count) ==
  LET counted == [m EXCEPT !.total = SatAdd(@, count)]
  IN  IF Lookup(m, key) # Nil THEN RaiseCounter(counted, Lookup(m, key), count)
      ELSE IF Len(m.monitored) < capacity
      THEN SeatCounter(counted, key, SatAdd(m.discardedMax, count), m.discardedMax)
      ELSE Displaced(counted, key, count)

\* top_k without its limit: from the high end, each list from its head.
Ranked(m) ==
  LET counters[c \in 0..Len(m.monitored)] ==
        IF c = Nil THEN <<>> ELSE <<c>> \o counters[m.monitored[c].next]
      down[b \in 0..Len(m.buckets)] ==
        IF b = Nil THEN <<>> ELSE counters[m.buckets[b].head] \o down[m.buckets[b].prev]
      order == down[m.tail]
  IN  [i \in DOMAIN order |->
         [key |-> m.monitored[order[i]].key, count |-> CountOf(m, order[i]),
          error |-> m.monitored[order[i]].error]]

(***************************************************************************)
(* merge, and the rebuild behind a deserialisation.                        *)
(***************************************************************************)
Entries(m) ==
  [i \in DOMAIN m.monitored |->
     [key |-> m.monitored[i].key, count |-> CountOf(m, i), error |-> m.monitored[i].error]]

\* Slip: what the other side may have dropped is not added.
OneSided_Bare(e, least) == e
OneSided(e, least) ==
  [e EXCEPT !.count = SatAdd(@, least), !.error = SatAdd(@, least)]

Flat(s, t) ==
  LET mine   == ToSet(Entries(summary[s]))
      theirs == ToSet(Entries(summary[t]))
      paired == {<<a, b>> \in mine \X theirs : a.key = b.key}
  IN  {[p[1] EXCEPT !.count = SatAdd(@, p[2].count), !.error = SatAdd(@, p[2].error)]
         : p \in paired}
      \cup {OneSided(a, MinCount(t)) : a \in {e \in mine : \A b \in theirs : b.key # e.key}}
      \cup {OneSided(b, MinCount(s)) : b \in {e \in theirs : \A a \in mine : a.key # e.key}}

ByCount(a, b) == a.count > b.count \/ (a.count = b.count /\ a.key < b.key)

Seated(base, entries) ==
  FoldLeft(LAMBDA m, e : SeatCounter(m, e.key, e.count, e.error), base, entries)

\* Slip: the largest count that is cut off does not raise the ceiling.
CeilingOf_UnionOnly(sum, flat, capacity) == sum
CeilingOf(sum, flat, capacity) ==
  IF Len(flat) > capacity THEN Larger(sum, flat[capacity + 1].count) ELSE sum

Absorbed(s, t) ==
  LET flat == SetToSortSeq(Flat(s, t), ByCount)
      kept == IF Len(flat) > Capacity[s] THEN SubSeq(flat, 1, Capacity[s]) ELSE flat
  IN  Seated([Empty EXCEPT
                !.total = SatAdd(summary[s].total, summary[t].total),
                !.discardedMax =
                   CeilingOf(SatAdd(MinCount(s), MinCount(t)), flat, Capacity[s])],
             kept)

\* rebuild takes the triples in descending count; equal counts stay in the
\* order they were written: that of the arena (serde) or of the keys (wire).
Rebuilt(m, wire) ==
  LET entry   == Entries(m)
      ordered == SortSeq([i \in DOMAIN entry |-> i],
                   LAMBDA i, j : \/ entry[i].count > entry[j].count
                                 \/ /\ entry[i].count = entry[j].count
                                    /\ IF wire THEN entry[i].key < entry[j].key ELSE i < j)
  IN  Seated([Empty EXCEPT !.total = m.total, !.discardedMax = m.discardedMax],
             [i \in DOMAIN ordered |-> entry[ordered[i]]])

Accepted(m, capacity) ==
  LET entries  == ToSet(Entries(m))
      recorded == FoldLeft(LAMBDA n, e : SatAdd(n, e.count - e.error), 0, Entries(m))
  IN  /\ Len(m.monitored) <= capacity
      /\ \A e \in entries : e.count # 0 /\ e.error <= e.count
      /\ Cardinality({e.key : e \in entries}) = Len(m.monitored)
      /\ IF entries = {} THEN m.discardedMax = 0
         ELSE \A e \in entries : m.discardedMax <= e.count
      /\ recorded <= m.total

(***************************************************************************)
(* The specification.                                                      *)
(***************************************************************************)
Nothing == [k \in Keys |-> 0]

Init ==
  /\ summary = [s \in Summaries |-> Empty]
  /\ truth = [s \in Summaries |-> Nothing]
  /\ merged = {}
  /\ calls = 0

Call == calls < MaxCalls /\ calls' = calls + 1

InsertMany(s, key, count) ==
  /\ Call
  /\ summary' = [summary EXCEPT ![s] = Inserted(@, Capacity[s], key, count)]
  /\ truth' = [truth EXCEPT ![s][key] = @ + count]
  /\ UNCHANGED merged

Merge(s, t) ==
  /\ s # t
  /\ Call
  /\ summary' = [summary EXCEPT ![s] = Absorbed(s, t)]
  /\ truth' = [truth EXCEPT ![s] = [k \in Keys |-> @[k] + truth[t][k]]]
  /\ merged' = merged \cup {s}

Clear(s) ==
  /\ Call
  /\ summary' = [summary EXCEPT ![s] = Empty]
  /\ truth' = [truth EXCEPT ![s] = Nothing]
  /\ merged' = merged \ {s}

Reload(s, wire) ==
  /\ Accepted(summary[s], Capacity[s])
  /\ summary' = [summary EXCEPT ![s] = Rebuilt(@, wire)]
  /\ UNCHANGED <<truth, merged, calls>>

Next ==
  \E s \in Summaries :
    \/ \E key \in Keys, count \in Weights : InsertMany(s, key, count)
    \/ \E t \in Summaries : Merge(s, t)
    \/ Clear(s)
    \/ \E wire \in BOOLEAN : Reload(s, wire)

Spec == Init /\ [][Next]_vars

(***************************************************************************)
(* Properties.                                                             *)
(***************************************************************************)
\* The live buckets from low to high.
Chain(m) ==
  LET up[b \in 0..Len(m.buckets)] ==
        IF b = Nil THEN <<>> ELSE <<b>> \o up[m.buckets[b].next]
  IN  up[m.head]

\* What seen from one end is the same from the other, for a list of
\* positions whose links are in the rows of an arena.
Doubly(list, arena) ==
  \A i \in DOMAIN list :
    /\ arena[list[i]].prev = IF i = 1 THEN Nil ELSE list[i - 1]
    /\ arena[list[i]].next = IF i = Len(list) THEN Nil ELSE list[i + 1]

Members(m, bid) ==
  LET list[c \in 0..Len(m.monitored)] ==
        IF c = Nil THEN <<>> ELSE <<c>> \o list[m.monitored[c].next]
  IN  list[m.buckets[bid].head]

(* The lists after every raise, eviction, seat, merge and reload: buckets  *)
(* strictly by count, none empty, both directions agreeing, and every      *)
(* counter in the list of its own bucket and in no other.                  *)
ListsLinked ==
  \A s \in Summaries :
    LET m == summary[s]
        chain == Chain(m)
    IN  /\ Doubly(chain, m.buckets)
        /\ m.tail = IF chain = <<>> THEN Nil ELSE Last(chain)
        /\ \A i \in 1..(Len(chain) - 1) :
             m.buckets[chain[i]].count < m.buckets[chain[i + 1]].count
        /\ \A b \in ToSet(chain) :
             /\ Members(m, b) # <<>>
             /\ Doubly(Members(m, b), m.monitored)
             /\ ToSet(Members(m, b)) = {c \in DOMAIN m.monitored : m.monitored[c].bucket = b}
        /\ \A c \in DOMAIN m.monitored : m.monitored[c].bucket \in ToSet(chain)

(* Every bucket of the arena is in the list or free, and the arena never   *)
(* grows beyond one more than the counters (a raise inserts the target     *)
(* before it empties the source).                                          *)
BucketsRecycled ==
  \A s \in Summaries :
    LET m == summary[s]
    IN  /\ ToSet(Chain(m)) \cap ToSet(m.free) = {}
        /\ ToSet(Chain(m)) \cup ToSet(m.free) = DOMAIN m.buckets
        /\ Cardinality(ToSet(m.free)) = Len(m.free)
        /\ Len(m.buckets) <= Capacity[s] + 1

(* Both lists are sound in every summary, and no bucket is lost or shared  *)
(* between the list and the free list, however long counters have moved.   *)
ArenasSound == ListsLinked /\ BucketsRecycled

(* The index finds each monitored key's counter and no other, also after   *)
(* an eviction has given the counter to a key of the same digest.          *)
IndexAgrees ==
  \A s \in Summaries, k \in Keys :
    LET m == summary[s]
        at == {c \in DOMAIN m.monitored : m.monitored[c].key = k}
    IN  /\ at = IF Lookup(m, k) = Nil THEN {} ELSE {Lookup(m, k)}
        /\ ToSet(m.index[DigestOf[k]])
             = {c \in DOMAIN m.monitored : DigestOf[m.monitored[c].key] = DigestOf[k]}

(* docs/api/api_space_saving.md: insert_many with a weight is the same as  *)
(* repeating insert that many times - down to the order of equal counts,   *)
(* which decides the next eviction.                                        *)
WeightIsRepetition ==
  \A s \in Summaries, k \in Keys :
    LET m == summary[s]
        twice == Inserted(Inserted(m, Capacity[s], k, 1), Capacity[s], k, 1)
        heavy == Inserted(m, Capacity[s], k, 2)
    IN  /\ Ranked(heavy) = Ranked(twice)
        /\ heavy.discardedMax = twice.discardedMax

(* rebuild rejects only what no run of the algorithm can have produced: it *)
(* takes back every summary that one did produce.                          *)
ReloadAccepts == \A s \in Summaries : Accepted(summary[s], Capacity[s])

(***************************************************************************)
(* Refinement.                                                             *)
(***************************************************************************)
KeysOf(s) == {summary[s].monitored[c].key : c \in DOMAIN summary[s].monitored}
PlaceOf(s, k) == CHOOSE c \in DOMAIN summary[s].monitored : summary[s].monitored[c].key = k

Promise == INSTANCE SpaceSaving WITH
  monitored    <- [s \in Summaries |-> KeysOf(s)],
  count        <- [s \in Summaries |-> [k \in Keys |->
                     IF k \in KeysOf(s) THEN CountOf(summary[s], PlaceOf(s, k)) ELSE 0]],
  error        <- [s \in Summaries |-> [k \in Keys |->
                     IF k \in KeysOf(s) THEN summary[s].monitored[PlaceOf(s, k)].error ELSE 0]],
  discardedMax <- [s \in Summaries |-> summary[s].discardedMax],
  total        <- [s \in Summaries |-> summary[s].total]

(* The linked lists answer as SpaceSaving does: each insert, merge and     *)
(* clear is one of its steps, a reload changes no answer.                  *)
KeepsPromise == Promise!Spec
=============================================================================
