---------------------------- MODULE HistogramProofs ----------------------------
(***************************************************************************)
(* For every merge rule, window and number of updates: no update of an     *)
(* ExponentialHistogram is lost but by expiry, none is in two buckets, and *)
(* no bucket mixes two kinds of sketches.  Then the layout of the buckets  *)
(* and the queries over it, the sizes that merge_volumes_l1 leaves, and    *)
(* the masses that merge_volumes_l2 leaves.                                *)
(***************************************************************************)
EXTENDS ExponentialHistogram, RowLemmas, FiniteSetTheorems, TLAPS

(***************************************************************************)
(* The invariant, split in what the buckets hold and the scalars.          *)
(***************************************************************************)
BucketsTyped ==
  \A i \in DOMAIN payload :
    /\ payload[i].seen \subseteq DOMAIN log
    /\ payload[i].kind \in Kinds
    /\ payload[i].size \in Nat
    /\ payload[i].min \in Times
    /\ payload[i].max \in Times

Scalars ==
  /\ norm \in Norms
  /\ window \in Windows
  /\ phase \in Phases
  /\ at \in Nat
  /\ same \in Nat
  /\ log \in Seq(Entries)
  /\ Len(log) <= MaxUpdates[norm]
  /\ cutoff \in Nat
  /\ resizes \in 0..MaxResizes[norm]

Core ==
  /\ Row(payload)
  /\ BucketsTyped
  /\ EachInOneBucket
  /\ KindsUnmixed
  /\ SpansHold

LEMMA CoreAndScalars == Row(payload) /\ IInv <=> Core /\ Scalars
BY DEF IInv, TypeOK, Core, Scalars, BucketsTyped

LEMMA LogTimes ==
  ASSUME Scalars
  PROVE  DOMAIN log = 1..Len(log) /\ Len(log) \in Nat /\ \A o \in DOMAIN log : log[o] \in Entries
<1>1. log \in Seq(Entries)
  BY DEF Scalars
<1> QED
  BY <1>1

(* Merging two neighbours of one kind: bucket i of the new row stands for  *)
(* buckets Lo(k, i) and Hi(k, i) of the old one, which are one bucket but  *)
(* for i = k.                                                              *)
Lo(k, i) == IF i <= k THEN i ELSE i + 1
Hi(k, i) == IF i < k THEN i ELSE i + 1

LEMMA MergedRow ==
  ASSUME Core, Scalars, NEW k \in 1..(Len(payload) - 1), ~Refuses(k), payload' = MergedAt(k)
  PROVE  /\ Row(payload')
         /\ Len(payload') = Len(payload) - 1
         /\ \A i \in 1..(Len(payload) - 1) :
              /\ Lo(k, i) \in 1..Len(payload)
              /\ Hi(k, i) \in 1..Len(payload)
              /\ payload'[i].seen = payload[Lo(k, i)].seen \cup payload[Hi(k, i)].seen
              /\ payload'[i].kind = payload[Lo(k, i)].kind
              /\ payload'[i].kind = payload[Hi(k, i)].kind
              /\ payload'[i].kind \in Kinds
              /\ payload'[i].size \in Nat
              /\ payload'[i].min \in Times
              /\ payload'[i].max \in Times
              /\ payload'[i].min <= payload[Lo(k, i)].min
              /\ payload'[i].min <= payload[Hi(k, i)].min
              /\ payload'[i].max >= payload[Lo(k, i)].max
              /\ payload'[i].max >= payload[Hi(k, i)].max
              /\ payload'[i].min \in {payload[Lo(k, i)].min, payload[Hi(k, i)].min}
              /\ payload'[i].max \in {payload[Lo(k, i)].max, payload[Hi(k, i)].max}
         /\ payload'[k].size = payload[k].size + payload[k + 1].size
         /\ payload'[k].mass = Mass(log, payload'[k].seen)
         /\ \A i \in 1..(k - 1) : payload'[i] = payload[i]
         /\ \A i \in (k + 1)..(Len(payload) - 1) : payload'[i] = payload[i + 1]
<1> DEFINE n == Len(payload)
           e == Joined(payload[k], payload[k + 1])
<1>0. Row(payload) /\ n \in Nat /\ DOMAIN payload = 1..n
  BY RowFacts DEF Core
<1>1. k \in 1..(n - 1) /\ k \in 1..n /\ k + 1 \in 1..n /\ ~(k + 1 > n)
  BY <1>0
<1>2. payload' = SubSeq(payload, 1, k - 1) \o <<e>> \o SubSeq(payload, k + 2, n)
  BY <1>1 DEF MergedAt, Rest
<1>3. /\ Row(payload')
      /\ Len(payload') = n - 1
      /\ \A i \in 1..(k - 1) : payload'[i] = payload[i]
      /\ payload'[k] = e
      /\ \A i \in (k + 1)..(n - 1) : payload'[i] = payload[i + 1]
  <2>1. PICK f : f = e
    OBVIOUS
  <2>2. PICK q : q = payload'
    OBVIOUS
  <2>3. PICK p : p = payload
    OBVIOUS
  <2> HIDE DEF e
  <2>4. q = Spliced(p, f, k)
    BY <1>2, <2>1, <2>2, <2>3 DEF Spliced
  <2>5. Row(p) /\ k \in 1..(Len(p) - 1)
    BY <1>0, <2>3
  <2>6. /\ Row(Spliced(p, f, k))
        /\ Len(Spliced(p, f, k)) = Len(p) - 1
        /\ \A i \in 1..(k - 1) : Spliced(p, f, k)[i] = p[i]
        /\ Spliced(p, f, k)[k] = f
        /\ \A i \in (k + 1)..(Len(p) - 1) : Spliced(p, f, k)[i] = p[i + 1]
    BY <2>5, SplicedRow
  <2> QED
    BY <2>1, <2>2, <2>3, <2>4, <2>6
<1>4. payload[k].kind = payload[k + 1].kind
  BY <1>1 DEF Refuses
<1>5. /\ payload[k].min \in Nat /\ payload[k].max \in Nat
      /\ payload[k + 1].min \in Nat /\ payload[k + 1].max \in Nat
      /\ payload[k].min \in Times /\ payload[k].max \in Times
      /\ payload[k + 1].min \in Times /\ payload[k + 1].max \in Times
      /\ payload[k].size \in Nat /\ payload[k + 1].size \in Nat
  BY <1>0, <1>1, HistogramAssumption DEF Core, BucketsTyped, Times
<1>6. /\ e.seen = payload[k].seen \cup payload[k + 1].seen
      /\ e.kind = payload[k].kind
      /\ e.size = payload[k].size + payload[k + 1].size /\ e.size \in Nat
      /\ e.mass = Mass(log, e.seen)
      /\ e.min \in Times /\ e.min <= payload[k].min /\ e.min <= payload[k + 1].min
      /\ e.min \in {payload[k].min, payload[k + 1].min}
      /\ e.max \in Times /\ e.max >= payload[k].max /\ e.max >= payload[k + 1].max
      /\ e.max \in {payload[k].max, payload[k + 1].max}
  BY <1>5, SMTT(60) DEF Joined, Smaller, Larger
<1> HIDE DEF e
<1>7. \A j \in 1..n : /\ payload[j].kind \in Kinds
                      /\ payload[j].size \in Nat
                      /\ payload[j].min \in Times
                      /\ payload[j].max \in Times
                      /\ payload[j].min \in Nat
                      /\ payload[j].max \in Nat
  BY <1>0, HistogramAssumption DEF Core, BucketsTyped, Times
<1>8. ASSUME NEW i \in 1..(n - 1)
      PROVE  /\ Lo(k, i) \in 1..n
             /\ Hi(k, i) \in 1..n
             /\ payload'[i].seen = payload[Lo(k, i)].seen \cup payload[Hi(k, i)].seen
             /\ payload'[i].kind = payload[Lo(k, i)].kind
             /\ payload'[i].kind = payload[Hi(k, i)].kind
             /\ payload'[i].kind \in Kinds
             /\ payload'[i].size \in Nat
             /\ payload'[i].min \in Times
             /\ payload'[i].max \in Times
             /\ payload'[i].min <= payload[Lo(k, i)].min
             /\ payload'[i].min <= payload[Hi(k, i)].min
             /\ payload'[i].max >= payload[Lo(k, i)].max
             /\ payload'[i].max >= payload[Hi(k, i)].max
             /\ payload'[i].min \in {payload[Lo(k, i)].min, payload[Hi(k, i)].min}
             /\ payload'[i].max \in {payload[Lo(k, i)].max, payload[Hi(k, i)].max}
  <2>1. CASE i < k
    <3>1. Lo(k, i) = i /\ Hi(k, i) = i /\ i \in 1..n /\ payload'[i] = payload[i]
      BY <1>0, <1>1, <1>3, <2>1 DEF Lo, Hi
    <3> QED
      BY <1>7, <3>1
  <2>2. CASE i = k
    <3>1. Lo(k, i) = k /\ Hi(k, i) = k + 1 /\ payload'[i] = e
      BY <1>1, <1>3, <2>2 DEF Lo, Hi
    <3> QED
      BY <1>1, <1>4, <1>6, <1>7, <3>1
  <2>3. CASE i > k
    <3>1. Lo(k, i) = i + 1 /\ Hi(k, i) = i + 1 /\ i + 1 \in 1..n /\ payload'[i] = payload[i + 1]
      BY <1>0, <1>1, <1>3, <2>3 DEF Lo, Hi
    <3> QED
      BY <1>7, <3>1
  <2> QED
    BY <1>0, <1>1, <2>1, <2>2, <2>3
<1> QED
  BY <1>3, <1>6, <1>8

(* Merging disturbs nothing of what the buckets hold.                      *)
LEMMA MergeKeepsCore ==
  ASSUME Core, Scalars, NEW k0 \in Nat \ {0}, ~Refuses(k0), payload' = MergedAt(k0),
         UNCHANGED log, UNCHANGED cutoff
  PROVE  Core'
<1>0. Row(payload) /\ Len(payload) \in Nat /\ DOMAIN payload = 1..Len(payload)
  BY RowFacts DEF Core
<1>1. CASE k0 + 1 > Len(payload)
  <2>1. UNCHANGED payload
    BY <1>1 DEF MergedAt
  <2> QED
    BY <2>1 DEF Core, Row, BucketsTyped, EachInOneBucket, Retained, KindsUnmixed, SpansHold
<1>2. CASE ~(k0 + 1 > Len(payload))
  <2>1. PICK k \in 1..(Len(payload) - 1) : k = k0
    BY <1>0, <1>2
  <2> DEFINE n == Len(payload)
             L(i) == Lo(k, i)
             H(i) == Hi(k, i)
  <2>2. ~Refuses(k) /\ payload' = MergedAt(k)
    BY <2>1
  <2>3. Row(payload') /\ Len(payload') = n - 1
    BY <2>2, MergedRow
  <2>4. DOMAIN payload' = 1..(n - 1)
    BY <2>3, RowFacts
  <2>5. ASSUME NEW i \in 1..(n - 1)
        PROVE  /\ L(i) \in 1..n /\ H(i) \in 1..n
               /\ payload'[i].seen = payload[L(i)].seen \cup payload[H(i)].seen
               /\ payload'[i].kind = payload[L(i)].kind
               /\ payload'[i].kind = payload[H(i)].kind
               /\ payload'[i].kind \in Kinds
               /\ payload'[i].size \in Nat
               /\ payload'[i].min \in Times
               /\ payload'[i].max \in Times
               /\ payload'[i].min <= payload[L(i)].min
               /\ payload'[i].min <= payload[H(i)].min
               /\ payload'[i].max >= payload[L(i)].max
               /\ payload'[i].max >= payload[H(i)].max
    BY <2>2, MergedRow
  <2>6. ASSUME NEW i \in 1..(n - 1), NEW j \in 1..(n - 1), i # j
        PROVE  L(i) # L(j) /\ L(i) # H(j) /\ H(i) # L(j) /\ H(i) # H(j)
    BY <1>0, <2>1, <2>6 DEF Lo, Hi
  <2>7. ASSUME NEW m \in 1..n
         PROVE  \E i \in 1..(n - 1) : L(i) = m \/ H(i) = m
    <3>1. CASE m <= k
      <4>1. m \in 1..(n - 1) /\ L(m) = m
        BY <1>0, <2>1, <3>1 DEF Lo, Hi
      <4> QED
        BY <4>1
    <3>2. CASE m > k
      <4>1. m - 1 \in 1..(n - 1) /\ H(m - 1) = m
        BY <1>0, <2>1, <3>2 DEF Lo, Hi
      <4> QED
        BY <4>1
    <3> QED
      BY <1>0, <2>1, <3>1, <3>2
  <2> HIDE DEF L, H
  <2>8. BucketsTyped'
    <3>1. \A m \in 1..n : payload[m].seen \subseteq DOMAIN log
      BY <1>0 DEF Core, BucketsTyped
    <3>2. \A i \in 1..(n - 1) : payload'[i].seen \subseteq DOMAIN log
      BY <2>5, <3>1
    <3> QED
      BY <2>4, <2>5, <3>2 DEF BucketsTyped
  <2>9. EachInOneBucket'
    <3>1. ASSUME NEW i \in 1..(n - 1), NEW j \in 1..(n - 1), i # j
          PROVE  payload'[i].seen \cap payload'[j].seen = {}
      <4>1. \A l, m \in 1..n : l # m => payload[l].seen \cap payload[m].seen = {}
        BY <1>0 DEF Core, EachInOneBucket
      <4>2. /\ payload[L(i)].seen \cap payload[L(j)].seen = {}
            /\ payload[L(i)].seen \cap payload[H(j)].seen = {}
            /\ payload[H(i)].seen \cap payload[L(j)].seen = {}
            /\ payload[H(i)].seen \cap payload[H(j)].seen = {}
        BY <2>5, <2>6, <3>1, <4>1
      <4> QED
        BY <2>5, <4>2
    <3>2. ASSUME NEW o \in Retained
          PROVE  o \in UNION {payload'[i].seen : i \in DOMAIN payload'}
      <4>1. PICK m \in 1..n : o \in payload[m].seen
        BY <1>0 DEF Retained
      <4>2. PICK i \in 1..(n - 1) : L(i) = m \/ H(i) = m
        BY <2>7
      <4>3. o \in payload'[i].seen
        BY <2>5, <4>1, <4>2
      <4> QED
        BY <2>4, <4>3
    <3>3. \A o \in DOMAIN log : o \in Retained \/ log[o].time < cutoff
      BY DEF Core, EachInOneBucket
    <3>4. \A o \in DOMAIN log' : o \in Retained' \/ log'[o].time < cutoff'
      BY <3>2, <3>3 DEF Retained
    <3> QED
      BY <2>4, <3>1, <3>4 DEF EachInOneBucket
  <2>10. KindsUnmixed'
    <3>1. \A m \in 1..n : \A o \in payload[m].seen : log[o].kind = payload[m].kind
      BY <1>0 DEF Core, KindsUnmixed
    <3>2. ASSUME NEW i \in 1..(n - 1), NEW o \in payload'[i].seen
          PROVE  log[o].kind = payload'[i].kind
      <4>1. CASE o \in payload[L(i)].seen
        BY <2>5, <3>1, <4>1
      <4>2. CASE o \in payload[H(i)].seen
        BY <2>5, <3>1, <4>2
      <4> QED
        BY <2>5, <4>1, <4>2
    <3> QED
      BY <2>4, <3>2 DEF KindsUnmixed
  <2>11. SpansHold'
    <3>1. ASSUME NEW m \in 1..n, NEW o \in payload[m].seen
          PROVE  /\ payload[m].min \in Nat /\ payload[m].max \in Nat /\ log[o].time \in Nat
                 /\ payload[m].min <= log[o].time /\ log[o].time <= payload[m].max
      <4>1. o \in DOMAIN log
        BY <1>0 DEF Core, BucketsTyped
      <4>2. log[o].time \in Nat
        BY <4>1, LogTimes, HistogramAssumption DEF Entries, Times
      <4> QED
        BY <1>0, <4>2, HistogramAssumption DEF Core, SpansHold, BucketsTyped, Times
    <3>2. ASSUME NEW i \in 1..(n - 1), NEW o \in payload'[i].seen
          PROVE  payload'[i].min <= log[o].time /\ log[o].time <= payload'[i].max
      <4>1. payload'[i].min \in Nat /\ payload'[i].max \in Nat
        BY <2>5, HistogramAssumption DEF Times
      <4>2. CASE o \in payload[L(i)].seen
        <5>1. PICK m \in 1..n : m = L(i)
          BY <2>5
        <5>2. payload'[i].min <= payload[m].min /\ payload'[i].max >= payload[m].max
          BY <2>5, <5>1
        <5>3. /\ payload[m].min \in Nat /\ payload[m].max \in Nat /\ log[o].time \in Nat
              /\ payload[m].min <= log[o].time /\ log[o].time <= payload[m].max
          BY <3>1, <4>2, <5>1
        <5> QED
          BY <4>1, <5>2, <5>3
      <4>3. CASE o \in payload[H(i)].seen
        <5>1. PICK m \in 1..n : m = H(i)
          BY <2>5
        <5>2. payload'[i].min <= payload[m].min /\ payload'[i].max >= payload[m].max
          BY <2>5, <5>1
        <5>3. /\ payload[m].min \in Nat /\ payload[m].max \in Nat /\ log[o].time \in Nat
              /\ payload[m].min <= log[o].time /\ log[o].time <= payload[m].max
          BY <3>1, <4>3, <5>1
        <5> QED
          BY <4>1, <5>2, <5>3
      <4> QED
        BY <2>5, <4>2, <4>3
    <3> QED
      BY <2>4, <3>2 DEF SpansHold
  <2>12. Row(payload)'
    BY <2>3 DEF Row
  <2> QED
    BY <2>8, <2>9, <2>10, <2>11, <2>12 DEF Core
<1> QED
  BY <1>1, <1>2
(***************************************************************************)
(* An update: what is left of the row, then the new bucket.                *)
(***************************************************************************)
LEMMA SurvivorsRow ==
  ASSUME Core, NEW time \in Times
  PROVE  /\ Row(Survivors(time))
         /\ \E d \in 1..(Len(payload) + 1) :
              /\ Len(Survivors(time)) = Len(payload) - d + 1
              /\ \A i \in 1..(Len(payload) - d + 1) : Survivors(time)[i] = payload[i + d - 1]
              /\ \A j \in 1..(d - 1) : Expired(payload[j], time)
              /\ d <= Len(payload) => ~Expired(payload[d], time)
<1>0. Row(payload) /\ Len(payload) \in Nat /\ DOMAIN payload = 1..Len(payload)
  BY RowFacts DEF Core
<1> DEFINE n == Len(payload)
<1>1. CASE Alive(time) = {}
  <2>1. Survivors(time) = <<>>
    BY <1>1 DEF Survivors
  <2>2. Row(Survivors(time)) /\ Len(Survivors(time)) = 0
    <3>1. <<>> \in Seq({})
      OBVIOUS
    <3> QED
      BY <2>1, <3>1 DEF Row
  <2>3. \A j \in 1..n : Expired(payload[j], time)
    BY <1>0, <1>1 DEF Alive
  <2>4. n + 1 \in 1..(n + 1) /\ n - (n + 1) + 1 = 0 /\ (n + 1) - 1 = n /\ ~ (n + 1 <= n)
    BY <1>0
  <2> QED
    BY <2>2, <2>3, <2>4
<1>2. CASE Alive(time) # {}
  <2>1. Alive(time) \in SUBSET Nat /\ Alive(time) \subseteq 1..n
    BY <1>0 DEF Alive
  <2>2. PICK d : d = Min(Alive(time))
    OBVIOUS
  <2>3. d \in Alive(time) /\ \A y \in Alive(time) : d <= y
    BY <1>2, <2>1, <2>2, MinOf
  <2>4. Survivors(time) = SubSeq(payload, d, n)
    BY <1>2, <2>2 DEF Survivors
  <2>5. d \in 1..n
    BY <2>1, <2>3
  <2>6. /\ Row(SubSeq(payload, d, n))
        /\ Len(SubSeq(payload, d, n)) = n - d + 1
        /\ \A i \in 1..(n - d + 1) : SubSeq(payload, d, n)[i] = payload[i + d - 1]
    BY <1>0, <2>5, SuffixRow
  <2>7. ASSUME NEW j \in 1..(d - 1)
        PROVE  Expired(payload[j], time)
    <3>1. j \in 1..n /\ ~ (d <= j)
      BY <1>0, <2>5
    <3>2. j \notin Alive(time)
      BY <2>3, <3>1
    <3> QED
      BY <1>0, <3>1, <3>2 DEF Alive
  <2>8. d \in 1..(n + 1) /\ ~Expired(payload[d], time)
    BY <1>0, <2>3, <2>5 DEF Alive
  <2> QED
    BY <2>4, <2>6, <2>7, <2>8
<1> QED
  BY <1>1, <1>2

(* The row an update leaves before any merge: what is left of the old one  *)
(* from bucket d on, and the bucket of the update.                         *)
UpdatedFrom(d, time, kind) ==
  /\ Row(payload')
  /\ Len(payload') = Len(payload) - d + 2
  /\ \A i \in 1..(Len(payload) - d + 1) : payload'[i] = payload[i + d - 1]
  /\ \A j \in 1..(d - 1) : Expired(payload[j], time)
  /\ d <= Len(payload) => ~Expired(payload[d], time)
  /\ payload'[Len(payload) - d + 2].seen = {Len(log) + 1}
  /\ payload'[Len(payload) - d + 2].kind = kind
  /\ payload'[Len(payload) - d + 2].size = 1
  /\ payload'[Len(payload) - d + 2].mass = Mass(log', {Len(log) + 1})
  /\ payload'[Len(payload) - d + 2].min = time
  /\ payload'[Len(payload) - d + 2].max = time

LEMMA UpdatedRow ==
  ASSUME Core, Scalars,
         NEW time \in Times, NEW key \in Keys, NEW weight \in Weights, NEW kind \in Kinds,
         UpdateWith(time, key, weight, kind)
  PROVE  \E d \in 1..(Len(payload) + 1) : UpdatedFrom(d, time, kind)
<1> DEFINE n     == Len(payload)
           entry == [time |-> time, key |-> key, weight |-> weight, kind |-> kind]
           new   == [seen |-> {Len(log) + 1}, kind |-> kind, size |-> 1,
                     mass |-> Mass(Append(log, entry), {Len(log) + 1}),
                     min  |-> time, max |-> time]
<1>1. payload' = Append(Survivors(time), new) /\ log' = Append(log, entry)
  BY DEF UpdateWith
<1>2. /\ new.seen = {Len(log) + 1} /\ new.kind = kind /\ new.size = 1
      /\ new.mass = Mass(log', {Len(log) + 1})
      /\ new.min = time /\ new.max = time
  BY <1>1
<1> HIDE DEF entry, new
<1>3. /\ Row(Survivors(time))
      /\ \E d \in 1..(n + 1) :
           /\ Len(Survivors(time)) = n - d + 1
           /\ \A i \in 1..(n - d + 1) : Survivors(time)[i] = payload[i + d - 1]
           /\ \A j \in 1..(d - 1) : Expired(payload[j], time)
           /\ d <= n => ~Expired(payload[d], time)
  BY SurvivorsRow
<1>4. PICK s : s = Survivors(time)
  OBVIOUS
<1>5. PICK d \in 1..(n + 1) :
        /\ Len(s) = n - d + 1
        /\ \A i \in 1..(n - d + 1) : s[i] = payload[i + d - 1]
        /\ \A j \in 1..(d - 1) : Expired(payload[j], time)
        /\ d <= n => ~Expired(payload[d], time)
  BY <1>3, <1>4
<1>6. /\ Row(Append(s, new))
      /\ Len(Append(s, new)) = Len(s) + 1
      /\ \A i \in 1..Len(s) : Append(s, new)[i] = s[i]
      /\ Append(s, new)[Len(s) + 1] = new
  BY <1>3, <1>4, AppendRow
<1>7. n \in Nat /\ (n - d + 1) + 1 = n - d + 2
  BY RowFacts DEF Core
<1>8. /\ Row(payload')
      /\ Len(payload') = n - d + 2
      /\ \A i \in 1..(n - d + 1) : payload'[i] = payload[i + d - 1]
      /\ payload'[n - d + 2] = new
  BY <1>1, <1>4, <1>5, <1>6, <1>7
<1> QED
  BY <1>2, <1>5, <1>8 DEF UpdatedFrom

LEMMA UpdateKeepsCore ==
  ASSUME Core, Scalars,
         NEW time \in Times, NEW key \in Keys, NEW weight \in Weights, NEW kind \in Kinds,
         UpdateWith(time, key, weight, kind)
  PROVE  Core'
<1> DEFINE n     == Len(payload)
           entry == [time |-> time, key |-> key, weight |-> weight, kind |-> kind]
<1>0. Row(payload) /\ n \in Nat /\ DOMAIN payload = 1..n
  BY RowFacts DEF Core
<1>1. /\ log' = Append(log, entry)
      /\ cutoff' = Larger(cutoff, CutoffAt(time))
  BY DEF UpdateWith
<1>2. entry \in Entries /\ entry.time = time /\ entry.kind = kind
  BY DEF Entries
<1> HIDE DEF entry
<1>3. PICK d \in 1..(n + 1) : UpdatedFrom(d, time, kind)
  BY UpdatedRow
<1>4. /\ d \in 1..(n + 1)
      /\ \A j \in 1..(d - 1) : Expired(payload[j], time)
  BY <1>3 DEF UpdatedFrom
<1> DEFINE m   == n - d + 1
           new == payload'[m + 1]
<1>5. /\ new.seen = {Len(log) + 1} /\ new.kind = kind /\ new.size = 1
      /\ new.min = time /\ new.max = time
  <2>1. m + 1 = n - d + 2
    BY <1>0
  <2> QED
    BY <1>3, <2>1 DEF UpdatedFrom
<1>6. /\ Row(payload')
      /\ Len(payload') = m + 1
      /\ \A i \in 1..m : payload'[i] = payload[i + d - 1]
      /\ payload'[m + 1] = new
  BY <1>0, <1>3 DEF UpdatedFrom
<1> HIDE DEF new
<1>7. m \in Nat /\ DOMAIN payload' = 1..(m + 1)
  BY <1>0, <1>4, <1>6, RowFacts
<1>8. \A i \in 1..m : i + d - 1 \in 1..n
  BY <1>0, <1>4
<1>9. /\ DOMAIN log = 1..Len(log) /\ Len(log) \in Nat
      /\ log' \in Seq(Entries)
      /\ DOMAIN log' = 1..(Len(log) + 1)
      /\ \A o \in 1..Len(log) : log'[o] = log[o]
      /\ log'[Len(log) + 1] = entry
  <2>1. log \in Seq(Entries)
    BY DEF Scalars
  <2> QED
    BY <1>1, <1>2, <2>1
<1>10. cutoff' \in Nat /\ cutoff' >= cutoff /\ cutoff' >= CutoffAt(time) /\ cutoff \in Nat
       /\ CutoffAt(time) \in Nat
  <2>1. cutoff \in Nat /\ window \in Nat /\ time \in Nat
    BY HistogramAssumption DEF Scalars, Times
  <2>2. CutoffAt(time) \in Nat
    BY <2>1 DEF CutoffAt
  <2> QED
    BY <1>1, <2>1, <2>2 DEF Larger
<1>11. \A j \in 1..n : /\ payload[j].seen \subseteq 1..Len(log)
                       /\ payload[j].kind \in Kinds
                       /\ payload[j].size \in Nat
                       /\ payload[j].min \in Times
                       /\ payload[j].max \in Times
  BY <1>0, <1>9 DEF Core, BucketsTyped
<1>12. \A i \in 1..(m + 1) : i \in 1..m \/ i = m + 1
  BY <1>7
<1> HIDE DEF m
<1>13. BucketsTyped'
  <2>1. ASSUME NEW i \in 1..m
        PROVE  /\ payload'[i].seen \subseteq DOMAIN log'
               /\ payload'[i].kind \in Kinds
               /\ payload'[i].size \in Nat
               /\ payload'[i].min \in Times
               /\ payload'[i].max \in Times
    <3>1. PICK j \in 1..n : j = i + d - 1
      BY <1>8
    <3>2. payload'[i] = payload[j]
      BY <1>6, <3>1
    <3>3. 1..Len(log) \subseteq DOMAIN log'
      BY <1>9
    <3> QED
      BY <1>11, <3>2, <3>3
  <2>2. /\ new.seen \subseteq DOMAIN log'
        /\ new.kind \in Kinds
        /\ new.size \in Nat
        /\ new.min \in Times
        /\ new.max \in Times
    BY <1>5, <1>9
  <2> QED
    BY <1>6, <1>7, <1>12, <2>1, <2>2 DEF BucketsTyped
<1>14. EachInOneBucket'
  <2>1. \A l, j \in 1..n : l # j => payload[l].seen \cap payload[j].seen = {}
    BY <1>0 DEF Core, EachInOneBucket
  <2>2. ASSUME NEW i \in 1..m, NEW j \in 1..m, i # j
        PROVE  payload'[i].seen \cap payload'[j].seen = {}
    <3>1. i + d - 1 # j + d - 1
      BY <1>4, <1>7, <2>2
    <3> QED
      BY <1>6, <1>8, <2>1, <3>1
  <2>3. ASSUME NEW i \in 1..m
        PROVE  payload'[i].seen \cap payload'[m + 1].seen = {}
    <3>1. payload'[i].seen \subseteq 1..Len(log)
      BY <1>6, <1>8, <1>11
    <3>2. Len(log) + 1 \notin 1..Len(log)
      BY <1>9
    <3>3. payload'[m + 1].seen = {Len(log) + 1}
      BY <1>5, <1>6
    <3> QED
      BY <3>1, <3>2, <3>3
  <2>4. \A i, j \in 1..(m + 1) : i # j => payload'[i].seen \cap payload'[j].seen = {}
    BY <1>12, <2>2, <2>3
  <2>5. ASSUME NEW o \in 1..Len(log)
        PROVE  (\E i \in 1..(m + 1) : o \in payload'[i].seen) \/ log'[o].time < cutoff'
    <3>1. log'[o].time = log[o].time /\ log[o].time \in Nat
      <4>1. log[o] \in Entries /\ log'[o] = log[o]
        BY <1>9, LogTimes
      <4> QED
        BY <4>1, HistogramAssumption DEF Entries, Times
    <3>2. CASE log[o].time < cutoff
      BY <1>10, <3>1, <3>2
    <3>3. CASE ~ (log[o].time < cutoff)
      <4>1. o \in Retained
        BY <1>9, <3>3 DEF Core, EachInOneBucket
      <4>2. PICK j \in 1..n : o \in payload[j].seen
        BY <1>0, <4>1 DEF Retained
      <4>3. CASE j < d
        <5>1. j \in 1..(d - 1)
          BY <1>0, <1>4, <4>3
        <5>2. payload[j].max < CutoffAt(time)
          BY <1>4, <5>1 DEF Expired
        <5>3. log[o].time <= payload[j].max
          BY <1>0, <4>2 DEF Core, SpansHold
        <5>4. payload[j].max \in Nat
          BY <1>11, HistogramAssumption DEF Times
        <5> QED
          BY <1>10, <3>1, <5>2, <5>3, <5>4
      <4>4. CASE ~ (j < d)
        <5>1. j - d + 1 \in 1..m /\ (j - d + 1) + d - 1 = j
          BY <1>0, <1>4, <4>4 DEF m
        <5>2. PICK i \in 1..m : i + d - 1 = j
          BY <5>1
        <5>3. payload'[i] = payload[i + d - 1]
          BY <1>6, <5>2
        <5>4. o \in payload'[i].seen /\ i \in 1..(m + 1)
          BY <1>7, <4>2, <5>2, <5>3
        <5> QED
          BY <5>4
      <4> QED
        BY <4>3, <4>4
    <3> QED
      BY <3>2, <3>3
  <2>6. Len(log) + 1 \in payload'[m + 1].seen /\ m + 1 \in 1..(m + 1)
    BY <1>5, <1>6, <1>7
  <2>7. \A o \in 1..(Len(log) + 1) : o \in 1..Len(log) \/ o = Len(log) + 1
    BY <1>9
  <2>8. \A o \in DOMAIN log' :
          (\E i \in 1..(m + 1) : o \in payload'[i].seen) \/ log'[o].time < cutoff'
    BY <1>9, <2>5, <2>6, <2>7
  <2>9. \A o \in DOMAIN log' : o \in Retained' \/ log'[o].time < cutoff'
    BY <1>7, <2>8 DEF Retained
  <2> QED
    BY <1>7, <2>4, <2>9 DEF EachInOneBucket
<1>15. KindsUnmixed' /\ SpansHold'
  <2>1. ASSUME NEW i \in 1..m, NEW o \in payload'[i].seen
        PROVE  /\ log'[o].kind = payload'[i].kind
               /\ payload'[i].min <= log'[o].time /\ log'[o].time <= payload'[i].max
    <3>1. PICK j \in 1..n : j = i + d - 1
      BY <1>8
    <3>2. payload'[i] = payload[j] /\ o \in payload[j].seen
      BY <1>6, <2>1, <3>1
    <3>3. log'[o] = log[o]
      BY <1>9, <1>11, <3>2
    <3>4. /\ log[o].kind = payload[j].kind
          /\ payload[j].min <= log[o].time /\ log[o].time <= payload[j].max
      BY <1>0, <3>2 DEF Core, KindsUnmixed, SpansHold
    <3> QED
      BY <3>2, <3>3, <3>4
  <2>2. ASSUME NEW o \in payload'[m + 1].seen
        PROVE  /\ log'[o].kind = payload'[m + 1].kind
               /\ payload'[m + 1].min <= log'[o].time /\ log'[o].time <= payload'[m + 1].max
    <3>1. o = Len(log) + 1 /\ log'[o] = entry
      BY <1>5, <1>6, <1>9, <2>2
    <3>2. time \in Nat
      BY HistogramAssumption DEF Times
    <3> QED
      BY <1>5, <1>2, <1>6, <3>1, <3>2
  <2>3. \A i \in 1..(m + 1) : \A o \in payload'[i].seen :
          /\ log'[o].kind = payload'[i].kind
          /\ payload'[i].min <= log'[o].time /\ log'[o].time <= payload'[i].max
    BY <1>12, <2>1, <2>2
  <2> QED
    BY <1>7, <2>3 DEF KindsUnmixed, SpansHold
<1>16. Row(payload)'
  BY <1>6 DEF Row
<1> QED
  BY <1>13, <1>14, <1>15, <1>16 DEF Core

(***************************************************************************)
(* The other steps.                                                        *)
(***************************************************************************)
LEMMA InitCore ==
  ASSUME Init
  PROVE  Core /\ Scalars
<1>1. Row(payload) /\ DOMAIN payload = {}
  <2>1. <<>> \in Seq({}) /\ DOMAIN <<>> = {}
    OBVIOUS
  <2> QED
    BY <2>1 DEF Init, Row
<1>2. DOMAIN log = {} /\ log \in Seq(Entries) /\ Len(log) = 0
  BY DEF Init
<1>3. Core
  BY <1>1, <1>2 DEF Core, BucketsTyped, EachInOneBucket, KindsUnmixed, SpansHold
<1>4. Scalars
  BY <1>2, HistogramAssumption DEF Init, Scalars, Phases
<1> QED
  BY <1>3, <1>4

LEMMA SameCore ==
  ASSUME Core, UNCHANGED payload, UNCHANGED log, UNCHANGED cutoff
  PROVE  Core'
BY DEF Core, Row, BucketsTyped, EachInOneBucket, Retained, KindsUnmixed, SpansHold

LEMMA SameScalars ==
  ASSUME Scalars, UNCHANGED norm, UNCHANGED window, UNCHANGED log, UNCHANGED cutoff, UNCHANGED resizes,
         phase' \in Phases, at' \in Nat, same' \in Nat
  PROVE  Scalars'
BY DEF Scalars

LEMMA UpdateKeepsScalars ==
  ASSUME Core, Scalars,
         NEW time \in Times, NEW key \in Keys, NEW weight \in Weights, NEW kind \in Kinds,
         UpdateWith(time, key, weight, kind)
  PROVE  Scalars'
<1> DEFINE entry == [time |-> time, key |-> key, weight |-> weight, kind |-> kind]
           new   == [seen |-> {Len(log) + 1}, kind |-> kind, size |-> 1,
                     mass |-> Mass(Append(log, entry), {Len(log) + 1}),
                     min  |-> time, max |-> time]
<1>1. entry \in Entries
  BY DEF Entries
<1>2. /\ payload' = Append(Survivors(time), new)
      /\ log' = Append(log, entry)
      /\ Len(log) < MaxUpdates[norm]
      /\ cutoff' = Larger(cutoff, CutoffAt(time))
      /\ UNCHANGED norm /\ UNCHANGED window /\ UNCHANGED resizes
  BY DEF UpdateWith
<1>3. \/ phase' = "l2" /\ at' = at /\ same' = same
      \/ phase' = phase /\ at' = at /\ same' = same
      \/ /\ phase' = "l1" /\ same' = 1
         /\ at' = Len(Append(Survivors(time), new)) - 1
         /\ ~ (Len(Append(Survivors(time), new)) < 2)
  BY DEF UpdateWith, loopVars
<1> HIDE DEF entry, new
<1>4. Len(Append(Survivors(time), new)) \in Nat
  <2>1. PICK s : s = Survivors(time)
    OBVIOUS
  <2>2. Row(Append(s, new))
    BY <2>1, SurvivorsRow, AppendRow
  <2> QED
    BY <2>1, <2>2, RowFacts
<1>5. log \in Seq(Entries) /\ cutoff \in Nat /\ window \in Nat /\ time \in Nat
      /\ phase \in Phases /\ at \in Nat /\ same \in Nat
  BY HistogramAssumption DEF Scalars, Times
<1>6. log' \in Seq(Entries) /\ Len(log') <= MaxUpdates[norm']
  <2>1. MaxUpdates[norm] \in Nat
    BY HistogramAssumption DEF Scalars
  <2> QED
    BY <1>1, <1>2, <1>5, <2>1
<1>7. cutoff' \in Nat
  BY <1>2, <1>5 DEF Larger, CutoffAt
<1>8. phase' \in Phases /\ same' \in Nat
  BY <1>3, <1>5 DEF Phases
<1>9. at' \in Nat
  <2>1. CASE at' = at
    BY <1>5, <2>1
  <2>2. PICK l : l = Len(Append(Survivors(time), new))
    OBVIOUS
  <2>3. CASE at' = l - 1 /\ ~ (l < 2)
    BY <1>4, <2>2, <2>3
  <2> QED
    BY <1>3, <2>1, <2>2, <2>3
<1> QED
  BY <1>2, <1>6, <1>7, <1>8, <1>9 DEF Scalars

(* merge_volumes_l1 counts down from an index to its oldest neighbour.     *)
Counting == phase = "l1" => at # 0

LEMMA UpdateCounts ==
  ASSUME Core, Counting,
         NEW time \in Times, NEW key \in Keys, NEW weight \in Weights, NEW kind \in Kinds,
         UpdateWith(time, key, weight, kind)
  PROVE  Counting'
<1> DEFINE entry == [time |-> time, key |-> key, weight |-> weight, kind |-> kind]
           new   == [seen |-> {Len(log) + 1}, kind |-> kind, size |-> 1,
                     mass |-> Mass(Append(log, entry), {Len(log) + 1}),
                     min  |-> time, max |-> time]
<1>1. \/ phase' = "l2"
      \/ phase' = phase /\ phase = "idle"
      \/ /\ at' = Len(Append(Survivors(time), new)) - 1
         /\ ~ (Len(Append(Survivors(time), new)) < 2)
  BY DEF UpdateWith, loopVars
<1> HIDE DEF entry, new
<1>2. PICK s : s = Survivors(time)
  OBVIOUS
<1>3. Row(Append(s, new))
  BY <1>2, SurvivorsRow, AppendRow
<1>4. PICK l : l = Len(Append(s, new))
  OBVIOUS
<1>5. l \in Nat
  BY <1>3, <1>4, RowFacts
<1>6. ASSUME phase' = "l1"
      PROVE  at' # 0
  BY <1>1, <1>2, <1>4, <1>5, <1>6
<1> QED
  BY <1>6 DEF Counting

Inv == Core /\ Scalars /\ Counting

(* What an update and a merge by mass are called with.                     *)
LEMMA UpdateFacts ==
  ASSUME Inv, Update
  PROVE  \E time \in Times, key \in Keys, weight \in Weights, kind \in Kinds :
           UpdateWith(time, key, weight, kind)
<1>1. PICK u \in InputsOf[norm] : UpdateWith(u.time, u.key, u.weight, u.kind)
  BY DEF Update
<1>2. u \in Entries
  BY HistogramAssumption DEF Inv, Scalars
<1>3. u.time \in Times /\ u.key \in Keys /\ u.weight \in Weights /\ u.kind \in Kinds
  BY <1>2 DEF Entries
<1> QED
  BY <1>1, <1>3

LEMMA CandidateFacts ==
  ASSUME Inv, Candidates # {}
  PROVE  Max(Candidates) \in Candidates /\ Max(Candidates) \in Nat \ {0}
<1>1. Len(payload) \in Nat
  BY RowFacts DEF Inv, Core
<1>2. Candidates \subseteq 1..Len(payload)
  BY <1>1 DEF Candidates
<1>3. PICK n \in Nat : n = Len(payload)
  BY <1>1
<1>4. Max(Candidates) \in Candidates
  BY <1>2, <1>3, MaxOf
<1>5. PICK c \in 1..n : c = Max(Candidates)
  BY <1>2, <1>3, <1>4
<1> QED
  BY <1>4, <1>5

LEMMA UpdateStep ==
  ASSUME Inv, Update
  PROVE  Inv'
<1>1. PICK time \in Times, key \in Keys, weight \in Weights, kind \in Kinds :
        UpdateWith(time, key, weight, kind)
  BY UpdateFacts
<1>2. Core'
  BY <1>1, UpdateKeepsCore DEF Inv
<1>3. Scalars'
  BY <1>1, UpdateKeepsScalars DEF Inv
<1>4. Counting'
  BY <1>1, UpdateCounts DEF Inv
<1> QED
  BY <1>2, <1>3, <1>4 DEF Inv

(* A turn of the L1 loop that may merge the two oldest buckets of a run.   *)
LEMMA LoopScalars ==
  ASSUME Inv, phase = "l1", NextOlder, same' \in Nat, UNCHANGED norm, UNCHANGED window, UNCHANGED log,
         UNCHANGED cutoff, UNCHANGED resizes
  PROVE  Scalars' /\ Counting'
<1>1. at \in Nat /\ at # 0
  BY DEF Inv, Scalars, Counting
<1>2. at' \in Nat /\ phase' \in Phases /\ Counting'
  <2>1. CASE at = 1
    BY <2>1 DEF NextOlder, Phases, Counting
  <2>2. CASE at # 1
    BY <1>1, <2>2 DEF NextOlder, Phases, Counting
  <2> QED
    BY <2>1, <2>2
<1>3. Scalars'
  BY <1>2, SameScalars DEF Inv
<1> QED
  BY <1>2, <1>3

LEMMA ReturnScalars ==
  ASSUME Inv, Return, UNCHANGED norm, UNCHANGED window, UNCHANGED log, UNCHANGED cutoff, UNCHANGED resizes
  PROVE  Scalars' /\ Counting'
<1>1. phase' \in Phases /\ at' \in Nat /\ same' \in Nat /\ phase' # "l1"
  BY DEF Return, Phases
<1>2. Scalars'
  BY <1>1, SameScalars DEF Inv
<1> QED
  BY <1>1, <1>2 DEF Counting

(* One step per action.                                                    *)
LEMMA StepKeepsInv ==
  ASSUME Inv, [Next]_vars
  PROVE  Inv'
<1>0. /\ Core /\ Scalars /\ Counting
      /\ at \in Nat /\ same \in Nat /\ phase \in Phases
  BY DEF Inv, Scalars
<1>1. CASE Update
  BY <1>1, UpdateStep
<1>2. CASE \E w \in Windows : UpdateWindow(w)
  <2>1. PICK w \in Windows : UpdateWindow(w)
    BY <1>2
  <2>2. Core'
    BY <1>0, <2>1, SameCore DEF UpdateWindow
  <2>3. Scalars'
    BY <1>0, <2>1, HistogramAssumption DEF UpdateWindow, loopVars, Scalars
  <2>4. Counting'
    BY <1>0, <2>1 DEF UpdateWindow, loopVars, Counting
  <2> QED
    BY <2>2, <2>3, <2>4 DEF Inv
<1>3. CASE CountSame
  <2>1. /\ phase = "l1" /\ NextOlder /\ same' = same + 1
        /\ UNCHANGED payload /\ UNCHANGED norm /\ UNCHANGED window
        /\ UNCHANGED log /\ UNCHANGED cutoff /\ UNCHANGED resizes
    BY <1>3 DEF CountSame, history
  <2>2. Core'
    BY <1>0, <2>1, SameCore
  <2>3. same' \in Nat
    BY <1>0, <2>1
  <2>4. Scalars' /\ Counting'
    BY <2>1, <2>3, LoopScalars
  <2> QED
    BY <2>2, <2>4 DEF Inv
<1>4. CASE EndRun
  <2>1. /\ phase = "l1" /\ NextOlder /\ same' \in {1, 2}
        /\ UNCHANGED norm /\ UNCHANGED window /\ UNCHANGED log /\ UNCHANGED cutoff /\ UNCHANGED resizes
    BY <1>4 DEF EndRun, history
  <2>2. \/ payload' = payload
        \/ ~ Refuses(at + 1) /\ payload' = MergedAt(at + 1)
    BY <1>4 DEF EndRun
  <2>3. at + 1 \in Nat \ {0}
    BY <1>0
  <2>4. Core'
    <3>1. CASE payload' = payload
      BY <1>0, <2>1, <3>1, SameCore
    <3>2. CASE ~ Refuses(at + 1) /\ payload' = MergedAt(at + 1)
      BY <1>0, <2>1, <2>3, <3>2, MergeKeepsCore
    <3> QED
      BY <2>2, <3>1, <3>2
  <2>5. same' \in Nat
    BY <2>1
  <2>6. Scalars' /\ Counting'
    BY <2>1, <2>5, LoopScalars
  <2> QED
    BY <2>4, <2>6 DEF Inv
<1>5. CASE RunRefuses \/ EndL2
  <2>1. /\ Return /\ UNCHANGED payload /\ UNCHANGED norm /\ UNCHANGED window
        /\ UNCHANGED log /\ UNCHANGED cutoff /\ UNCHANGED resizes
    BY <1>5 DEF RunRefuses, EndL2, history
  <2>2. Core'
    BY <1>0, <2>1, SameCore
  <2>3. Scalars' /\ Counting'
    BY <2>1, ReturnScalars
  <2> QED
    BY <2>2, <2>3 DEF Inv
<1>6. CASE EndOldestRun
  <2>1. /\ Return /\ UNCHANGED norm /\ UNCHANGED window
        /\ UNCHANGED log /\ UNCHANGED cutoff /\ UNCHANGED resizes
    BY <1>6 DEF EndOldestRun, history
  <2>2. \/ payload' = payload
        \/ ~ Refuses(1) /\ payload' = MergedAt(1)
    BY <1>6 DEF EndOldestRun
  <2>3. Core'
    <3>1. CASE payload' = payload
      BY <1>0, <2>1, <3>1, SameCore
    <3>2. CASE ~ Refuses(1) /\ payload' = MergedAt(1)
      <4>1. 1 \in Nat \ {0}
        OBVIOUS
      <4> QED
        BY <1>0, <2>1, <3>2, <4>1, MergeKeepsCore
    <3> QED
      BY <2>2, <3>1, <3>2
  <2>4. Scalars' /\ Counting'
    BY <2>1, ReturnScalars
  <2> QED
    BY <2>3, <2>4 DEF Inv
<1>7. CASE MergeCandidate
  <2>1. /\ Candidates # {} /\ ~ Refuses(Max(Candidates)) /\ payload' = MergedAt(Max(Candidates))
        /\ UNCHANGED norm /\ UNCHANGED window /\ UNCHANGED phase /\ UNCHANGED at /\ UNCHANGED same
        /\ UNCHANGED log /\ UNCHANGED cutoff /\ UNCHANGED resizes
    BY <1>7 DEF MergeCandidate, history, loopVars
  <2>2. PICK c \in Nat \ {0} : c = Max(Candidates)
    BY <2>1, CandidateFacts
  <2>3. Core'
    <3>1. ~ Refuses(c) /\ payload' = MergedAt(c)
      BY <2>1, <2>2
    <3> QED
      BY <1>0, <2>1, <3>1, MergeKeepsCore
  <2>4. Scalars'
    BY <1>0, <2>1, SameScalars
  <2>5. Counting'
    BY <1>0, <2>1 DEF Counting
  <2> QED
    BY <2>3, <2>4, <2>5 DEF Inv
<1>8. CASE Done \/ UNCHANGED vars
  <2>1. /\ UNCHANGED payload /\ UNCHANGED norm /\ UNCHANGED window /\ UNCHANGED phase /\ UNCHANGED at
        /\ UNCHANGED same /\ UNCHANGED log /\ UNCHANGED cutoff /\ UNCHANGED resizes
    BY <1>8 DEF Done, vars
  <2>2. Core'
    BY <1>0, <2>1, SameCore
  <2>3. Scalars'
    BY <1>0, <2>1, SameScalars
  <2>4. Counting'
    BY <1>0, <2>1 DEF Counting
  <2> QED
    BY <2>2, <2>3, <2>4 DEF Inv
<1> QED
  BY <1>1, <1>2, <1>3, <1>4, <1>5, <1>6, <1>7, <1>8 DEF Next

(***************************************************************************)
(* The theorems.                                                           *)
(***************************************************************************)
LEMMA InvAlways == Spec => []Inv
<1>1. Init => Inv
  <2>1. ASSUME Init
        PROVE  Counting
    BY <2>1 DEF Init, Counting
  <2> QED
    BY <2>1, InitCore DEF Inv
<1>2. Inv /\ [Next]_vars => Inv'
  BY StepKeepsInv
<1> QED
  BY <1>1, <1>2, PTL DEF Spec

(* Every state of an update is well formed, at any merge parameter, norm,  *)
(* window and length of the stream, whether or not a merge is refused.     *)
THEOREM InvariantCorrect == Spec => []IInv
<1>1. Inv => IInv
  BY CoreAndScalars DEF Inv
<1> QED
  BY <1>1, InvAlways, PTL

(* merge_at_index and the expiry of update_with lose no update and count   *)
(* none twice.                                                             *)
THEOREM EachInOneBucketCorrect == Spec => []EachInOneBucket
<1>1. Inv => EachInOneBucket
  BY DEF Inv, Core
<1> QED
  BY <1>1, InvAlways, PTL

(* A pair whose sketches refuse to merge is left as it was: no bucket      *)
(* mixes kinds.                                                            *)
THEOREM KindsUnmixedCorrect == Spec => []KindsUnmixed
<1>1. Inv => KindsUnmixed
  BY DEF Inv, Core
<1> QED
  BY <1>1, InvAlways, PTL


(***************************************************************************)
(* The layout: every end of a bucket is the time of an update in it, so    *)
(* updates in order of time leave buckets in order of time.                *)
(***************************************************************************)
EndsTaken ==
  \A i \in DOMAIN payload :
    /\ \E o \in payload[i].seen : log[o].time = payload[i].min
    /\ \E o \in payload[i].seen : log[o].time = payload[i].max

Ordered ==
  InOrder => \A i, j \in DOMAIN payload : i < j => payload[i].max <= payload[j].min

(* The oldest bucket an update meets in its merge loop is in the window.   *)
Fresh ==
  phase # "idle" =>
    /\ payload # <<>>
    /\ InOrder => payload[1].max >= CutoffAt(Latest)

Layout == EndsTaken /\ Ordered /\ Fresh

(* What the layout needs of the rest of the invariant.                     *)
LEMMA InvFacts ==
  ASSUME Inv
  PROVE  /\ Row(payload) /\ Len(payload) \in Nat /\ DOMAIN payload = 1..Len(payload)
         /\ DOMAIN log = 1..Len(log) /\ Len(log) \in Nat
         /\ \A o \in DOMAIN log : log[o].time \in Nat
         /\ \A i \in 1..Len(payload) :
              /\ payload[i].seen \subseteq DOMAIN log
              /\ payload[i].kind \in Kinds
              /\ payload[i].size \in Nat
              /\ payload[i].min \in Nat
              /\ payload[i].max \in Nat
              /\ \A o \in payload[i].seen :
                   /\ log[o].time \in Nat
                   /\ payload[i].min <= log[o].time
                   /\ log[o].time <= payload[i].max
         /\ window \in Nat
<1>1. Row(payload) /\ Len(payload) \in Nat /\ DOMAIN payload = 1..Len(payload)
  BY RowFacts DEF Inv, Core
<1>2. DOMAIN log = 1..Len(log) /\ Len(log) \in Nat /\ \A o \in DOMAIN log : log[o] \in Entries
  BY LogTimes DEF Inv
<1>3. \A o \in DOMAIN log : log[o].time \in Nat
  BY <1>2, HistogramAssumption DEF Entries, Times
<1>4. \A i \in 1..Len(payload) :
        /\ payload[i].seen \subseteq DOMAIN log
        /\ payload[i].kind \in Kinds
        /\ payload[i].size \in Nat
        /\ payload[i].min \in Nat
        /\ payload[i].max \in Nat
  BY <1>1, HistogramAssumption DEF Inv, Core, BucketsTyped, Times
<1>5. \A i \in 1..Len(payload) : \A o \in payload[i].seen :
        payload[i].min <= log[o].time /\ log[o].time <= payload[i].max
  BY <1>1 DEF Inv, Core, SpansHold
<1>6. window \in Nat
  BY HistogramAssumption DEF Inv, Scalars
<1>7. \A i \in 1..Len(payload) : \A o \in payload[i].seen : log[o].time \in Nat
  BY <1>3, <1>4
<1> QED
  BY <1>1, <1>2, <1>3, <1>4, <1>5, <1>6, <1>7

LEMMA RowNotEmpty ==
  ASSUME NEW p, Row(p), p # <<>>
  PROVE  Len(p) # 0
BY DEF Row

(* The ends of a bucket are in order, as it holds an update.               *)
LEMMA EndsOrdered ==
  ASSUME Inv, EndsTaken, NEW i \in 1..Len(payload)
  PROVE  payload[i].min <= payload[i].max
<1>1. PICK o \in payload[i].seen : log[o].time = payload[i].min
  BY InvFacts DEF EndsTaken
<1> QED
  BY <1>1, InvFacts

(* Merging two neighbours keeps the layout, and the row's oldest bucket    *)
(* gets no older.                                                          *)
LEMMA MergeKeepsLayout ==
  ASSUME Inv, EndsTaken, Ordered, NEW k \in 1..(Len(payload) - 1), ~Refuses(k),
         payload' = MergedAt(k), UNCHANGED log
  PROVE  /\ EndsTaken' /\ Ordered'
         /\ payload' # <<>>
         /\ payload'[1].max >= payload[1].max
<1> DEFINE n == Len(payload)
           L(i) == Lo(k, i)
           H(i) == Hi(k, i)
<1>0. n \in Nat /\ DOMAIN payload = 1..n /\ k \in 1..(n - 1)
  BY InvFacts
<1>1. /\ Row(payload')
      /\ Len(payload') = n - 1
      /\ \A i \in 1..(n - 1) :
           /\ L(i) \in 1..n
           /\ H(i) \in 1..n
           /\ payload'[i].seen = payload[L(i)].seen \cup payload[H(i)].seen
           /\ payload'[i].max >= payload[L(i)].max
           /\ payload'[i].min \in {payload[L(i)].min, payload[H(i)].min}
           /\ payload'[i].max \in {payload[L(i)].max, payload[H(i)].max}
  BY MergedRow DEF Inv
<1>2. DOMAIN payload' = 1..(n - 1)
  BY <1>1, RowFacts
<1>3. \A i, j \in 1..(n - 1) : i < j => L(i) < L(j) /\ L(i) < H(j) /\ H(i) < L(j) /\ H(i) < H(j)
  BY <1>0 DEF Lo, Hi
<1>4. L(1) = 1 /\ 1 \in 1..(n - 1)
  BY <1>0 DEF Lo
<1> HIDE DEF L, H
<1>5. EndsTaken'
  <2>1. \A m \in 1..n : /\ \E o \in payload[m].seen : log[o].time = payload[m].min
                        /\ \E o \in payload[m].seen : log[o].time = payload[m].max
    BY <1>0 DEF EndsTaken
  <2>2. ASSUME NEW i \in 1..(n - 1)
        PROVE  /\ \E o \in payload'[i].seen : log[o].time = payload'[i].min
               /\ \E o \in payload'[i].seen : log[o].time = payload'[i].max
    BY <1>1, <2>1, ZenonT(60)
  <2> QED
    BY <1>2, <2>2 DEF EndsTaken
<1>6. Ordered'
  <2> SUFFICES ASSUME InOrder, NEW i \in 1..(n - 1), NEW j \in 1..(n - 1), i < j
               PROVE  payload'[i].max <= payload'[j].min
    BY <1>2 DEF Ordered, InOrder
  <2>1. \A l, m \in 1..n : l < m => payload[l].max <= payload[m].min
    BY <1>0 DEF Ordered
  <2>2. /\ payload[L(i)].max <= payload[L(j)].min /\ payload[L(i)].max <= payload[H(j)].min
        /\ payload[H(i)].max <= payload[L(j)].min /\ payload[H(i)].max <= payload[H(j)].min
    BY <1>1, <1>3, <2>1
  <2> QED
    BY <1>1, <2>2
<1>7. payload'[1].max >= payload[1].max
  BY <1>1, <1>4
<1>8. payload' # <<>>
  BY <1>2, <1>4
<1> QED
  BY <1>5, <1>6, <1>7, <1>8

(* The latest timestamp of updates in order is that of the last one.       *)
LEMMA LatestIsLast ==
  ASSUME NEW l, NEW n \in Nat \ {0}, DOMAIN l = 1..n,
         \A o \in 1..n : l[o].time \in Nat,
         \A o, p \in 1..n : o < p => l[o].time <= l[p].time
  PROVE  Max({l[o].time : o \in DOMAIN l}) = l[n].time
<1> DEFINE T == {l[o].time : o \in DOMAIN l}
<1>1. n \in 1..n /\ l[n].time \in T
  OBVIOUS
<1>2. \A o \in 1..n : o = n \/ o < n
  OBVIOUS
<1>3. \A t \in T : t \in Nat /\ t <= l[n].time
  BY <1>1, <1>2
<1> HIDE DEF T
<1>4. Max(T) \in T /\ \A t \in T : Max(T) >= t
  BY <1>1, <1>3 DEF Max
<1>5. Max(T) = l[n].time
  BY <1>1, <1>3, <1>4
<1> QED
  BY <1>5 DEF T

LEMMA UpdateKeepsLayout ==
  ASSUME Inv, Layout, Inv',
         NEW time \in Times, NEW key \in Keys, NEW weight \in Weights, NEW kind \in Kinds,
         UpdateWith(time, key, weight, kind)
  PROVE  Layout'
<1> DEFINE n     == Len(payload)
           entry == [time |-> time, key |-> key, weight |-> weight, kind |-> kind]
           new   == Len(log) + 1
<1>0. /\ n \in Nat /\ DOMAIN payload = 1..n
      /\ Len(log) \in Nat /\ DOMAIN log = 1..Len(log)
      /\ time \in Nat /\ window \in Nat
  BY InvFacts, HistogramAssumption DEF Times
<1>1. log' = Append(log, entry) /\ window' = window
  BY DEF UpdateWith
<1>2. entry.time = time
  OBVIOUS
<1> HIDE DEF entry
<1>3. /\ DOMAIN log' = 1..new
      /\ \A o \in 1..Len(log) : log'[o] = log[o]
      /\ log'[new] = entry
  <2>1. log \in Seq(Entries)
    BY DEF Inv, Scalars
  <2>2. entry \in Entries
    BY DEF entry, Entries
  <2> QED
    BY <1>1, <2>1, <2>2
<1>4. PICK d \in 1..(n + 1) : UpdatedFrom(d, time, kind)
  BY UpdatedRow DEF Inv
<1> DEFINE m == n - d + 1
<1>5. m \in Nat /\ m + 1 = n - d + 2
  BY <1>0
<1>6. /\ Row(payload')
      /\ Len(payload') = m + 1
      /\ \A i \in 1..m : payload'[i] = payload[i + d - 1]
      /\ payload'[m + 1].seen = {new}
      /\ payload'[m + 1].min = time
      /\ payload'[m + 1].max = time
      /\ d <= n => ~Expired(payload[d], time)
  BY <1>4, <1>5 DEF UpdatedFrom
<1>7. DOMAIN payload' = 1..(m + 1)
  BY <1>6, RowFacts
<1>8. \A i \in 1..m : i + d - 1 \in 1..n
  BY <1>0
<1>9. \A i \in 1..(m + 1) : i \in 1..m \/ i = m + 1
  BY <1>5
<1> HIDE DEF m
<1>10. EndsTaken'
  <2>1. ASSUME NEW i \in 1..m
        PROVE  /\ \E o \in payload'[i].seen : log'[o].time = payload'[i].min
               /\ \E o \in payload'[i].seen : log'[o].time = payload'[i].max
    <3>1. PICK j \in 1..n : j = i + d - 1
      BY <1>8
    <3>2. payload'[i] = payload[j]
      BY <1>6, <3>1
    <3>3. /\ \E o \in payload[j].seen : log[o].time = payload[j].min
          /\ \E o \in payload[j].seen : log[o].time = payload[j].max
      BY <1>0 DEF Layout, EndsTaken
    <3>4. \A o \in payload[j].seen : log'[o] = log[o]
      BY <1>0, <1>3, InvFacts
    <3> QED
      BY <3>2, <3>3, <3>4
  <2>2. /\ \E o \in payload'[m + 1].seen : log'[o].time = payload'[m + 1].min
        /\ \E o \in payload'[m + 1].seen : log'[o].time = payload'[m + 1].max
    BY <1>2, <1>3, <1>6
  <2> QED
    BY <1>7, <1>9, <2>1, <2>2 DEF EndsTaken
<1>11. Ordered'
  <2> SUFFICES ASSUME InOrder', NEW i \in 1..(m + 1), NEW j \in 1..(m + 1), i < j
               PROVE  payload'[i].max <= payload'[j].min
    BY <1>7 DEF Ordered
  <2>1. i \in 1..m
    BY <1>5
  <2>2. PICK l \in 1..n : l = i + d - 1
    BY <1>8, <2>1
  <2>3. payload'[i] = payload[l]
    BY <1>6, <2>1, <2>2
  <2>4. \A o, p \in 1..new : o < p => log'[o].time <= log'[p].time
    BY <1>3 DEF InOrder
  <2>5. CASE j \in 1..m
    <3>1. j + d - 1 \in 1..n /\ payload'[j] = payload[j + d - 1]
      BY <1>6, <1>8, <2>5
    <3>2. l < j + d - 1
      BY <1>0, <1>5, <2>1, <2>2, <2>5
    <3>3. InOrder
      BY <1>0, <1>3, <2>4 DEF InOrder
    <3> QED
      BY <1>0, <2>3, <3>1, <3>2, <3>3 DEF Layout, Ordered
  <2>6. CASE j = m + 1
    <3>1. PICK o \in payload[l].seen : log[o].time = payload[l].max
      BY <1>0 DEF Layout, EndsTaken
    <3>2. o \in 1..Len(log)
      BY <1>0, <3>1, InvFacts
    <3>3. log'[o].time <= log'[new].time
      BY <1>0, <2>4, <3>2
    <3>4. log'[o] = log[o] /\ log'[new].time = time
      BY <1>2, <1>3, <3>2
    <3> QED
      BY <1>6, <2>3, <2>6, <3>1, <3>3, <3>4
  <2> QED
    BY <1>9, <2>5, <2>6
<1>12. Fresh'
  <2>1. payload' # <<>> /\ 1 \in 1..(m + 1)
    BY <1>5, <1>7
  <2> SUFFICES ASSUME InOrder'
               PROVE  payload'[1].max >= CutoffAt(Latest)'
    BY <2>1 DEF Fresh
  <2>2. Latest' = time
    <3>1. PICK l : l = log'
      OBVIOUS
    <3>2. new \in Nat \ {0} /\ DOMAIN l = 1..new /\ l # <<>>
      BY <1>0, <1>3, <3>1
    <3>3. \A o \in 1..new : l[o].time \in Nat
      <4>1. \A o \in DOMAIN log' : log'[o].time \in Nat
        <5>1. log' \in Seq(Entries)
          BY DEF Inv, Scalars
        <5>2. \A o \in DOMAIN log' : log'[o] \in Entries
          BY <5>1
        <5> QED
          BY <5>2, HistogramAssumption DEF Entries, Times
      <4> QED
        BY <1>3, <3>1, <4>1
    <3>4. \A o, p \in 1..new : o < p => l[o].time <= l[p].time
      BY <1>3, <3>1 DEF InOrder
    <3>5. Max({l[o].time : o \in DOMAIN l}) = l[new].time
      BY <3>2, <3>3, <3>4, LatestIsLast
    <3>6. Latest' = Max({l[o].time : o \in DOMAIN l})
      BY <3>1, <3>2 DEF Latest
    <3> QED
      BY <1>2, <1>3, <3>1, <3>5, <3>6
  <2>3. PICK c : c = CutoffAt(time)
    OBVIOUS
  <2>4. CutoffAt(Latest)' = c
    BY <1>1, <2>2, <2>3 DEF CutoffAt
  <2>5. c \in Nat /\ c <= time
    BY <1>0, <2>3 DEF CutoffAt
  <2>6. CASE d <= n
    <3>1. 1 \in 1..m /\ 1 + d - 1 = d /\ d \in 1..n
      BY <1>0, <2>6 DEF m
    <3>2. payload'[1] = payload[d]
      BY <1>6, <3>1
    <3>3. ~ (payload[d].max < c) /\ payload[d].max \in Nat
      BY <1>6, <2>3, <2>6, <3>1, InvFacts DEF Expired
    <3> QED
      BY <2>4, <2>5, <3>2, <3>3
  <2>7. CASE ~ (d <= n)
    <3>1. m + 1 = 1
      BY <1>0, <2>7 DEF m
    <3> QED
      BY <1>0, <1>6, <2>4, <2>5, <3>1
  <2> QED
    BY <2>6, <2>7
<1> QED
  BY <1>10, <1>11, <1>12 DEF Layout


(* A step that leaves the buckets alone starts no merge loop.              *)
LEMMA SameLayout ==
  ASSUME Layout, UNCHANGED payload, UNCHANGED log, phase' # "idle" => phase # "idle" /\ UNCHANGED window
  PROVE  Layout'
<1>1. EndsTaken' /\ Ordered'
  BY DEF Layout, EndsTaken, Ordered, InOrder
<1>2. Fresh'
  <2> SUFFICES ASSUME phase' # "idle"
               PROVE  payload # <<>> /\ (InOrder => payload[1].max >= CutoffAt(Latest)')
    BY DEF Fresh, InOrder
  <2>1. Latest' = Latest /\ window' = window
    BY DEF Latest
  <2>2. CutoffAt(Latest)' = CutoffAt(Latest)
    BY <2>1 DEF CutoffAt
  <2> QED
    BY <2>2 DEF Layout, Fresh
<1> QED
  BY <1>1, <1>2 DEF Layout

(* A turn of a merge loop that merges.                                     *)
LEMMA LoopKeepsLayout ==
  ASSUME Inv, Layout, phase # "idle", NEW k \in Nat \ {0}, ~Refuses(k), payload' = MergedAt(k),
         UNCHANGED log, UNCHANGED window
  PROVE  Layout'
<1>0. Len(payload) \in Nat
  BY InvFacts
<1>1. CASE k + 1 > Len(payload)
  <2>1. UNCHANGED payload
    BY <1>1 DEF MergedAt
  <2> QED
    BY <2>1, SameLayout
<1>2. CASE ~(k + 1 > Len(payload))
  <2>1. PICK p \in 1..(Len(payload) - 1) : p = k
    BY <1>0, <1>2
  <2>2. ~Refuses(p) /\ payload' = MergedAt(p)
    BY <2>1
  <2>3. /\ EndsTaken' /\ Ordered' /\ payload' # <<>>
        /\ payload'[1].max >= payload[1].max
    BY <2>2, MergeKeepsLayout DEF Layout
  <2>4. PICK c : c = CutoffAt(Latest)
    OBVIOUS
  <2>5. CutoffAt(Latest)' = c
    BY <2>4 DEF CutoffAt, Latest
  <2>6. InOrder => payload[1].max >= c
    BY <2>4 DEF Layout, Fresh
  <2>7. InOrder' => InOrder
    BY DEF InOrder
  <2>8. (c \in Int /\ payload[1].max \in Int /\ payload'[1].max \in Int) \/ ~InOrder
    <3>1. CASE InOrder
      <4>1. 1 \in 1..Len(payload)
        BY <1>0, <2>1
      <4>2. payload[1].max \in Int
        BY <4>1, InvFacts
      <4>3. Lo(p, 1) \in 1..Len(payload) /\ Hi(p, 1) \in 1..Len(payload)
            /\ payload'[1].max \in {payload[Lo(p, 1)].max, payload[Hi(p, 1)].max}
        <5>1. 1 \in 1..(Len(payload) - 1)
          BY <1>0, <2>1
        <5> QED
          BY <2>2, <5>1, MergedRow DEF Inv
      <4>4. payload'[1].max \in Int
        BY <4>3, InvFacts
      <4>5. Latest \in Int
        <5>1. CASE log = <<>>
          BY <5>1 DEF Latest
        <5>2. CASE log # <<>>
          <6> DEFINE n == Len(log)
          <6>1. n \in Nat \ {0} /\ DOMAIN log = 1..n /\ \A o \in 1..n : log[o].time \in Nat
            <7>1. n \in Nat /\ DOMAIN log = 1..n /\ \A o \in DOMAIN log : log[o].time \in Nat
              BY InvFacts
            <7>2. n # 0
              BY <5>2 DEF Inv, Scalars
            <7> QED
              BY <7>1, <7>2
          <6>2. \A o, q \in 1..n : o < q => log[o].time <= log[q].time
            BY <3>1, <6>1 DEF InOrder
          <6> HIDE DEF n
          <6>3. Max({log[o].time : o \in DOMAIN log}) = log[n].time
            BY <6>1, <6>2, LatestIsLast
          <6> QED
            BY <5>2, <6>1, <6>3 DEF Latest
        <5> QED
          BY <5>1, <5>2
      <4>6. c \in Int
        BY <2>4, <4>5, InvFacts DEF CutoffAt
      <4> QED
        BY <4>2, <4>4, <4>6
    <3> QED
      BY <3>1
  <2>9. InOrder' => payload'[1].max >= c
    BY <2>3, <2>6, <2>7, <2>8
  <2> QED
    BY <2>3, <2>5, <2>9 DEF Layout, Fresh
<1> QED
  BY <1>1, <1>2

LEMMA StepKeepsLayout ==
  ASSUME Inv, Inv', Layout, [Next]_vars
  PROVE  Layout'
<1>0. at \in Nat
  BY DEF Inv, Scalars
<1>1. CASE Update
  <2>1. PICK time \in Times, key \in Keys, weight \in Weights, kind \in Kinds :
          UpdateWith(time, key, weight, kind)
    BY <1>1, UpdateFacts
  <2> QED
    BY <2>1, UpdateKeepsLayout
<1>2. CASE \E w \in Windows : UpdateWindow(w)
  <2>1. UNCHANGED payload /\ UNCHANGED log /\ phase' = "idle"
    BY <1>2 DEF UpdateWindow, loopVars
  <2> QED
    BY <2>1, SameLayout
<1>3. CASE CountSame
  <2>1. UNCHANGED payload /\ UNCHANGED log /\ UNCHANGED window /\ phase # "idle"
    BY <1>3 DEF CountSame, history
  <2> QED
    BY <2>1, SameLayout
<1>4. CASE EndRun
  <2>1. UNCHANGED log /\ UNCHANGED window /\ phase # "idle"
    BY <1>4 DEF EndRun, history
  <2>2. \/ UNCHANGED payload
        \/ ~ Refuses(at + 1) /\ payload' = MergedAt(at + 1)
    BY <1>4 DEF EndRun
  <2>3. at + 1 \in Nat \ {0}
    BY <1>0
  <2> QED
    BY <2>1, <2>2, <2>3, SameLayout, LoopKeepsLayout
<1>5. CASE RunRefuses \/ EndL2
  <2>1. UNCHANGED payload /\ UNCHANGED log /\ phase' = "idle"
    BY <1>5 DEF RunRefuses, EndL2, Return, history
  <2> QED
    BY <2>1, SameLayout
<1>6. CASE EndOldestRun
  <2>1. UNCHANGED log /\ UNCHANGED window /\ phase # "idle"
    BY <1>6 DEF EndOldestRun, history
  <2>2. \/ UNCHANGED payload
        \/ ~ Refuses(1) /\ payload' = MergedAt(1)
    BY <1>6 DEF EndOldestRun
  <2>3. 1 \in Nat \ {0}
    OBVIOUS
  <2> QED
    BY <2>1, <2>2, <2>3, SameLayout, LoopKeepsLayout
<1>7. CASE MergeCandidate
  <2>1. UNCHANGED log /\ UNCHANGED window /\ phase # "idle"
    BY <1>7 DEF MergeCandidate, history, loopVars
  <2>2. PICK c \in Nat \ {0} : ~ Refuses(c) /\ payload' = MergedAt(c)
    <3>1. Candidates # {} /\ ~ Refuses(Max(Candidates)) /\ payload' = MergedAt(Max(Candidates))
      BY <1>7 DEF MergeCandidate
    <3>2. Max(Candidates) \in Nat \ {0}
      BY <3>1, CandidateFacts
    <3> QED
      BY <3>1, <3>2
  <2> QED
    BY <2>1, <2>2, LoopKeepsLayout
<1>8. CASE Done \/ UNCHANGED vars
  <2>1. UNCHANGED payload /\ UNCHANGED log /\ UNCHANGED window /\ UNCHANGED phase
    BY <1>8 DEF Done, vars
  <2> QED
    BY <2>1, SameLayout
<1> QED
  BY <1>1, <1>2, <1>3, <1>4, <1>5, <1>6, <1>7, <1>8 DEF Next

LEMMA InitLayout == Init => Layout
<1> SUFFICES ASSUME Init PROVE Layout
  OBVIOUS
<1>1. DOMAIN payload = {} /\ phase = "idle"
  BY DEF Init
<1> QED
  BY <1>1 DEF Layout, EndsTaken, Ordered, Fresh

LEMMA LayoutAlways == Spec => []Layout
<1>1. Inv /\ Inv' /\ Layout /\ [Next]_vars => Layout'
  BY StepKeepsLayout
<1> QED
  BY <1>1, InitLayout, InvAlways, PTL DEF Spec

(* Timestamps in order leave the buckets in order, from one merge to the   *)
(* next, and no update meets a bucket that its own limit has expired.      *)
THEOREM NothingStaleCorrect == Spec => []NothingStale
<1>1. ASSUME Inv, Layout
      PROVE  NothingStale
  <2> SUFFICES ASSUME InOrder
               PROVE  /\ \A i \in 1..(Len(payload) - 1) : payload[i].max <= payload[i + 1].min
                      /\ phase # "idle" => payload[1].max >= CutoffAt(Latest)
    BY DEF NothingStale
  <2>1. ASSUME NEW i \in 1..(Len(payload) - 1)
        PROVE  payload[i].max <= payload[i + 1].min
    <3>1. i \in DOMAIN payload /\ i + 1 \in DOMAIN payload /\ i < i + 1
      BY <1>1, InvFacts
    <3> QED
      BY <1>1, <3>1 DEF Layout, Ordered
  <2> QED
    BY <1>1, <2>1 DEF Layout, Fresh
<1> QED
  BY <1>1, InvAlways, LayoutAlways, PTL


(***************************************************************************)
(* The interval query, when no two updates share a time and all sketches   *)
(* are of one kind: every retained time is held by one bucket.             *)
(***************************************************************************)

(* Buckets of updates at different times are apart.                        *)
LEMMA BucketsApart ==
  ASSUME Inv, Layout, Strictly
  PROVE  \A i, j \in 1..Len(payload) : i < j => payload[i].max < payload[j].min
<1> SUFFICES ASSUME NEW i \in 1..Len(payload), NEW j \in 1..Len(payload), i < j
             PROVE  payload[i].max < payload[j].min
  OBVIOUS
<1>1. DOMAIN payload = 1..Len(payload) /\ DOMAIN log = 1..Len(log) /\ Len(log) \in Nat
      /\ \A o \in DOMAIN log : log[o].time \in Nat
  BY InvFacts
<1>2. InOrder
  BY <1>1 DEF Strictly, InOrder
<1>3. payload[i].max <= payload[j].min
  BY <1>1, <1>2 DEF Layout, Ordered
<1>4. PICK o \in payload[i].seen : log[o].time = payload[i].max
  BY <1>1 DEF Layout, EndsTaken
<1>5. PICK p \in payload[j].seen : log[p].time = payload[j].min
  BY <1>1 DEF Layout, EndsTaken
<1>6. o \in DOMAIN log /\ p \in DOMAIN log
  BY InvFacts
<1>7. o # p
  <2>1. i # j /\ payload[i].seen \cap payload[j].seen = {}
    BY <1>1, InvFacts DEF Inv, Core, EachInOneBucket
  <2> QED
    BY <1>4, <1>5, <2>1
<1>8. log[o].time # log[p].time
  <2>1. o < p \/ p < o
    BY <1>1, <1>6, <1>7
  <2> QED
    BY <1>1, <1>6, <2>1 DEF Strictly
<1> QED
  BY <1>3, <1>4, <1>5, <1>8, InvFacts

(* All the buckets hold sketches of the one kind.                          *)
LEMMA OneKindBuckets ==
  ASSUME Inv, EndsTaken, OneKind
  PROVE  \A i, j \in 1..Len(payload) : payload[i].kind = payload[j].kind
<1> SUFFICES ASSUME NEW i \in 1..Len(payload), NEW j \in 1..Len(payload)
             PROVE  payload[i].kind = payload[j].kind
  OBVIOUS
<1>1. DOMAIN payload = 1..Len(payload)
  BY InvFacts
<1>2. PICK o \in payload[i].seen : TRUE
  BY <1>1 DEF EndsTaken
<1>3. PICK p \in payload[j].seen : TRUE
  BY <1>1 DEF EndsTaken
<1>4. o \in DOMAIN log /\ p \in DOMAIN log
  BY InvFacts
<1>5. log[o].kind = payload[i].kind /\ log[p].kind = payload[j].kind
  BY <1>1 DEF Inv, Core, KindsUnmixed
<1> QED
  BY <1>4, <1>5 DEF OneKind

(* The bucket a retained time is in.                                       *)
LEMMA HoldingOne ==
  ASSUME Inv, Layout, Strictly, NEW i \in 1..Len(payload), NEW t \in Nat,
         payload[i].min <= t, t <= payload[i].max
  PROVE  Holding(t) # {} /\ Max(Holding(t)) = i
<1>1. DOMAIN payload = 1..Len(payload) /\ Len(payload) \in Nat
  BY InvFacts
<1>2. i \in Holding(t)
  BY <1>1 DEF Holding
<1>3. ASSUME NEW j \in Holding(t)
      PROVE  j = i
  <2>1. j \in 1..Len(payload) /\ payload[j].min <= t /\ t <= payload[j].max
    BY <1>1, <1>3 DEF Holding
  <2>2. ~ (i < j)
    BY <2>1, BucketsApart, InvFacts
  <2>3. ~ (j < i)
    BY <2>1, BucketsApart, InvFacts
  <2> QED
    BY <2>1, <2>2, <2>3
<1>4. Holding(t) = {i}
  BY <1>2, <1>3
<1>5. Max({i}) = i
  BY DEF Max
<1> QED
  BY <1>4, <1>5

(* Where a query that starts and ends in retained time begins and ends: in *)
(* the bucket of its start or the next one, and in that of its end.        *)
LEMMA QueryEnds ==
  ASSUME Inv, Layout, Strictly, NEW i \in 1..Len(payload), NEW t \in Nat,
         payload[i].min <= t, t <= payload[i].max
  PROVE  /\ FromBucket(t) \in {i, i + 1} /\ FromBucket(t) <= Len(payload)
         /\ t = payload[i].min => FromBucket(t) = i
         /\ ToBucket(t) = i
<1> DEFINE n == Len(payload)
           found == IF t < payload[1].min \/ Holding(t) = {} THEN 1 ELSE Max(Holding(t))
<1>1. n \in Nat /\ i \in 1..n /\ 1 \in 1..n /\ n \in 1..n
  BY InvFacts
<1>2. Holding(t) # {} /\ Max(Holding(t)) = i
  BY HoldingOne
<1>3. payload[1].min <= payload[i].min
  <2>1. CASE i = 1
    BY <1>1, <2>1, InvFacts
  <2>2. CASE 1 < i
    <3>1. payload[1].max < payload[i].min /\ payload[1].min <= payload[1].max
      BY <1>1, <2>2, BucketsApart, EndsOrdered DEF Layout
    <3> QED
      BY <1>1, <3>1, InvFacts
  <2> QED
    BY <1>1, <2>1, <2>2
<1>4. payload[i].max <= payload[n].max
  <2>1. CASE i = n
    BY <1>1, <2>1, InvFacts
  <2>2. CASE i < n
    <3>1. payload[i].max < payload[n].min /\ payload[n].min <= payload[n].max
      BY <1>1, <2>2, BucketsApart, EndsOrdered DEF Layout
    <3> QED
      BY <1>1, <3>1, InvFacts
  <2> QED
    BY <1>1, <2>1, <2>2
<1>5. ~ (t < payload[1].min) /\ ~ (t > payload[n].max)
  BY <1>1, <1>3, <1>4, InvFacts
<1>6. found = i
  BY <1>2, <1>5
<1>7. FromBucket(t) = IF NearerEnd(t, found) /\ found < n THEN found + 1 ELSE found
  BY DEF FromBucket
<1> HIDE DEF found
<1>8. FromBucket(t) \in {i, i + 1} /\ FromBucket(t) <= n
  BY <1>1, <1>6, <1>7
<1>9. t = payload[i].min => ~ NearerEnd(t, i)
  BY InvFacts DEF NearerEnd, Distance
<1>10. ToBucket(t) = i
  BY <1>2, <1>5 DEF ToBucket
<1> QED
  BY <1>6, <1>7, <1>8, <1>9, <1>10

(* A query over one kind of sketches merges the buckets between its ends.  *)
LEMMA QueryMerges ==
  ASSUME Inv, EndsTaken, OneKind, payload # <<>>, NEW t1, NEW t2,
         NEW lo \in 1..Len(payload), NEW hi \in lo..Len(payload),
         FromBucket(t1) = lo, ToBucket(t2) = hi
  PROVE  Query(t1, t2).seen = UNION {payload[i].seen : i \in lo..hi}
<1>1. Len(payload) \in Nat
  BY InvFacts
<1>2. Larger(lo, hi) = hi /\ lo..hi \subseteq 1..Len(payload)
  BY <1>1 DEF Larger
<1>3. ~ \E i \in lo..hi : payload[i].kind # payload[lo].kind
  BY <1>2, OneKindBuckets
<1> QED
  BY <1>2, <1>3 DEF Query

(* A query over all of the retained time answers with all of the retained  *)
(* updates; one whose ends lie in two buckets has every update between     *)
(* those two and none beyond them.                                         *)
THEOREM AnswersItsSpanCorrect == Spec => []AnswersItsSpan
<1>1. ASSUME Inv, Layout
      PROVE  FullSpanIsWhole
  <2> SUFFICES ASSUME Strictly, OneKind, payload # <<>>
               PROVE  Query(payload[1].min, payload[Len(payload)].max).seen = Retained
    BY DEF FullSpanIsWhole
  <2> DEFINE n == Len(payload)
  <2>1. n \in Nat /\ DOMAIN payload = 1..n
    BY <1>1, InvFacts
  <2>2. n # 0
    BY <1>1, RowNotEmpty, InvFacts
  <2>3. 1 \in 1..n /\ n \in 1..n
    BY <2>1, <2>2
  <2>4. /\ payload[1].min \in Nat /\ payload[1].min <= payload[1].max
        /\ payload[n].max \in Nat /\ payload[n].min <= payload[n].max
    BY <1>1, <2>3, InvFacts, EndsOrdered DEF Layout
  <2>5. FromBucket(payload[1].min) = 1
    <3>1. payload[1].min <= payload[1].min
      BY <2>4
    <3> QED
      BY <1>1, <2>3, <2>4, <3>1, QueryEnds
  <2>6. ToBucket(payload[n].max) = n
    <3>1. payload[n].max <= payload[n].max
      BY <2>4
    <3> QED
      BY <1>1, <2>3, <2>4, <3>1, QueryEnds
  <2>7. Query(payload[1].min, payload[n].max).seen = UNION {payload[i].seen : i \in 1..n}
    BY <1>1, <2>3, <2>5, <2>6, QueryMerges DEF Layout
  <2> QED
    BY <2>1, <2>7 DEF Retained
<1>2. ASSUME Inv, Layout
      PROVE  OffByItsEnds
  <2> SUFFICES ASSUME Strictly, OneKind, NEW i \in DOMAIN payload, NEW j \in DOMAIN payload, i < j,
                      NEW t1 \in payload[i].min..payload[i].max,
                      NEW t2 \in payload[j].min..payload[j].max
               PROVE  /\ \A o \in Retained :
                           payload[i].max < log[o].time /\ log[o].time <= t2
                             => o \in Query(t1, t2).seen
                      /\ \A o \in Query(t1, t2).seen :
                           payload[i].min <= log[o].time /\ log[o].time <= payload[j].max
    BY DEF OffByItsEnds
  <2> DEFINE n == Len(payload)
  <2>1. /\ n \in Nat /\ DOMAIN payload = 1..n /\ i \in 1..n /\ j \in 1..n
    BY <1>2, InvFacts
  <2>2. /\ payload[i].min \in Nat /\ payload[i].max \in Nat
        /\ payload[j].min \in Nat /\ payload[j].max \in Nat
        /\ t1 \in Nat /\ payload[i].min <= t1 /\ t1 <= payload[i].max
        /\ t2 \in Nat /\ payload[j].min <= t2 /\ t2 <= payload[j].max
    <3>1. /\ payload[i].min \in Nat /\ payload[i].max \in Nat
          /\ payload[j].min \in Nat /\ payload[j].max \in Nat
      BY <1>2, <2>1, InvFacts
    <3> QED
      BY <3>1
  <2>3. FromBucket(t1) \in {i, i + 1}
    BY <1>2, <2>1, <2>2, QueryEnds
  <2>4. ToBucket(t2) = j
    BY <1>2, <2>1, <2>2, QueryEnds
  <2>5. PICK from \in 1..n : from = FromBucket(t1)
    BY <2>1, <2>3
  <2>6. from \in {i, i + 1} /\ j \in from..n /\ payload # <<>>
    BY <2>1, <2>3, <2>5
  <2>7. Query(t1, t2).seen = UNION {payload[m].seen : m \in from..j}
    BY <1>2, <2>4, <2>5, <2>6, QueryMerges DEF Layout
  <2>8. \A l, m \in 1..n : l < m => payload[l].max < payload[m].min
    BY <1>2, BucketsApart
  <2>9. \A m \in 1..n : /\ payload[m].min \in Nat /\ payload[m].max \in Nat
                        /\ payload[m].min <= payload[m].max
                        /\ \A o \in payload[m].seen :
                             /\ log[o].time \in Nat
                             /\ payload[m].min <= log[o].time
                             /\ log[o].time <= payload[m].max
    BY <1>2, InvFacts, EndsOrdered DEF Layout
  <2>10. ASSUME NEW o \in Retained, payload[i].max < log[o].time, log[o].time <= t2
         PROVE  o \in Query(t1, t2).seen
    <3>1. PICK m \in 1..n : o \in payload[m].seen
      BY <2>1 DEF Retained
    <3>2. /\ log[o].time \in Nat /\ payload[m].min \in Nat /\ payload[m].max \in Nat
          /\ payload[m].min <= log[o].time /\ log[o].time <= payload[m].max
      BY <2>9, <3>1
    <3>3. ~ (m < i) /\ m # i
      <4>1. ~ (m < i)
        <5>1. m < i => payload[m].max < payload[i].min
          BY <2>1, <2>8
        <5>2. payload[i].min <= payload[i].max
          BY <2>1, <2>9
        <5> QED
          BY <2>2, <2>10, <3>2, <5>1, <5>2, SMTT(60)
      <4> QED
        BY <2>2, <2>10, <3>2, <4>1
    <3>4. ~ (j < m)
      BY <2>1, <2>2, <2>8, <2>10, <3>2
    <3>5. m \in from..j
      BY <2>1, <2>6, <3>3, <3>4
    <3> QED
      BY <2>7, <3>1, <3>5
  <2>11. ASSUME NEW o \in Query(t1, t2).seen
         PROVE  payload[i].min <= log[o].time /\ log[o].time <= payload[j].max
    <3>1. PICK m \in from..j : o \in payload[m].seen
      BY <2>7
    <3>2. m \in 1..n /\ (m = i \/ i < m) /\ (m = j \/ m < j)
      BY <2>1, <2>5, <2>6
    <3>3. /\ log[o].time \in Nat /\ payload[m].min \in Nat /\ payload[m].max \in Nat
          /\ payload[m].min <= log[o].time /\ log[o].time <= payload[m].max
      BY <2>9, <3>1, <3>2
    <3>4. payload[i].min <= payload[m].min
      <4>1. i < m => payload[i].max < payload[m].min
        BY <2>1, <2>8, <3>2
      <4>2. payload[i].min <= payload[i].max
        BY <2>1, <2>9
      <4> QED
        BY <2>2, <3>2, <3>3, <4>1, <4>2
    <3>5. payload[m].max <= payload[j].max
      <4>1. m < j => payload[m].max < payload[j].min
        BY <2>1, <2>8, <3>2
      <4>2. payload[j].min <= payload[j].max
        BY <2>1, <2>9
      <4> QED
        BY <2>2, <3>2, <3>3, <4>1, <4>2
    <3> QED
      BY <2>2, <3>3, <3>4, <3>5, SMTT(60)
  <2> QED
    BY <2>10, <2>11
<1>3. Inv /\ Layout => AnswersItsSpan
  BY <1>1, <1>2 DEF AnswersItsSpan
<1> QED
  BY <1>3, InvAlways, LayoutAlways, PTL


(***************************************************************************)
(* The L1 rule.  Sizes only come from merging equals, so they are powers   *)
(* of two, and the larger of two different ones is at least twice the      *)
(* other; that is what keeps a merged pair in its place in the row.        *)
(***************************************************************************)

(* The powers of two: the least set of numbers with 1 and all doubles.     *)
Powers == {s \in Nat : \A S \in SUBSET Nat : 1 \in S /\ (\A x \in S : 2 * x \in S) => s \in S}

LEMMA PowerIn ==
  ASSUME NEW S \in SUBSET Nat, 1 \in S, \A x \in S : 2 * x \in S
  PROVE  Powers \subseteq S
BY DEF Powers

LEMMA PowerFacts ==
  /\ 1 \in Powers
  /\ \A s \in Powers : s \in Nat /\ 2 * s \in Powers /\ s >= 1
<1>1. 1 \in Powers
  BY DEF Powers
<1>2. ASSUME NEW s \in Powers
      PROVE  2 * s \in Powers
  <2>1. s \in Nat /\ 2 * s \in Nat
    BY DEF Powers
  <2>2. ASSUME NEW S \in SUBSET Nat, 1 \in S, \A x \in S : 2 * x \in S
        PROVE  2 * s \in S
    BY <2>2, PowerIn
  <2> QED
    BY <2>1, <2>2 DEF Powers
<1>3. Powers \subseteq Nat \ {0}
  <2> DEFINE S == Nat \ {0}
  <2>1. S \in SUBSET Nat /\ 1 \in S /\ \A x \in S : 2 * x \in S
    OBVIOUS
  <2> HIDE DEF S
  <2>2. Powers \subseteq S
    BY <2>1, PowerIn
  <2> QED
    BY <2>2 DEF S
<1> QED
  BY <1>1, <1>2, <1>3

(* There is no power of two between one and its double.                    *)
LEMMA PowersApart ==
  ASSUME NEW s \in Powers, NEW t \in Powers, s < t
  PROVE  2 * s <= t
<1> DEFINE H == {1} \cup {2 * u : u \in Powers}
           S == {x \in Nat : x >= 1 /\ \A u \in Powers : u <= x \/ u >= 2 * x}
<1>1. Powers \subseteq H
  <2>1. H \in SUBSET Nat /\ 1 \in H /\ \A x \in H : 2 * x \in H
    <3>1. H \subseteq Powers
      BY PowerFacts
    <3> QED
      BY <3>1, PowerFacts
  <2> HIDE DEF H
  <2> QED
    BY <2>1, PowerIn
<1>2. Powers \subseteq S
  <2>1. S \in SUBSET Nat
    OBVIOUS
  <2>2. 1 \in S
    BY PowerFacts
  <2>3. ASSUME NEW x \in S
        PROVE  2 * x \in S
    <3>1. x \in Nat /\ x >= 1 /\ \A u \in Powers : u <= x \/ u >= 2 * x
      OBVIOUS
    <3>2. ASSUME NEW u \in Powers
          PROVE  u <= 2 * x \/ u >= 2 * (2 * x)
      <4>1. CASE u = 1
        BY <3>1, <4>1
      <4>2. CASE \E w \in Powers : u = 2 * w
        <5>1. PICK w \in Powers : u = 2 * w
          BY <4>2
        <5>2. w \in Nat /\ (w <= x \/ w >= 2 * x)
          BY <3>1, PowerFacts
        <5> QED
          BY <3>1, <5>1, <5>2
      <4> QED
        BY <1>1, <4>1, <4>2
    <3> QED
      BY <3>1, <3>2
  <2> HIDE DEF S
  <2> QED
    BY <2>1, <2>2, <2>3, PowerIn
<1>3. s \in S /\ s \in Nat /\ t \in Nat
  BY <1>2, PowerFacts
<1>4. t <= s \/ t >= 2 * s
  BY <1>3
<1> QED
  BY <1>3, <1>4

Descends(s, n) == \A i, j \in 1..n : i <= j => s[i] >= s[j]

(* No run of equal sizes between lo and hi reaches K/2 + slack/2 buckets.  *)
RunsUnder(s, lo, hi, slack) ==
  \A i, j \in lo..hi : i <= j /\ s[i] = s[j] => 2 * (j - i + 1) < K + slack

(* The run of equal sizes from first to first + run - 1 ends there.        *)
IsRun(s, n, first, run) ==
  /\ run >= 1
  /\ first + run - 1 <= n
  /\ s[first] = s[first + run - 1]
  /\ first + run <= n => s[first] # s[first + run]

(* The buckets of a run have one size and no later bucket has it.          *)
LEMMA RunFacts ==
  ASSUME NEW n \in Nat, NEW s \in [1..n -> Powers], Descends(s, n),
         NEW first \in 1..n, NEW run \in Nat, IsRun(s, n, first, run)
  PROVE  /\ \A i \in first..(first + run - 1) : s[i] = s[first]
         /\ \A i \in (first + run)..n : s[i] < s[first]
<1>1. \A i \in 1..n : s[i] \in Nat
  BY PowerFacts
<1>2. ASSUME NEW i \in first..(first + run - 1)
      PROVE  s[i] = s[first]
  <2>1. i \in 1..n /\ first + run - 1 \in 1..n /\ first <= i /\ i <= first + run - 1
    BY DEF IsRun
  <2>2. s[first] >= s[i] /\ s[i] >= s[first + run - 1] /\ s[first] = s[first + run - 1]
    BY <2>1 DEF Descends, IsRun
  <2> QED
    BY <1>1, <2>1, <2>2
<1>3. ASSUME NEW i \in (first + run)..n
      PROVE  s[i] < s[first]
  <2>1. i \in 1..n /\ first + run \in 1..n /\ first <= first + run /\ first + run <= i
    OBVIOUS
  <2>2. s[first] >= s[first + run] /\ s[first + run] >= s[i] /\ s[first] # s[first + run]
    BY <2>1 DEF Descends, IsRun
  <2> QED
    BY <1>1, <2>1, <2>2
<1> QED
  BY <1>2, <1>3

(* A run that is short enough joins the finished ones after it.            *)
LEMMA FinishRun ==
  ASSUME NEW n \in Nat, NEW s \in [1..n -> Powers], Descends(s, n),
         NEW first \in 1..n, NEW run \in Nat, IsRun(s, n, first, run),
         RunsUnder(s, first + run, n, 4), 2 * run < K + 4
  PROVE  RunsUnder(s, first, n, 4)
<1> SUFFICES ASSUME NEW i \in first..n, NEW j \in first..n, i <= j, s[i] = s[j]
             PROVE  2 * (j - i + 1) < K + 4
  BY DEF RunsUnder
<1> USE HistogramAssumption
<1>1. \A q \in 1..n : s[q] \in Nat
  BY PowerFacts
<1>2. CASE first + run <= i
  <2>1. i \in (first + run)..n /\ j \in (first + run)..n
    BY <1>2
  <2> QED
    BY <2>1 DEF RunsUnder
<1>3. CASE i <= first + run - 1
  <2>1. s[i] = s[first]
    BY <1>3, RunFacts
  <2>2. ~ (first + run <= j)
    <3>1. ASSUME first + run <= j
          PROVE  FALSE
      <4>1. j \in (first + run)..n /\ j \in 1..n /\ first \in 1..n
        BY <3>1
      <4>2. s[j] < s[first]
        BY <4>1, RunFacts
      <4> QED
        BY <1>1, <2>1, <4>1, <4>2
    <3> QED
      BY <3>1
  <2> QED
    BY <1>3, <2>2
<1> QED
  BY <1>2, <1>3

(* Merging the two oldest buckets of a run that is one too long.           *)
LEMMA MergeRun ==
  ASSUME NEW n \in Nat, NEW s \in [1..n -> Powers], Descends(s, n),
         NEW k \in 1..(n - 1), NEW run \in Nat, IsRun(s, n, k, run), 2 * run >= K + 4,
         k > 1 => s[k - 1] # s[k],
         RunsUnder(s, 1, k - 1, 4), RunsUnder(s, 1, n, 6), RunsUnder(s, k + run, n, 4),
         NEW r, r = [i \in 1..(n - 1) |-> IF i < k THEN s[i]
                                          ELSE IF i = k THEN s[k] + s[k + 1] ELSE s[i + 1]]
  PROVE  /\ r \in [1..(n - 1) -> Powers]
         /\ Descends(r, n - 1)
         /\ \A i \in (k + 1)..(n - 1) : r[i] < r[k]
         /\ RunsUnder(r, 1, k - 1, 4)
         /\ RunsUnder(r, 1, n - 1, 6)
         /\ RunsUnder(r, k + 1, n - 1, 4)
<1> USE HistogramAssumption
<1> DEFINE v == s[k]
<1>1. \A i \in 1..n : s[i] \in Nat /\ s[i] \in Powers /\ s[i] >= 1
  BY PowerFacts
<1>2. /\ run >= 3 /\ k + run - 1 <= n
      /\ \A i \in k..(k + run - 1) : s[i] = v
      /\ \A i \in (k + run)..n : s[i] < v
  <2>1. k \in 1..n
    OBVIOUS
  <2>2. /\ \A i \in k..(k + run - 1) : s[i] = s[k]
        /\ \A i \in (k + run)..n : s[i] < s[k]
    BY <2>1, RunFacts
  <2>3. run >= 3 /\ k + run - 1 <= n
    BY DEF IsRun
  <2> QED
    BY <2>2, <2>3
<1>3. s[k + 1] = v
  <2>1. k + 1 \in k..(k + run - 1)
    BY <1>2
  <2> QED
    BY <1>2, <2>1
<1>4. ASSUME NEW i \in 1..(k - 1)
      PROVE  r[i] = s[i] /\ s[i] >= 2 * v /\ i \in 1..n
  <2>1. i \in 1..n /\ k - 1 \in 1..n /\ k \in 1..n /\ i <= k - 1 /\ k - 1 <= k
    OBVIOUS
  <2>2. s[i] >= s[k - 1] /\ s[k - 1] >= v /\ s[k - 1] # v
    BY <2>1 DEF Descends
  <2>3. v < s[i]
    BY <1>1, <2>1, <2>2, SMTT(60)
  <2>4. 2 * v <= s[i]
    BY <1>1, <2>1, <2>3, PowersApart
  <2>5. i \in 1..(n - 1) /\ i < k
    OBVIOUS
  <2> QED
    BY <1>1, <2>1, <2>4, <2>5
<1>5. r[k] = 2 * v /\ k \in 1..n /\ v \in Nat /\ v >= 1 /\ v \in Powers
  BY <1>1, <1>3
<1>6. ASSUME NEW i \in (k + 1)..(n - 1)
      PROVE  r[i] = s[i + 1] /\ s[i + 1] <= v /\ i + 1 \in 1..n
  <2>1. i + 1 \in 1..n /\ k \in 1..n /\ k <= i + 1 /\ i \in 1..(n - 1) /\ ~ (i < k) /\ i # k
    OBVIOUS
  <2> QED
    BY <2>1 DEF Descends
<1>7. \A i \in 1..(n - 1) : i \in 1..(k - 1) \/ i = k \/ i \in (k + 1)..(n - 1)
  OBVIOUS
<1>8. \A i \in 1..(n - 1) : r[i] \in Powers /\ r[i] \in Nat
  <2>1. 2 * v \in Powers
    BY <1>5, PowerFacts
  <2> QED
    BY <1>1, <1>4, <1>5, <1>6, <1>7, <2>1, PowerFacts
<1>9. DOMAIN r = 1..(n - 1) /\ r \in [1..(n - 1) -> Powers]
  BY <1>8
<1>10. \A i \in (k + 1)..(n - 1) : r[i] < r[k]
  <2>1. ASSUME NEW i \in (k + 1)..(n - 1)
        PROVE  r[i] < r[k]
    <3> HIDE DEF v
    <3>1. i \in 1..(n - 1)
      OBVIOUS
    <3>2. r[i] = s[i + 1] /\ s[i + 1] <= v
      BY <1>6
    <3>3. r[i] \in Nat /\ r[k] = 2 * v /\ v \in Nat /\ v >= 1
      BY <1>5, <1>8, <3>1
    <3> QED
      BY <3>2, <3>3
  <2> QED
    BY <2>1
<1> HIDE DEF v
<1>11. Descends(r, n - 1)
  <2> SUFFICES ASSUME NEW i \in 1..(n - 1), NEW j \in 1..(n - 1), i <= j
               PROVE  r[i] >= r[j]
    BY DEF Descends
  <2>1. CASE j \in 1..(k - 1)
    <3>1. i \in 1..(k - 1)
      BY <2>1
    <3>2. s[i] >= s[j]
      BY <1>4, <2>1, <3>1 DEF Descends
    <3> QED
      BY <1>4, <2>1, <3>1, <3>2
  <2>2. CASE j = k
    <3>1. CASE i = k
      BY <1>8, <2>2, <3>1
    <3>2. CASE i \in 1..(k - 1)
      BY <1>4, <1>5, <2>2, <3>2
    <3> QED
      BY <2>2, <3>1, <3>2
  <2>3. CASE j \in (k + 1)..(n - 1)
    <3>1. r[j] <= v /\ r[j] \in Nat
      BY <1>6, <1>8, <2>3
    <3>2. CASE i \in 1..(k - 1)
      <4>1. r[i] >= 2 * v /\ r[i] \in Nat
        BY <1>4, <1>8, <3>2
      <4> QED
        BY <1>5, <3>1, <4>1, SMTT(60)
    <3>3. CASE i = k
      BY <1>5, <3>1, <3>3
    <3>4. CASE i \in (k + 1)..(n - 1)
      <4>1. i + 1 <= j + 1
        OBVIOUS
      <4>2. s[i + 1] >= s[j + 1]
        BY <1>6, <2>3, <3>4, <4>1 DEF Descends
      <4> QED
        BY <1>6, <2>3, <3>4, <4>2
    <3> QED
      BY <1>7, <3>2, <3>3, <3>4
  <2> QED
    BY <1>7, <2>1, <2>2, <2>3
<1>12. RunsUnder(r, 1, k - 1, 4)
  BY <1>4 DEF RunsUnder
<1>13. RunsUnder(r, k + 1, n - 1, 4)
  <2> SUFFICES ASSUME NEW i \in (k + 1)..(n - 1), NEW j \in (k + 1)..(n - 1), i <= j, r[i] = r[j]
               PROVE  2 * (j - i + 1) < K + 4
    BY DEF RunsUnder
  <2>1. s[i + 1] = s[j + 1] /\ i + 1 \in 1..n /\ j + 1 \in 1..n
    BY <1>6
  <2>2. CASE k + run <= i + 1
    <3>1. i + 1 \in (k + run)..n /\ j + 1 \in (k + run)..n /\ i + 1 <= j + 1
      BY <2>2
    <3>2. 2 * ((j + 1) - (i + 1) + 1) < K + 4
      BY <2>1, <3>1 DEF RunsUnder
    <3> QED
      BY <3>2
  <2>3. CASE i + 1 <= k + run - 1
    <3>1. i + 1 \in k..(k + run - 1)
      BY <2>3
    <3>2. s[i + 1] = v
      BY <1>2, <3>1
    <3>3. ~ (k + run <= j + 1)
      <4>1. ASSUME k + run <= j + 1
            PROVE  FALSE
        <5>1. j + 1 \in (k + run)..n
          BY <4>1
        <5>2. s[j + 1] < v
          BY <1>2, <5>1
        <5> QED
          BY <1>5, <2>1, <3>2, <5>2
      <4> QED
        BY <4>1
    <3>4. 2 * run < K + 6
      <4>1. k + run - 1 \in 1..n /\ k <= k + run - 1 /\ s[k] = s[k + run - 1] /\ k \in 1..n
        BY <1>2, <1>5 DEF IsRun
      <4>2. 2 * ((k + run - 1) - k + 1) < K + 6
        BY <4>1 DEF RunsUnder
      <4> QED
        BY <4>2
    <3> QED
      BY <1>2, <3>3, <3>4
  <2> QED
    BY <1>2, <2>2, <2>3
<1>14. RunsUnder(r, 1, n - 1, 6)
  <2> SUFFICES ASSUME NEW i \in 1..(n - 1), NEW j \in 1..(n - 1), i <= j, r[i] = r[j]
               PROVE  2 * (j - i + 1) < K + 6
    BY DEF RunsUnder
  <2>1. CASE j \in 1..(k - 1)
    <3>1. i \in 1..(k - 1)
      BY <2>1
    <3>2. 2 * (j - i + 1) < K + 4
      BY <1>12, <2>1, <3>1 DEF RunsUnder
    <3> QED
      BY <3>2
  <2>2. CASE i = k /\ j = k
    BY <2>2
  <2>3. CASE i \in 1..(k - 1) /\ j = k
    <3>1. k - 1 \in 1..(k - 1) /\ i <= k - 1 /\ k - 1 \in 1..n /\ i \in 1..n
      BY <2>3
    <3>2. s[i] = 2 * v /\ s[i] >= s[k - 1] /\ s[k - 1] >= 2 * v
      BY <1>4, <1>5, <2>3, <3>1 DEF Descends
    <3>3. s[i] = s[k - 1]
      BY <1>1, <1>5, <3>1, <3>2, SMTT(60)
    <3>4. 2 * ((k - 1) - i + 1) < K + 4
      BY <2>3, <3>1, <3>3 DEF RunsUnder
    <3> QED
      BY <2>3, <3>4
  <2>4. CASE i \in 1..(k - 1) /\ j \in (k + 1)..(n - 1)
    <3>1. r[i] >= 2 * v /\ r[j] <= v
      BY <1>4, <1>6, <2>4
    <3>2. r[i] \in Nat /\ r[j] \in Nat
      BY <1>8
    <3> QED
      BY <1>5, <3>1, <3>2
  <2>5. CASE i = k /\ j \in (k + 1)..(n - 1)
    <3>1. r[j] < r[i] /\ r[j] \in Nat
      BY <1>8, <1>10, <2>5
    <3> QED
      BY <3>1
  <2>6. CASE i \in (k + 1)..(n - 1) /\ j \in (k + 1)..(n - 1)
    <3>1. 2 * (j - i + 1) < K + 4
      BY <1>13, <2>6 DEF RunsUnder
    <3> QED
      BY <3>1
  <2> QED
    BY <1>7, <2>1, <2>2, <2>3, <2>4, <2>5, <2>6
<1> QED
  BY <1>9, <1>10, <1>11, <1>12, <1>13, <1>14


(* The loop of merge_volumes_l1 over sizes s: buckets 1 to a are still to  *)
(* be looked at, the run at a + 1 is c long so far, and what is newer than *)
(* it is finished.  No run is more than one too long.                      *)
Looping(s, n, a, c) ==
  /\ a < n
  /\ IsRun(s, n, a + 1, c)
  /\ RunsUnder(s, 1, n, 6)
  /\ RunsUnder(s, 1, a, 4)
  /\ RunsUnder(s, a + 1 + c, n, 4)

LEMMA CountTurn ==
  ASSUME NEW n \in Nat, NEW s \in [1..n -> Powers], NEW a \in Nat \ {0}, NEW c \in Nat,
         Looping(s, n, a, c), s[a] = s[a + 1]
  PROVE  Looping(s, n, a - 1, c + 1)
<1>1. (a - 1) + 1 = a /\ a - 1 < n /\ (a - 1) + 1 + (c + 1) = a + 1 + c /\ a + 1 + c = (a + 1) + c
      /\ a + (c + 1) - 1 = (a + 1) + c - 1 /\ a + (c + 1) = (a + 1) + c
  BY DEF Looping
<1>2. IsRun(s, n, a, c + 1)
  <2>1. /\ c >= 1
        /\ (a + 1) + c - 1 <= n
        /\ s[a + 1] = s[(a + 1) + c - 1]
        /\ (a + 1) + c <= n => s[a + 1] # s[(a + 1) + c]
    BY DEF Looping, IsRun
  <2>2. c + 1 >= 1
    OBVIOUS
  <2> QED
    BY <1>1, <2>1, <2>2 DEF IsRun
<1>3. RunsUnder(s, 1, a - 1, 4)
  BY DEF Looping, RunsUnder
<1> QED
  BY <1>1, <1>2, <1>3 DEF Looping

LEMMA EndTurn ==
  ASSUME NEW n \in Nat, NEW s \in [1..n -> Powers], Descends(s, n),
         NEW a \in Nat \ {0}, NEW c \in Nat,
         Looping(s, n, a, c), s[a] # s[a + 1], 2 * c < K + 4
  PROVE  Looping(s, n, a - 1, 1)
<1>1. (a - 1) + 1 = a /\ a - 1 < n /\ a + 1 \in 1..n
  BY DEF Looping
<1>2. IsRun(s, n, a, 1)
  <2>1. a + 1 - 1 = a /\ a <= n /\ 1 >= 1
    BY <1>1
  <2> QED
    BY <2>1 DEF IsRun
<1>3. RunsUnder(s, 1, a - 1, 4)
  BY DEF Looping, RunsUnder
<1>4. RunsUnder(s, a + 1, n, 4)
  <2>1. IsRun(s, n, a + 1, c) /\ RunsUnder(s, (a + 1) + c, n, 4)
    BY DEF Looping
  <2> QED
    BY <1>1, <2>1, FinishRun
<1> QED
  BY <1>1, <1>2, <1>3, <1>4 DEF Looping

Merging(s, n, k) ==
  [i \in 1..(n - 1) |-> IF i < k THEN s[i]
                        ELSE IF i = k THEN s[k] + s[k + 1] ELSE s[i + 1]]

LEMMA MergeTurn ==
  ASSUME NEW n \in Nat, NEW s \in [1..n -> Powers], Descends(s, n),
         NEW a \in Nat, NEW c \in Nat,
         Looping(s, n, a, c), a > 0 => s[a] # s[a + 1], 2 * c >= K + 4,
         NEW r, r = Merging(s, n, a + 1)
  PROVE  /\ a + 1 \in 1..(n - 1)
         /\ r \in [1..(n - 1) -> Powers]
         /\ Descends(r, n - 1)
         /\ a > 1 => Looping(r, n - 1, a - 1, IF r[a + 1] = r[a] THEN 2 ELSE 1)
         /\ a <= 1 => RunsUnder(r, 1, n - 1, 4)
<1> USE HistogramAssumption
<1>1. c >= 3 /\ a + 1 + c - 1 <= n
  BY DEF Looping, IsRun
<1>2. PICK k \in 1..(n - 1) : k = a + 1
  BY <1>1
<1>3. /\ r \in [1..(n - 1) -> Powers]
      /\ Descends(r, n - 1)
      /\ \A i \in (k + 1)..(n - 1) : r[i] < r[k]
      /\ RunsUnder(r, 1, k - 1, 4)
      /\ RunsUnder(r, 1, n - 1, 6)
      /\ RunsUnder(r, k + 1, n - 1, 4)
  <2>1. IsRun(s, n, k, c) /\ RunsUnder(s, 1, n, 6) /\ RunsUnder(s, k + c, n, 4)
    BY <1>2 DEF Looping
  <2>2. k - 1 = a
    BY <1>2
  <2>3. RunsUnder(s, 1, k - 1, 4) /\ (k > 1 => s[k - 1] # s[k])
    BY <1>2, <2>2 DEF Looping
  <2>4. r = [i \in 1..(n - 1) |-> IF i < k THEN s[i]
                                  ELSE IF i = k THEN s[k] + s[k + 1] ELSE s[i + 1]]
    BY <1>2 DEF Merging
  <2> QED
    BY <2>1, <2>3, <2>4, MergeRun
<1>4. \A i \in 1..(n - 1) : r[i] \in Nat
  BY <1>3, PowerFacts
<1>5. a + 1 \in 1..(n - 1) /\ k - 1 = a /\ a + 2 <= n - 1
  BY <1>1, <1>2
<1>6. RunsUnder(r, k, n - 1, 4)
  <2> SUFFICES ASSUME NEW i \in k..(n - 1), NEW j \in k..(n - 1), i <= j, r[i] = r[j]
               PROVE  2 * (j - i + 1) < K + 4
    BY DEF RunsUnder
  <2>1. CASE i \in (k + 1)..(n - 1)
    <3>1. j \in (k + 1)..(n - 1)
      BY <2>1
    <3> QED
      BY <1>3, <2>1, <3>1 DEF RunsUnder
  <2>2. CASE i = k /\ j = k
    BY <2>2
  <2>3. CASE i = k /\ j \in (k + 1)..(n - 1)
    <3>1. r[j] < r[k] /\ r[j] \in Nat
      BY <1>3, <1>4, <2>3
    <3> QED
      BY <2>3, <3>1
  <2> QED
    BY <2>1, <2>2, <2>3
<1>7. ASSUME a <= 1
      PROVE  RunsUnder(r, 1, n - 1, 4)
  <2> SUFFICES ASSUME NEW i \in 1..(n - 1), NEW j \in 1..(n - 1), i <= j, r[i] = r[j]
               PROVE  2 * (j - i + 1) < K + 4
    BY DEF RunsUnder
  <2>1. CASE i \in k..(n - 1)
    <3>1. j \in k..(n - 1)
      BY <2>1
    <3> QED
      BY <1>6, <2>1, <3>1 DEF RunsUnder
  <2>2. CASE i < k
    <3>1. i = 1 /\ k = 2 /\ k \in 1..(n - 1)
      BY <1>2, <1>7, <2>2
    <3>2. CASE j <= 2
      BY <3>1, <3>2
    <3>3. CASE j > 2
      <4>1. j \in (k + 1)..(n - 1)
        BY <3>1, <3>3
      <4>2. r[j] < r[k] /\ r[i] >= r[k]
        BY <1>3, <3>1, <4>1 DEF Descends
      <4>3. r[j] \in Nat /\ r[k] \in Nat
        BY <1>4
      <4> QED
        BY <4>2, <4>3
    <3> QED
      BY <3>2, <3>3
  <2> QED
    BY <2>1, <2>2
<1>8. ASSUME a > 1
      PROVE  Looping(r, n - 1, a - 1, IF r[a + 1] = r[a] THEN 2 ELSE 1)
  <2>1. (a - 1) + 1 = a /\ a - 1 < n - 1 /\ a \in 1..(n - 1)
    BY <1>5, <1>8
  <2>2. RunsUnder(r, 1, a - 1, 4)
    BY <1>3, <1>5 DEF RunsUnder
  <2>3. CASE r[a + 1] = r[a]
    <3>1. a + 2 - 1 = a + 1 /\ a + 2 - 1 <= n - 1 /\ 2 >= 1
      BY <1>5
    <3>2. a + 2 \in (k + 1)..(n - 1) /\ k \in 1..(n - 1) /\ a + 2 \in 1..(n - 1)
      BY <1>2, <1>5
    <3>3. r[a + 2] < r[k] /\ r[a + 2] \in Nat /\ r[k] \in Nat
      BY <1>3, <1>4, <3>2
    <3>4. r[a] # r[a + 2]
      BY <1>2, <2>3, <3>3
    <3>5. IsRun(r, n - 1, a, 2)
      BY <2>3, <3>1, <3>4 DEF IsRun
    <3>6. RunsUnder(r, a + 2, n - 1, 4)
      <4>1. a + 2 = k + 1
        BY <1>2
      <4> QED
        BY <1>3, <4>1
    <3> QED
      BY <1>3, <2>1, <2>2, <2>3, <3>5, <3>6 DEF Looping
  <2>4. CASE r[a + 1] # r[a]
    <3>1. IsRun(r, n - 1, a, 1)
      <4>1. a + 1 - 1 = a /\ a + 1 - 1 <= n - 1 /\ 1 >= 1
        BY <1>5
      <4> QED
        BY <2>4, <4>1 DEF IsRun
    <3>2. RunsUnder(r, a + 1, n - 1, 4)
      BY <1>2, <1>6
    <3> QED
      BY <1>3, <2>1, <2>2, <2>4, <3>1, <3>2 DEF Looping
  <2> QED
    BY <2>3, <2>4
<1> QED
  BY <1>3, <1>5, <1>7, <1>8

(* The sizes of the buckets, and what the L1 rule keeps of them.           *)
Sizes == [i \in 1..Len(payload) |-> payload[i].size]

Sized ==
  norm = "L1" /\ OneKind =>
    /\ phase # "l2"
    /\ Sizes \in [1..Len(payload) -> Powers]
    /\ Descends(Sizes, Len(payload))
    /\ phase = "idle" => RunsUnder(Sizes, 1, Len(payload), 4)
    /\ phase = "l1" => Looping(Sizes, Len(payload), at, same)
    /\ phase = "l1_oldest" =>
         \/ Looping(Sizes, Len(payload), 0, same)
         \/ same = 1 /\ RunsUnder(Sizes, 1, Len(payload), 4)

LEMMA MergedSizes ==
  ASSUME Inv, NEW k \in 1..(Len(payload) - 1), ~Refuses(k), payload' = MergedAt(k)
  PROVE  /\ Len(payload') = Len(payload) - 1
         /\ Sizes' = Merging(Sizes, Len(payload), k)
         /\ \A i \in 1..(Len(payload) - 1) : payload'[i].size = Sizes'[i]
<1> DEFINE n == Len(payload)
<1>0. n \in Nat
  BY InvFacts
<1>1. /\ Len(payload') = n - 1
      /\ payload'[k].size = payload[k].size + payload[k + 1].size
      /\ \A i \in 1..(k - 1) : payload'[i] = payload[i]
      /\ \A i \in (k + 1)..(n - 1) : payload'[i] = payload[i + 1]
  BY MergedRow DEF Inv
<1>2. Sizes' = [i \in 1..(n - 1) |-> payload'[i].size]
  BY <1>1 DEF Sizes
<1>3. ASSUME NEW i \in 1..(n - 1)
      PROVE  payload'[i].size = Merging(Sizes, n, k)[i]
  <2>1. Merging(Sizes, n, k)[i] = IF i < k THEN Sizes[i]
                                  ELSE IF i = k THEN Sizes[k] + Sizes[k + 1] ELSE Sizes[i + 1]
    BY DEF Merging
  <2>2. \A j \in 1..n : Sizes[j] = payload[j].size
    BY DEF Sizes
  <2>3. i \in 1..n /\ i + 1 \in 1..n /\ k \in 1..n /\ k + 1 \in 1..n
    BY <1>0
  <2>4. CASE i < k
    <3>1. i \in 1..(k - 1)
      BY <2>4
    <3> QED
      BY <1>1, <2>1, <2>2, <2>3, <2>4, <3>1
  <2>5. CASE i = k
    BY <1>1, <2>1, <2>2, <2>3, <2>5
  <2>6. CASE i > k
    <3>1. i \in (k + 1)..(n - 1) /\ ~ (i < k) /\ i # k
      BY <2>6
    <3> QED
      BY <1>1, <2>1, <2>2, <2>3, <3>1
  <2> QED
    BY <2>4, <2>5, <2>6
<1>4. Sizes' = Merging(Sizes, n, k)
  BY <1>2, <1>3 DEF Merging
<1> QED
  BY <1>1, <1>2, <1>4


(* A new bucket of size one puts at most the newest run over its limit.    *)
LEMMA UpdateKeepsSized ==
  ASSUME Inv, Sized,
         NEW time \in Times, NEW key \in Keys, NEW weight \in Weights, NEW kind \in Kinds,
         UpdateWith(time, key, weight, kind)
  PROVE  Sized'
<1> USE HistogramAssumption
<1> DEFINE n     == Len(payload)
           entry == [time |-> time, key |-> key, weight |-> weight, kind |-> kind]
<1>0. /\ phase = "idle" /\ norm' = norm /\ log' = Append(log, entry)
      /\ \/ norm = "L2"
         \/ Len(payload') < 2 /\ phase' = "idle"
         \/ ~ (Len(payload') < 2) /\ phase' = "l1" /\ at' = Len(payload') - 1 /\ same' = 1
  BY DEF UpdateWith, loopVars
<1> SUFFICES ASSUME norm = "L1", OneKind'
             PROVE  /\ phase' # "l2"
                    /\ Sizes' \in [1..Len(payload') -> Powers]
                    /\ Descends(Sizes', Len(payload'))
                    /\ phase' = "idle" => RunsUnder(Sizes', 1, Len(payload'), 4)
                    /\ phase' = "l1" => Looping(Sizes', Len(payload'), at', same')
                    /\ phase' # "l1_oldest"
  BY <1>0 DEF Sized
<1>1. OneKind
  <2>1. \A o \in DOMAIN log : o \in DOMAIN log' /\ log'[o] = log[o]
    <3>1. log \in Seq(Entries) /\ entry \in Entries
      BY DEF Inv, Scalars, Entries
    <3> HIDE DEF entry
    <3> QED
      BY <1>0, <3>1
  <2> QED
    BY <2>1 DEF OneKind
<1> HIDE DEF entry
<1>2. /\ n \in Nat
      /\ Sizes \in [1..n -> Powers]
      /\ Descends(Sizes, n)
      /\ RunsUnder(Sizes, 1, n, 4)
  BY <1>0, <1>1, InvFacts DEF Sized
<1>3. PICK d \in 1..(n + 1) : UpdatedFrom(d, time, kind)
  BY UpdatedRow DEF Inv
<1>4. PICK m \in Nat : m = n - d + 1
  BY <1>2
<1>5. /\ Len(payload') = m + 1
      /\ \A i \in 1..m : payload'[i] = payload[i + d - 1]
      /\ payload'[m + 1].size = 1
  <2>1. m + 1 = n - d + 2
    BY <1>2, <1>4
  <2> QED
    BY <1>3, <1>4, <2>1 DEF UpdatedFrom
<1>6. PICK r : r = Sizes'
  OBVIOUS
<1>7. r = [i \in 1..(m + 1) |-> payload'[i].size]
  BY <1>5, <1>6 DEF Sizes
<1>8. ASSUME NEW i \in 1..m
      PROVE  i + d - 1 \in 1..n /\ i \in 1..(m + 1) /\ r[i] = Sizes[i + d - 1]
  <2>1. i + d - 1 \in 1..n /\ i \in 1..(m + 1)
    BY <1>2, <1>4
  <2>2. r[i] = payload'[i].size /\ payload'[i] = payload[i + d - 1]
    BY <1>5, <1>7, <2>1
  <2> QED
    BY <2>1, <2>2 DEF Sizes
<1>9. r[m + 1] = 1 /\ m + 1 \in 1..(m + 1)
  BY <1>5, <1>7
<1>10. \A i \in 1..(m + 1) : i \in 1..m \/ i = m + 1
  OBVIOUS
<1>11. \A i \in 1..(m + 1) : r[i] \in Powers /\ r[i] \in Nat /\ r[i] >= 1
  BY <1>2, <1>8, <1>9, <1>10, PowerFacts
<1>12. r \in [1..(m + 1) -> Powers]
  BY <1>7, <1>11
<1>13. ASSUME NEW i \in 1..m, NEW j \in 1..m, i <= j
       PROVE  r[i] >= r[j]
  <2>1. i + d - 1 <= j + d - 1
    BY <1>13
  <2> QED
    BY <1>2, <1>8, <2>1 DEF Descends
<1>14. Descends(r, m + 1)
  <2> SUFFICES ASSUME NEW i \in 1..(m + 1), NEW j \in 1..(m + 1), i <= j
               PROVE  r[i] >= r[j]
    BY DEF Descends
  <2>1. CASE j = m + 1
    BY <1>9, <1>11, <2>1
  <2>2. CASE j \in 1..m
    <3>1. i \in 1..m
      BY <2>2
    <3> QED
      BY <1>13, <2>2, <3>1
  <2> QED
    BY <1>10, <2>1, <2>2
<1>15. RunsUnder(r, 1, m, 4)
  <2> SUFFICES ASSUME NEW i \in 1..m, NEW j \in 1..m, i <= j, r[i] = r[j]
               PROVE  2 * (j - i + 1) < K + 4
    BY DEF RunsUnder
  <2>1. Sizes[i + d - 1] = Sizes[j + d - 1] /\ i + d - 1 <= j + d - 1
        /\ i + d - 1 \in 1..n /\ j + d - 1 \in 1..n
    BY <1>8
  <2>2. 2 * ((j + d - 1) - (i + d - 1) + 1) < K + 4
    BY <1>2, <2>1 DEF RunsUnder
  <2> QED
    BY <2>2
<1>16. RunsUnder(r, 1, m + 1, 6)
  <2> SUFFICES ASSUME NEW i \in 1..(m + 1), NEW j \in 1..(m + 1), i <= j, r[i] = r[j]
               PROVE  2 * (j - i + 1) < K + 6
    BY DEF RunsUnder
  <2>1. CASE j \in 1..m
    <3>1. i \in 1..m
      BY <2>1
    <3>2. 2 * (j - i + 1) < K + 4
      BY <1>15, <2>1, <3>1 DEF RunsUnder
    <3> QED
      BY <3>2
  <2>2. CASE i = m + 1 /\ j = m + 1
    BY <2>2
  <2>3. CASE i \in 1..m /\ j = m + 1
    <3>1. m \in 1..m /\ i <= m /\ m \in 1..(m + 1)
      BY <2>3
    <3>2. r[i] = 1 /\ r[m] <= r[i]
      BY <1>9, <1>13, <2>3, <3>1
    <3>3. r[i] = r[m]
      BY <1>11, <3>1, <3>2
    <3>4. 2 * (m - i + 1) < K + 4
      BY <1>15, <2>3, <3>1, <3>3 DEF RunsUnder
    <3> QED
      BY <2>3, <3>4
  <2> QED
    BY <1>10, <2>1, <2>2, <2>3
<1>17. Looping(r, m + 1, m, 1)
  <2>1. IsRun(r, m + 1, m + 1, 1)
    BY <1>9 DEF IsRun
  <2>2. RunsUnder(r, m + 1 + 1, m + 1, 4)
    BY DEF RunsUnder
  <2> QED
    BY <1>15, <1>16, <2>1, <2>2 DEF Looping
<1>18. Len(payload') < 2 => RunsUnder(r, 1, m + 1, 4)
  <2> SUFFICES ASSUME m + 1 < 2
               PROVE  RunsUnder(r, 1, m + 1, 4)
    BY <1>5
  <2>1. \A i \in 1..(m + 1) : i = 1
    OBVIOUS
  <2> QED
    BY <2>1 DEF RunsUnder
<1>19. /\ phase' # "l2" /\ phase' # "l1_oldest"
       /\ phase' = "idle" => Len(payload') < 2
       /\ phase' = "l1" => at' = m /\ same' = 1
  BY <1>0, <1>5
<1> QED
  BY <1>5, <1>6, <1>12, <1>14, <1>17, <1>18, <1>19

(* Merging in the loop never refuses when all sketches are of one kind.    *)
LEMMA NeverRefuses ==
  ASSUME Inv, EndsTaken, OneKind, NEW k \in 1..(Len(payload) - 1)
  PROVE  ~Refuses(k)
<1>1. k \in 1..Len(payload) /\ k + 1 \in 1..Len(payload)
  BY InvFacts
<1> QED
  BY <1>1, OneKindBuckets DEF Refuses

LEMMA EndRunKeepsSized ==
  ASSUME Inv, EndsTaken, Sized, EndRun
  PROVE  Sized'
<1> USE HistogramAssumption
<1>0. /\ phase = "l1" /\ norm' = norm /\ log' = log
      /\ payload[at].size # payload[at + 1].size
      /\ payload' = IF RunTooLong(same) THEN MergedAt(at + 1) ELSE payload
      /\ same' = IF /\ at + 1 <= Len(payload')
                    /\ at > 1
                    /\ payload'[at + 1].size = payload'[at].size
                 THEN 2 ELSE 1
      /\ \/ at = 1 /\ phase' = "l1_oldest" /\ at' = 0
         \/ at # 1 /\ phase' = "l1" /\ at' = at - 1
  BY DEF EndRun, NextOlder, history
<1> SUFFICES ASSUME norm = "L1", OneKind
             PROVE  /\ Sizes' \in [1..Len(payload') -> Powers]
                    /\ Descends(Sizes', Len(payload'))
                    /\ phase' = "l1" => Looping(Sizes', Len(payload'), at', same')
                    /\ phase' = "l1_oldest" =>
                         \/ Looping(Sizes', Len(payload'), 0, same')
                         \/ same' = 1 /\ RunsUnder(Sizes', 1, Len(payload'), 4)
  BY <1>0 DEF Sized, OneKind
<1> DEFINE n == Len(payload)
<1>1. /\ n \in Nat /\ at \in Nat \ {0} /\ same \in Nat
      /\ Sizes \in [1..n -> Powers]
      /\ Descends(Sizes, n)
      /\ Looping(Sizes, n, at, same)
  BY <1>0, InvFacts DEF Sized, Inv, Scalars, Counting
<1>2. at < n /\ at \in 1..n /\ at + 1 \in 1..n
  BY <1>1 DEF Looping
<1>3. Sizes[at] # Sizes[at + 1]
  BY <1>0, <1>2 DEF Sizes
<1>4. CASE RunTooLong(same)
  <2>1. 2 * same >= K + 4
    BY <1>4 DEF RunTooLong
  <2>2. PICK r : r = Merging(Sizes, n, at + 1)
    OBVIOUS
  <2>3. /\ at + 1 \in 1..(n - 1)
        /\ r \in [1..(n - 1) -> Powers]
        /\ Descends(r, n - 1)
        /\ at > 1 => Looping(r, n - 1, at - 1, IF r[at + 1] = r[at] THEN 2 ELSE 1)
        /\ at <= 1 => RunsUnder(r, 1, n - 1, 4)
    BY <1>1, <1>3, <2>1, <2>2, MergeTurn
  <2>4. PICK k \in 1..(n - 1) : k = at + 1
    BY <2>3
  <2>5. ~Refuses(k) /\ payload' = MergedAt(k)
    BY <1>0, <1>4, <2>4, NeverRefuses
  <2>6. Len(payload') = n - 1 /\ Sizes' = r /\ \A i \in 1..(n - 1) : payload'[i].size = r[i]
    BY <2>2, <2>4, <2>5, MergedSizes
  <2>7. CASE at = 1
    BY <1>0, <2>3, <2>6, <2>7
  <2>8. CASE at # 1
    <3>1. at > 1 /\ at \in 1..(n - 1) /\ at + 1 \in 1..(n - 1) /\ at + 1 <= n - 1
      BY <1>1, <2>3, <2>8
    <3>2. same' = IF r[at + 1] = r[at] THEN 2 ELSE 1
      BY <1>0, <2>6, <3>1
    <3> QED
      BY <1>0, <2>3, <2>6, <2>8, <3>1, <3>2
  <2> QED
    BY <2>7, <2>8
<1>5. CASE ~ RunTooLong(same)
  <2>1. 2 * same < K + 4
    BY <1>1, <1>5 DEF RunTooLong
  <2>2. payload' = payload /\ same' = 1
    BY <1>0, <1>5
  <2>3. Sizes' = Sizes
    BY <2>2 DEF Sizes
  <2>4. Looping(Sizes, n, at - 1, 1)
    BY <1>1, <1>3, <2>1, EndTurn
  <2>5. at = 1 => at - 1 = 0
    OBVIOUS
  <2> QED
    BY <1>0, <1>1, <2>2, <2>3, <2>4, <2>5
<1> QED
  BY <1>4, <1>5

LEMMA CountSameKeepsSized ==
  ASSUME Inv, Sized, CountSame
  PROVE  Sized'
<1>0. /\ phase = "l1" /\ norm' = norm /\ log' = log /\ payload' = payload
      /\ payload[at].size = payload[at + 1].size
      /\ same' = same + 1
      /\ \/ at = 1 /\ phase' = "l1_oldest" /\ at' = 0
         \/ at # 1 /\ phase' = "l1" /\ at' = at - 1
  BY DEF CountSame, NextOlder, history
<1> SUFFICES ASSUME norm = "L1", OneKind
             PROVE  /\ Sizes' \in [1..Len(payload') -> Powers]
                    /\ Descends(Sizes', Len(payload'))
                    /\ phase' = "l1" => Looping(Sizes', Len(payload'), at', same')
                    /\ phase' = "l1_oldest" => Looping(Sizes', Len(payload'), 0, same')
  BY <1>0 DEF Sized, OneKind
<1> DEFINE n == Len(payload)
<1>1. /\ n \in Nat /\ at \in Nat \ {0} /\ same \in Nat
      /\ Sizes \in [1..n -> Powers]
      /\ Descends(Sizes, n)
      /\ Looping(Sizes, n, at, same)
  BY <1>0, InvFacts DEF Sized, Inv, Scalars, Counting
<1>2. at \in 1..n /\ at + 1 \in 1..n
  BY <1>1 DEF Looping
<1>3. Sizes[at] = Sizes[at + 1]
  BY <1>0, <1>2 DEF Sizes
<1>4. Looping(Sizes, n, at - 1, same + 1)
  BY <1>1, <1>3, CountTurn
<1>5. Sizes' = Sizes /\ (at = 1 => at - 1 = 0)
  BY <1>0 DEF Sizes
<1> QED
  BY <1>0, <1>1, <1>4, <1>5

LEMMA OldestKeepsSized ==
  ASSUME Inv, EndsTaken, Sized, EndOldestRun
  PROVE  Sized'
<1> USE HistogramAssumption
<1>0. /\ phase = "l1_oldest" /\ norm' = norm /\ log' = log /\ phase' = "idle"
      /\ payload' = IF Len(payload) >= 2 /\ RunTooLong(same) /\ ~Refuses(1)
                    THEN MergedAt(1) ELSE payload
  BY DEF EndOldestRun, Return, history
<1> SUFFICES ASSUME norm = "L1", OneKind
             PROVE  /\ Sizes' \in [1..Len(payload') -> Powers]
                    /\ Descends(Sizes', Len(payload'))
                    /\ RunsUnder(Sizes', 1, Len(payload'), 4)
  BY <1>0 DEF Sized, OneKind
<1> DEFINE n == Len(payload)
<1>1. /\ n \in Nat /\ same \in Nat
      /\ Sizes \in [1..n -> Powers]
      /\ Descends(Sizes, n)
      /\ \/ Looping(Sizes, n, 0, same)
         \/ same = 1 /\ RunsUnder(Sizes, 1, n, 4)
  BY <1>0, InvFacts DEF Sized, Inv, Scalars
<1>2. CASE RunTooLong(same)
  <2>1. 2 * same >= K + 4
    BY <1>2 DEF RunTooLong
  <2>2. Looping(Sizes, n, 0, same)
    BY <1>1, <2>1
  <2>3. PICK r : r = Merging(Sizes, n, 0 + 1)
    OBVIOUS
  <2>4. /\ 0 + 1 \in 1..(n - 1)
        /\ r \in [1..(n - 1) -> Powers]
        /\ Descends(r, n - 1)
        /\ 0 <= 1 => RunsUnder(r, 1, n - 1, 4)
    <3>1. 0 \in Nat /\ ~ (0 > 0)
      OBVIOUS
    <3> QED
      BY <1>1, <2>1, <2>2, <2>3, <3>1, MergeTurn
  <2>5. 1 \in 1..(n - 1) /\ r = Merging(Sizes, n, 1) /\ n >= 2
    BY <1>1, <2>3, <2>4
  <2>6. ~Refuses(1)
    BY <2>5, NeverRefuses
  <2>7. payload' = MergedAt(1)
    BY <1>0, <1>2, <2>5, <2>6
  <2>8. Len(payload') = n - 1 /\ Sizes' = r
    BY <2>5, <2>6, <2>7, MergedSizes
  <2> QED
    BY <2>4, <2>8
<1>3. CASE ~ RunTooLong(same)
  <2>1. 2 * same < K + 4
    BY <1>1, <1>3 DEF RunTooLong
  <2>2. payload' = payload
    BY <1>0, <1>3
  <2>3. Sizes' = Sizes
    BY <2>2 DEF Sizes
  <2>4. RunsUnder(Sizes, 1, n, 4)
    <3>1. CASE Looping(Sizes, n, 0, same)
      <4>1. 1 \in 1..n /\ IsRun(Sizes, n, 1, same) /\ RunsUnder(Sizes, 1 + same, n, 4)
        BY <1>1, <3>1 DEF Looping
      <4> QED
        BY <1>1, <2>1, <4>1, FinishRun
    <3> QED
      BY <1>1, <3>1
  <2> QED
    BY <1>1, <2>2, <2>3, <2>4
<1> QED
  BY <1>2, <1>3

LEMMA StepKeepsSized ==
  ASSUME Inv, Layout, Sized, [Next]_vars
  PROVE  Sized'
<1>0. EndsTaken
  BY DEF Layout
<1>1. CASE Update
  <2>1. PICK time \in Times, key \in Keys, weight \in Weights, kind \in Kinds :
          UpdateWith(time, key, weight, kind)
    BY <1>1, UpdateFacts
  <2> QED
    BY <2>1, UpdateKeepsSized
<1>2. CASE (\E w \in Windows : UpdateWindow(w)) \/ Done \/ UNCHANGED vars
  <2>1. /\ payload' = payload /\ phase' = phase /\ at' = at /\ same' = same
        /\ norm' = norm /\ log' = log
    BY <1>2 DEF UpdateWindow, loopVars, Done, vars
  <2>2. Sizes' = Sizes
    BY <2>1 DEF Sizes
  <2> QED
    BY <2>1, <2>2 DEF Sized, OneKind
<1>3. CASE CountSame
  BY <1>3, CountSameKeepsSized
<1>4. CASE EndRun
  BY <1>0, <1>4, EndRunKeepsSized
<1>5. CASE RunRefuses
  <2>1. /\ phase = "l1" /\ norm' = norm /\ log' = log /\ Refuses(at + 1)
    BY <1>5 DEF RunRefuses, history
  <2>2. at \in Nat /\ Len(payload) \in Nat
    BY InvFacts DEF Inv, Scalars
  <2>3. at + 1 \in 1..(Len(payload) - 1)
    BY <2>1, <2>2 DEF Refuses
  <2>4. ~ OneKind
    BY <1>0, <2>1, <2>3, NeverRefuses
  <2> QED
    BY <2>1, <2>4 DEF Sized, OneKind
<1>6. CASE EndOldestRun
  BY <1>0, <1>6, OldestKeepsSized
<1>7. CASE MergeCandidate \/ EndL2
  <2>1. phase = "l2" /\ norm' = norm /\ log' = log
    BY <1>7 DEF MergeCandidate, EndL2, history
  <2> QED
    BY <2>1 DEF Sized, OneKind
<1> QED
  BY <1>1, <1>2, <1>3, <1>4, <1>5, <1>6, <1>7 DEF Next

LEMMA InitSized == Init => Sized
<1> SUFFICES ASSUME Init PROVE Sized
  OBVIOUS
<1>1. phase = "idle" /\ payload = <<>> /\ Len(payload) = 0
  BY DEF Init
<1>2. 1..Len(payload) = {}
  BY <1>1
<1> QED
  BY <1>1, <1>2 DEF Sized, Sizes, Descends, RunsUnder

LEMMA SizedAlways == Spec => []Sized
<1>1. Inv /\ Layout /\ Sized /\ [Next]_vars => Sized'
  BY StepKeepsSized
<1> QED
  BY <1>1, InitSized, InvAlways, LayoutAlways, PTL DEF Spec

(* After every update by size, no k/2 + 2 buckets have one size and sizes  *)
(* do not grow from old to new: one pass of merge_volumes_l1 is enough,    *)
(* whatever expired before it and however often the window was resized.    *)
THEOREM RunsBoundedCorrect == Spec => []RunsBounded
<1>1. ASSUME Inv, Sized
      PROVE  RunsBounded
  <2> SUFFICES ASSUME norm = "L1", phase = "idle", OneKind
               PROVE  /\ \A i \in DOMAIN payload :
                           2 * Cardinality({j \in DOMAIN payload : payload[j].size = payload[i].size})
                             < K + 4
                      /\ \A i \in 1..(Len(payload) - 1) : payload[i].size >= payload[i + 1].size
    BY DEF RunsBounded
  <2> DEFINE n == Len(payload)
  <2>1. n \in Nat /\ DOMAIN payload = 1..n
    BY <1>1, InvFacts
  <2>2. Descends(Sizes, n) /\ RunsUnder(Sizes, 1, n, 4) /\ \A i \in 1..n : Sizes[i] = payload[i].size
    BY <1>1 DEF Sized, Sizes
  <2>3. ASSUME NEW i \in 1..(n - 1)
        PROVE  payload[i].size >= payload[i + 1].size
    <3>1. i \in 1..n /\ i + 1 \in 1..n /\ i <= i + 1
      BY <2>1
    <3> QED
      BY <2>2, <3>1 DEF Descends
  <2>4. ASSUME NEW i \in 1..n
        PROVE  2 * Cardinality({j \in 1..n : payload[j].size = payload[i].size}) < K + 4
    <3> DEFINE T == {j \in 1..n : payload[j].size = payload[i].size}
    <3>1. T \in SUBSET (1..n) /\ T \in SUBSET Nat /\ i \in T
      BY <2>1
    <3>2. PICK lo \in T : \A y \in T : lo <= y
      BY <3>1, LeastNumber
    <3>3. PICK hi \in T : \A y \in T : y <= hi
      BY <2>1, <3>1, GreatestNumber
    <3>4. lo \in 1..n /\ hi \in 1..n /\ lo <= hi /\ Sizes[lo] = Sizes[hi]
      BY <2>2, <3>2, <3>3
    <3>5. 2 * (hi - lo + 1) < K + 4
      BY <2>2, <3>4 DEF RunsUnder
    <3>6. T \subseteq lo..hi
      BY <2>1, <3>2, <3>3
    <3>7. IsFiniteSet(lo..hi) /\ Cardinality(lo..hi) = hi - lo + 1
      BY <2>1, <3>4, FS_Interval
    <3> HIDE DEF T
    <3>8. IsFiniteSet(T) /\ Cardinality(T) <= hi - lo + 1 /\ Cardinality(T) \in Nat
      BY <3>6, <3>7, FS_Subset, FS_CardinalityType, ZenonT(60)
    <3>9. 2 * Cardinality(T) < K + 4
      BY <2>1, <3>4, <3>5, <3>8, HistogramAssumption
    <3> QED
      BY <3>9 DEF T
  <2> QED
    BY <2>1, <2>3, <2>4
<1> QED
  BY <1>1, InvAlways, SizedAlways, PTL


(***************************************************************************)
(* Masses.  A sketch's mass is a sum over its keys of a square of a sum    *)
(* over its updates; what a bucket caches is the mass of what it has seen. *)
(***************************************************************************)
WeightOf(updates, seen, key) ==
  MapThenSumSet(LAMBDA o : updates[o].weight, {o \in seen : updates[o].key = key})

Squares(updates, seen) ==
  [key \in Keys |-> WeightOf(updates, seen, key) * WeightOf(updates, seen, key)]

LEMMA WeightSum ==
  ASSUME NEW a, NEW S
  PROVE  MapThenSumSet(LAMBDA o : a[o].weight, S) = SumOf([o \in S |-> a[o].weight])
<1> DEFINE f    == [o \in S |-> a[o].weight]
           iter == CHOOSE iter : iter =
             [s \in SUBSET S |->
                IF s = {} THEN 0
                ELSE LET x == CHOOSE x \in s : TRUE IN a[x].weight + iter[s \ {x}]]
<1>1. MapThenSumSet(LAMBDA o : a[o].weight, S) = iter[S]
  BY Zenon DEF MapThenSumSet, MapThenFoldSet
<1>2. DOMAIN f = S /\ \A x \in S : f[x] = a[x].weight
  OBVIOUS
<1> HIDE DEF f
<1>3. \A g : g = [s \in SUBSET S |->
                    IF s = {} THEN 0
                    ELSE LET x == CHOOSE x \in s : TRUE IN a[x].weight + g[s \ {x}]]
             <=> Summed(f, g)
  <2>1. \A s \in SUBSET S : s # {} => (CHOOSE x \in s : TRUE) \in S
    OBVIOUS
  <2> QED
    BY <1>2, <2>1 DEF Summed, Part
<1>4. iter = SumsOf(f)
  BY <1>3, ZenonT(60) DEF SumsOf
<1>5. SumOf(f) = SumsOf(f)[S]
  BY <1>2, SumOfIs
<1> QED
  BY <1>1, <1>4, <1>5, Zenon DEF f

LEMMA SquareSum ==
  ASSUME NEW a, NEW seen
  PROVE  MapThenSumSet(LAMBDA key : WeightOf(a, seen, key) * WeightOf(a, seen, key), Keys)
           = SumOf(Squares(a, seen))
<1> DEFINE f    == Squares(a, seen)
           iter == CHOOSE iter : iter =
             [s \in SUBSET Keys |->
                IF s = {} THEN 0
                ELSE LET x == CHOOSE x \in s : TRUE
                     IN  WeightOf(a, seen, x) * WeightOf(a, seen, x) + iter[s \ {x}]]
<1>1. MapThenSumSet(LAMBDA key : WeightOf(a, seen, key) * WeightOf(a, seen, key), Keys) = iter[Keys]
  BY Zenon DEF MapThenSumSet, MapThenFoldSet
<1>2. DOMAIN f = Keys /\ \A x \in Keys : f[x] = WeightOf(a, seen, x) * WeightOf(a, seen, x)
  BY DEF Squares
<1> HIDE DEF f
<1>3. \A g : g = [s \in SUBSET Keys |->
                    IF s = {} THEN 0
                    ELSE LET x == CHOOSE x \in s : TRUE
                         IN  WeightOf(a, seen, x) * WeightOf(a, seen, x) + g[s \ {x}]]
             <=> Summed(f, g)
  <2>1. \A s \in SUBSET Keys : s # {} => (CHOOSE x \in s : TRUE) \in Keys
    OBVIOUS
  <2> QED
    BY <1>2, <2>1 DEF Summed, Part
<1>4. iter = SumsOf(f)
  BY <1>3, ZenonT(60) DEF SumsOf
<1>5. SumOf(f) = SumsOf(f)[Keys]
  BY <1>2, SumOfIs
<1> QED
  BY <1>1, <1>4, <1>5, Zenon DEF f

LEMMA MassIs ==
  ASSUME NEW a, NEW seen
  PROVE  Mass(a, seen) = IF norm = "L1" THEN 0 ELSE SumOf(Squares(a, seen))
<1>1. Mass(a, seen) =
        IF norm = "L1" THEN 0
        ELSE MapThenSumSet(LAMBDA key : WeightOf(a, seen, key) * WeightOf(a, seen, key), Keys)
  BY Zenon DEF Mass, WeightOf
<1> QED
  BY <1>1, SquareSum, Zenon

(* The mass of a sketch is that of its updates, whatever log they are in.  *)
LEMMA MassSame ==
  ASSUME NEW a, NEW b, NEW seen, \A o \in seen : a[o] = b[o]
  PROVE  Mass(a, seen) = Mass(b, seen)
<1>1. ASSUME NEW key \in Keys
      PROVE  WeightOf(a, seen, key) = WeightOf(b, seen, key)
  <2>1. {o \in seen : a[o].key = key} = {o \in seen : b[o].key = key}
    OBVIOUS
  <2>2. PICK S : S = {o \in seen : a[o].key = key}
    OBVIOUS
  <2>3. [o \in S |-> a[o].weight] = [o \in S |-> b[o].weight]
    BY <2>2
  <2>4. /\ WeightOf(a, seen, key) = MapThenSumSet(LAMBDA o : a[o].weight, S)
        /\ WeightOf(b, seen, key) = MapThenSumSet(LAMBDA o : b[o].weight, S)
    BY <2>1, <2>2, Zenon DEF WeightOf
  <2>5. MapThenSumSet(LAMBDA o : a[o].weight, S) = SumOf([o \in S |-> a[o].weight])
    BY WeightSum, Zenon
  <2>6. MapThenSumSet(LAMBDA o : b[o].weight, S) = SumOf([o \in S |-> b[o].weight])
    BY WeightSum, Zenon
  <2> QED
    BY <2>3, <2>4, <2>5, <2>6, Zenon
<1>2. Squares(a, seen) = Squares(b, seen)
  BY <1>1 DEF Squares
<1> QED
  BY <1>2, MassIs, Zenon

LEMMA MassIsNat ==
  ASSUME Scalars, NEW seen, seen \subseteq DOMAIN log
  PROVE  Mass(log, seen) \in Nat
<1>1. IsFiniteSet(DOMAIN log)
  BY LogTimes, FS_Interval
<1>2. ASSUME NEW key \in Keys
      PROVE  WeightOf(log, seen, key) \in Nat
  <2>1. PICK S : S = {o \in seen : log[o].key = key}
    OBVIOUS
  <2>2. S \in SUBSET DOMAIN log
    BY <2>1
  <2>3. IsFiniteSet(S)
    BY <1>1, <2>2, FS_Subset
  <2>4. PICK f : f = [o \in S |-> log[o].weight]
    OBVIOUS
  <2>5. f \in [S -> Nat]
    BY <2>2, <2>4, LogTimes, HistogramAssumption DEF Entries
  <2>6. SumOf(f) \in Nat
    BY <2>3, <2>5, SumIsNat
  <2>7. WeightOf(log, seen, key) = MapThenSumSet(LAMBDA o : log[o].weight, S)
    BY <2>1, Zenon DEF WeightOf
  <2> QED
    BY <2>4, <2>6, <2>7, WeightSum, Zenon
<1>3. PICK f : f = Squares(log, seen)
  OBVIOUS
<1>4. f \in [Keys -> Nat]
  BY <1>2, <1>3 DEF Squares
<1>5. SumOf(f) \in Nat
  BY <1>4, SumIsNat, KeysFinite
<1> QED
  BY <1>3, <1>5, MassIs, Zenon


(* The sums over buckets, of the masses they cache and of those they have. *)
LEMMA CachedSum ==
  ASSUME NEW p, NEW S
  PROVE  MapThenSumSet(LAMBDA j : p[j].mass, S) = SumOf([j \in S |-> p[j].mass])
<1> DEFINE f    == [j \in S |-> p[j].mass]
           iter == CHOOSE iter : iter =
             [s \in SUBSET S |->
                IF s = {} THEN 0
                ELSE LET x == CHOOSE x \in s : TRUE IN p[x].mass + iter[s \ {x}]]
<1>1. MapThenSumSet(LAMBDA j : p[j].mass, S) = iter[S]
  BY Zenon DEF MapThenSumSet, MapThenFoldSet
<1>2. DOMAIN f = S /\ \A x \in S : f[x] = p[x].mass
  OBVIOUS
<1> HIDE DEF f
<1>3. \A g : g = [s \in SUBSET S |->
                    IF s = {} THEN 0
                    ELSE LET x == CHOOSE x \in s : TRUE IN p[x].mass + g[s \ {x}]]
             <=> Summed(f, g)
  <2>1. \A s \in SUBSET S : s # {} => (CHOOSE x \in s : TRUE) \in S
    OBVIOUS
  <2> QED
    BY <1>2, <2>1 DEF Summed, Part
<1>4. iter = SumsOf(f)
  BY <1>3, ZenonT(60) DEF SumsOf
<1>5. SumOf(f) = SumsOf(f)[S]
  BY <1>2, SumOfIs
<1> QED
  BY <1>1, <1>4, <1>5, Zenon DEF f

LEMMA MassSum ==
  ASSUME NEW a, NEW p, NEW S
  PROVE  MapThenSumSet(LAMBDA j : Mass(a, p[j].seen), S) = SumOf([j \in S |-> Mass(a, p[j].seen)])
<1> DEFINE f    == [j \in S |-> Mass(a, p[j].seen)]
           iter == CHOOSE iter : iter =
             [s \in SUBSET S |->
                IF s = {} THEN 0
                ELSE LET x == CHOOSE x \in s : TRUE IN Mass(a, p[x].seen) + iter[s \ {x}]]
<1>1. MapThenSumSet(LAMBDA j : Mass(a, p[j].seen), S) = iter[S]
  BY Zenon DEF MapThenSumSet, MapThenFoldSet
<1>2. DOMAIN f = S /\ \A x \in S : f[x] = Mass(a, p[x].seen)
  OBVIOUS
<1> HIDE DEF f
<1>3. \A g : g = [s \in SUBSET S |->
                    IF s = {} THEN 0
                    ELSE LET x == CHOOSE x \in s : TRUE IN Mass(a, p[x].seen) + g[s \ {x}]]
             <=> Summed(f, g)
  <2>1. \A s \in SUBSET S : s # {} => (CHOOSE x \in s : TRUE) \in S
    OBVIOUS
  <2> QED
    BY <1>2, <2>1 DEF Summed, Part
<1>4. iter = SumsOf(f)
  BY <1>3, ZenonT(60) DEF SumsOf
<1>5. SumOf(f) = SumsOf(f)[S]
  BY <1>2, SumOfIs
<1> QED
  BY <1>1, <1>4, <1>5, Zenon DEF f

CachedBy(n, updates, p) ==
  \A i \in DOMAIN p : p[i].mass = IF n = "L1" THEN 0 ELSE SumOf(Squares(updates, p[i].seen))

MassCached == CachedBy(norm, log, payload)

LEMMA CachedMass ==
  ASSUME NEW a, NEW p
  PROVE  CachedBy(norm, a, p) <=> \A i \in DOMAIN p : p[i].mass = Mass(a, p[i].seen)
<1>1. ASSUME NEW i \in DOMAIN p
      PROVE  Mass(a, p[i].seen) = IF norm = "L1" THEN 0 ELSE SumOf(Squares(a, p[i].seen))
  BY MassIs, Zenon
<1> QED
  BY <1>1, Zenon DEF CachedBy

(* The inductive invariant of the merges by mass.                          *)
Massed ==
  /\ MassCached
  /\ norm = "L2" => phase \in {"idle", "l2"}
  /\ norm = "L2" /\ phase = "idle" /\ OneKind =>
       \A i \in 1..(Len(payload) - 1) :
         K * (payload[i].mass + payload[i + 1].mass)
           > SumOf([j \in (i + 2)..Len(payload) |-> payload[j].mass])

LEMMA MassAfterIs ==
  ASSUME Inv, MassCached, NEW i \in 1..(Len(payload) - 1)
  PROVE  /\ MassAfter(i) = MapThenSumSet(LAMBDA j : Mass(log, payload[j].seen), (i + 2)..Len(payload))
         /\ MassAfter(i) = SumOf([j \in (i + 2)..Len(payload) |-> payload[j].mass])
         /\ MassAfter(i) \in Nat
<1>1. DOMAIN payload = 1..Len(payload) /\ Len(payload) \in Nat
  BY InvFacts
<1>0. \A j \in DOMAIN payload : payload[j].mass = Mass(log, payload[j].seen)
  BY CachedMass DEF MassCached
<1>2. PICK S : S = (i + 2)..Len(payload)
  OBVIOUS
<1>3. S \subseteq DOMAIN payload /\ IsFiniteSet(S)
  BY <1>1, <1>2, FS_Interval, SMTT(60)
<1>4. PICK f : f = [j \in S |-> payload[j].mass]
  OBVIOUS
<1>5. f = [j \in S |-> Mass(log, payload[j].seen)]
  BY <1>0, <1>3, <1>4
<1>6. \A j \in S : Mass(log, payload[j].seen) \in Nat
  BY <1>1, <1>3, InvFacts, MassIsNat DEF Inv
<1>7. f \in [S -> Nat]
  BY <1>5, <1>6
<1>8. SumOf(f) \in Nat
  BY <1>3, <1>7, SumIsNat
<1>9. MassAfter(i) = SumOf(f)
  BY <1>2, <1>4, CachedSum, Zenon DEF MassAfter
<1>10. MapThenSumSet(LAMBDA j : Mass(log, payload[j].seen), S) = SumOf(f)
  BY <1>5, MassSum, Zenon
<1> QED
  BY <1>2, <1>4, <1>8, <1>9, <1>10, Zenon

LEMMA UpdateKeepsMasses ==
  ASSUME Inv, MassCached,
         NEW time \in Times, NEW key \in Keys, NEW weight \in Weights, NEW kind \in Kinds,
         UpdateWith(time, key, weight, kind)
  PROVE  MassCached'
<1> DEFINE n     == Len(payload)
           entry == [time |-> time, key |-> key, weight |-> weight, kind |-> kind]
<1>0. \A j \in DOMAIN payload : payload[j].mass = Mass(log, payload[j].seen)
  BY CachedMass DEF MassCached
<1>1. norm' = norm /\ log' = Append(log, entry)
  BY DEF UpdateWith
<1>2. PICK d \in 1..(n + 1) : UpdatedFrom(d, time, kind)
  BY UpdatedRow DEF Inv
<1>3. PICK q : q = payload'
  OBVIOUS
<1>4. /\ Row(q) /\ Len(q) = n - d + 2
      /\ \A i \in 1..(n - d + 1) : q[i] = payload[i + d - 1]
      /\ q[n - d + 2].seen = {Len(log) + 1}
      /\ q[n - d + 2].mass = Mass(log', {Len(log) + 1})
  BY <1>2, <1>3 DEF UpdatedFrom
<1>5. n \in Nat /\ DOMAIN payload = 1..n /\ DOMAIN q = 1..Len(q)
  BY <1>4, InvFacts, RowFacts
<1>6. \A o \in DOMAIN log : log[o] = log'[o]
  <2>1. log \in Seq(Entries) /\ entry \in Entries
    BY DEF Inv, Scalars, Entries
  <2> HIDE DEF entry
  <2> QED
    BY <1>1, <2>1
<1>7. ASSUME NEW i \in DOMAIN q
      PROVE  q[i].mass = Mass(log', q[i].seen)
  <2>1. CASE i = n - d + 2
    BY <1>4, <2>1
  <2>2. CASE i # n - d + 2
    <3>1. i \in 1..(n - d + 1) /\ i + d - 1 \in 1..n
      BY <1>4, <1>5, <2>2, SMTT(60)
    <3>2. PICK j \in 1..n : j = i + d - 1
      BY <3>1
    <3>3. q[i] = payload[j] /\ payload[j].mass = Mass(log, payload[j].seen)
      BY <1>0, <1>4, <1>5, <3>1, <3>2
    <3>4. \A o \in payload[j].seen : log[o] = log'[o]
      BY <1>6, InvFacts
    <3>5. Mass(log, payload[j].seen) = Mass(log', payload[j].seen)
      BY <3>4, MassSame
    <3> QED
      BY <3>3, <3>5
  <2> QED
    BY <2>1, <2>2
<1>8. PICK a : a = log'
  OBVIOUS
<1>9. \A i \in DOMAIN q : q[i].mass = Mass(a, q[i].seen)
  BY <1>7, <1>8
<1>10. CachedBy(norm, a, q)
  BY <1>9, CachedMass, Zenon
<1> QED
  BY <1>1, <1>3, <1>8, <1>10 DEF MassCached

LEMMA MergeKeepsMasses ==
  ASSUME Inv, MassCached, NEW k \in 1..(Len(payload) - 1), ~Refuses(k), payload' = MergedAt(k),
         norm' = norm, log' = log
  PROVE  MassCached'
<1>0. \A j \in DOMAIN payload : payload[j].mass = Mass(log, payload[j].seen)
  BY CachedMass DEF MassCached
<1>1. /\ Row(payload') /\ Len(payload') = Len(payload) - 1
      /\ payload'[k].mass = Mass(log, payload'[k].seen)
      /\ \A i \in 1..(k - 1) : payload'[i] = payload[i]
      /\ \A i \in (k + 1)..(Len(payload) - 1) : payload'[i] = payload[i + 1]
  BY MergedRow DEF Inv
<1>2. PICK q : q = payload'
  OBVIOUS
<1>3. PICK n \in Nat : n = Len(payload)
  BY InvFacts
<1>4. DOMAIN payload = 1..n /\ DOMAIN q = 1..(n - 1)
  BY <1>1, <1>2, <1>3, InvFacts, RowFacts
<1>5. ASSUME NEW i \in DOMAIN q
      PROVE  q[i].mass = Mass(log, q[i].seen)
  <2>1. CASE i = k
    BY <1>1, <1>2, <2>1
  <2>2. CASE i \in 1..(k - 1)
    <3>1. q[i] = payload[i] /\ i \in DOMAIN payload
      BY <1>1, <1>2, <1>3, <1>4, <2>2
    <3> QED
      BY <1>0, <3>1
  <2>3. CASE i \in (k + 1)..(n - 1)
    <3>1. q[i] = payload[i + 1] /\ i + 1 \in DOMAIN payload
      BY <1>1, <1>2, <1>3, <1>4, <2>3
    <3> QED
      BY <1>0, <3>1
  <2> QED
    BY <1>3, <1>4, <2>1, <2>2, <2>3
<1>6. CachedBy(norm, log, q)
  BY <1>5, CachedMass, Zenon
<1> QED
  BY <1>2, <1>6 DEF MassCached

LEMMA SameMasses ==
  ASSUME MassCached, UNCHANGED payload, UNCHANGED norm, UNCHANGED log
  PROVE  MassCached'
BY DEF MassCached


(* The loop by mass ends because no pair is light enough.                  *)
LEMMA EndL2Heavy ==
  ASSUME Inv, EndsTaken, MassCached, OneKind, EndL2, NEW i \in 1..(Len(payload) - 1)
  PROVE  K * (payload[i].mass + payload[i + 1].mass)
           > SumOf([j \in (i + 2)..Len(payload) |-> payload[j].mass])
<1>1. Candidates = {}
  <2>1. SUFFICES ASSUME Candidates # {}
                 PROVE  FALSE
    OBVIOUS
  <2>2. Max(Candidates) \in Candidates
    BY <2>1, CandidateFacts
  <2>3. PICK c \in 1..(Len(payload) - 1) : c = Max(Candidates)
    BY <2>2 DEF Candidates
  <2>4. ~Refuses(c)
    BY NeverRefuses
  <2> QED
    BY <2>1, <2>3, <2>4 DEF EndL2
<1>2. ~(K * (payload[i].mass + payload[i + 1].mass) <= MassAfter(i))
  BY <1>1 DEF Candidates
<1>3. /\ MassAfter(i) = SumOf([j \in (i + 2)..Len(payload) |-> payload[j].mass])
      /\ MassAfter(i) \in Nat
  BY MassAfterIs
<1>4. /\ Len(payload) \in Nat /\ DOMAIN payload = 1..Len(payload)
      /\ \A j \in 1..Len(payload) : payload[j].seen \subseteq DOMAIN log
  BY InvFacts
<1>5. \A j \in DOMAIN payload : payload[j].mass = Mass(log, payload[j].seen)
  BY CachedMass DEF MassCached
<1>6. \A j \in 1..Len(payload) : payload[j].mass \in Nat
  BY <1>4, <1>5, MassIsNat DEF Inv
<1>7. payload[i].mass \in Nat /\ payload[i + 1].mass \in Nat
  BY <1>4, <1>6
<1>8. K * (payload[i].mass + payload[i + 1].mass) \in Nat
  BY <1>7, HistogramAssumption
<1>9. PICK m \in Nat : m = K * (payload[i].mass + payload[i + 1].mass)
  BY <1>8
<1>10. PICK r \in Nat : r = MassAfter(i)
  BY <1>3
<1>11. m > r
  BY <1>2, <1>9, <1>10
<1> QED
  BY <1>3, <1>9, <1>10, <1>11

LEMMA StepKeepsMassed ==
  ASSUME Inv, Layout, Massed, [Next]_vars
  PROVE  Massed'
<1>0. EndsTaken /\ MassCached /\ norm \in {"L1", "L2"}
  BY HistogramAssumption DEF Layout, Massed, Inv, Scalars
<1>1. CASE Update
  <2>1. PICK time \in Times, key \in Keys, weight \in Weights, kind \in Kinds :
          UpdateWith(time, key, weight, kind)
    BY <1>1, UpdateFacts
  <2>2. MassCached'
    BY <1>0, <2>1, UpdateKeepsMasses
  <2>3. norm' = norm /\ (norm = "L2" => phase' = "l2")
    BY <2>1 DEF UpdateWith
  <2> QED
    BY <2>2, <2>3 DEF Massed
<1>2. CASE (\E w \in Windows : UpdateWindow(w)) \/ Done \/ UNCHANGED vars
  <2>1. /\ payload' = payload /\ phase' = phase
        /\ norm' = norm /\ log' = log
    BY <1>2 DEF UpdateWindow, loopVars, Done, vars
  <2>2. MassCached'
    BY <1>0, <2>1, SameMasses
  <2> QED
    BY <2>1, <2>2 DEF Massed, OneKind
<1>3. CASE CountSame \/ EndRun \/ RunRefuses \/ EndOldestRun
  <2>1. norm = "L1" /\ norm' = norm /\ log' = log
    BY <1>0, <1>3 DEF Massed, CountSame, EndRun, RunRefuses, EndOldestRun, history
  <2>2. CASE payload' = payload
    BY <1>0, <2>1, <2>2, SameMasses DEF Massed
  <2>3. CASE payload' # payload
    <3>1. \E k \in 1..(Len(payload) - 1) : payload' = MergedAt(k) /\ ~Refuses(k)
      <4>1. Len(payload) \in Nat /\ at \in Nat
        BY InvFacts DEF Inv, Scalars
      <4>2. CASE CountSame \/ RunRefuses
        BY <2>3, <4>2 DEF CountSame, RunRefuses
      <4>3. CASE EndRun
        <5>1. payload' = MergedAt(at + 1) /\ ~Refuses(at + 1)
          BY <2>3, <4>3 DEF EndRun
        <5>2. ~(at + 1 + 1 > Len(payload))
          BY <2>3, <5>1 DEF MergedAt
        <5>3. at + 1 \in 1..(Len(payload) - 1)
          BY <4>1, <5>2
        <5> QED
          BY <5>1, <5>3
      <4>4. CASE EndOldestRun
        <5>1. payload' = MergedAt(1) /\ ~Refuses(1) /\ Len(payload) >= 2
          BY <2>3, <4>4 DEF EndOldestRun
        <5>2. 1 \in 1..(Len(payload) - 1)
          BY <4>1, <5>1
        <5> QED
          BY <5>1, <5>2
      <4> QED
        BY <1>3, <4>2, <4>3, <4>4
    <3>2. PICK k \in 1..(Len(payload) - 1) : payload' = MergedAt(k) /\ ~Refuses(k)
      BY <3>1
    <3>3. MassCached'
      BY <1>0, <2>1, <3>2, MergeKeepsMasses
    <3> QED
      BY <2>1, <3>3 DEF Massed
  <2> QED
    BY <2>2, <2>3
<1>4. CASE MergeCandidate
  <2>1. /\ norm' = norm /\ log' = log /\ phase = "l2" /\ phase' = phase
        /\ Candidates # {} /\ ~Refuses(Max(Candidates)) /\ payload' = MergedAt(Max(Candidates))
    BY <1>4 DEF MergeCandidate, loopVars, history
  <2>2. Max(Candidates) \in Candidates
    BY <2>1, CandidateFacts
  <2>3. PICK c \in 1..(Len(payload) - 1) : c = Max(Candidates)
    BY <2>2 DEF Candidates
  <2>4. MassCached'
    BY <1>0, <2>1, <2>3, MergeKeepsMasses
  <2> QED
    BY <2>1, <2>4 DEF Massed
<1>5. CASE EndL2
  <2>1. norm' = norm /\ log' = log /\ payload' = payload /\ phase' = "idle"
    BY <1>5 DEF EndL2, Return, history
  <2>2. MassCached'
    BY <1>0, <2>1, SameMasses
  <2>3. OneKind =>
          \A i \in 1..(Len(payload) - 1) :
            K * (payload[i].mass + payload[i + 1].mass)
              > SumOf([j \in (i + 2)..Len(payload) |-> payload[j].mass])
    BY <1>0, <1>5, EndL2Heavy
  <2> QED
    BY <2>1, <2>2, <2>3 DEF Massed, OneKind
<1> QED
  BY <1>1, <1>2, <1>3, <1>4, <1>5 DEF Next

LEMMA InitMassed == Init => Massed
<1> SUFFICES ASSUME Init PROVE Massed
  OBVIOUS
<1>1. phase = "idle" /\ payload = <<>> /\ Len(payload) = 0 /\ DOMAIN payload = {}
  BY DEF Init
<1>2. 1..(Len(payload) - 1) = {}
  BY <1>1
<1> QED
  BY <1>1, <1>2 DEF Massed, MassCached, CachedBy

LEMMA MassedAlways == Spec => []Massed
<1>1. Inv /\ Layout /\ Massed /\ [Next]_vars => Massed'
  BY StepKeepsMassed
<1> QED
  BY <1>1, InitMassed, InvAlways, LayoutAlways, PTL DEF Spec

(* After every update by mass, any two neighbours together weigh more than *)
(* 1/k of all that is newer: merge_volumes_l2 leaves its loop only when    *)
(* there is no light pair left, and the masses the buckets cache are those *)
(* of the updates they hold.                                               *)
THEOREM PairsHeavyCorrect == Spec => []PairsHeavy
<1>1. ASSUME Inv, Massed
      PROVE  PairsHeavy
  <2> SUFFICES ASSUME norm = "L2", phase = "idle", OneKind, NEW i \in 1..(Len(payload) - 1)
               PROVE  K * (Mass(log, payload[i].seen) + Mass(log, payload[i + 1].seen))
                        > MapThenSumSet(LAMBDA j : Mass(log, payload[j].seen), (i + 2)..Len(payload))
    BY Zenon DEF PairsHeavy
  <2>1. MassCached /\ Len(payload) \in Nat /\ DOMAIN payload = 1..Len(payload)
    BY <1>1, InvFacts DEF Massed
  <2>2. \A j \in DOMAIN payload : payload[j].mass = Mass(log, payload[j].seen)
    BY <2>1, CachedMass DEF MassCached
  <2>3. i \in DOMAIN payload /\ i + 1 \in DOMAIN payload
    BY <2>1
  <2>4. K * (payload[i].mass + payload[i + 1].mass)
          > SumOf([j \in (i + 2)..Len(payload) |-> payload[j].mass])
    BY <1>1 DEF Massed
  <2>5. /\ MassAfter(i) = SumOf([j \in (i + 2)..Len(payload) |-> payload[j].mass])
        /\ MassAfter(i) = MapThenSumSet(LAMBDA j : Mass(log, payload[j].seen), (i + 2)..Len(payload))
    BY <1>1, <2>1, MassAfterIs, Zenon
  <2>6. payload[i].mass = Mass(log, payload[i].seen)
        /\ payload[i + 1].mass = Mass(log, payload[i + 1].seen)
    BY <2>2, <2>3
  <2> QED
    BY <2>4, <2>5, <2>6, Zenon
<1> QED
  BY <1>1, InvAlways, MassedAlways, PTL

=============================================================================
