------------------------------ MODULE UnivTiersProofs ------------------------------
(***************************************************************************)
(* For every merge parameter, window, pool and stream: an update of        *)
(* EHUnivOptimized is in one bucket of one tier until it expires, and the  *)
(* pool has every sketch it allocated, in use or clean on its free list;   *)
(* complete candidates are complete, a query finds what is inside, and no  *)
(* two neighbours are left that are light beside what is newer.            *)
(***************************************************************************)
EXTENDS UnivTiers, RowLemmas, TLAPS

(***************************************************************************)
(* What the tier operations do to a row of buckets p whose updates are     *)
(* those of l.                                                             *)
(***************************************************************************)
Timed(l) == \A o \in DOMAIN l : l[o].time \in Nat

LEMMA HeldBy ==
  ASSUME NEW p, Row(p)
  PROVE  \A o : o \in Held(p) <=> \E i \in 1..Len(p) : o \in p[i].seen
BY RowFacts DEF Held

(* Two neighbours become one bucket. *)
LEMMA MergedTier ==
  ASSUME NEW p, Row(p), Apart(p), NEW l, Timed(l), Spans(p, l),
         NEW k \in 1..(Len(p) - 1), NEW e,
         e.seen = p[k].seen \cup p[k + 1].seen,
         e.min = Smaller(p[k].min, p[k + 1].min),
         e.max = Larger(p[k].max, p[k + 1].max)
  PROVE  /\ Row(MergedPair(p, e, k))
         /\ Len(MergedPair(p, e, k)) = Len(p) - 1
         /\ Held(MergedPair(p, e, k)) = Held(p)
         /\ Apart(MergedPair(p, e, k))
         /\ Spans(MergedPair(p, e, k), l)
<1> DEFINE n == Len(p)
           Lo(i) == IF i <= k THEN i ELSE i + 1
           Hi(i) == IF i < k THEN i ELSE i + 1
<1>0. n \in Nat /\ DOMAIN p = 1..n
  BY RowFacts
<1>1. k \in 1..n /\ k + 1 \in 1..n /\ k \in Nat /\ n - 1 \in Nat
  BY <1>0
<1>2. PICK q : q = MergedPair(p, e, k)
  OBVIOUS
<1>3. /\ Row(q)
      /\ Len(q) = n - 1
      /\ \A i \in 1..(k - 1) : q[i] = p[i]
      /\ q[k] = e
      /\ \A i \in (k + 1)..(n - 1) : q[i] = p[i + 1]
  <2>1. q = Spliced(p, e, k)
    BY <1>2 DEF MergedPair, Spliced
  <2> QED
    BY <2>1, SplicedRow
<1>4. DOMAIN q = 1..(n - 1)
  BY <1>3, RowFacts
<1>5. \A i \in 1..n : /\ p[i].min \in Nat /\ p[i].max \in Nat
                      /\ p[i].min \in Times /\ p[i].max \in Times
  BY <1>0, TiersAssumption DEF Spans, Times
<1>6. /\ e.min \in Times /\ e.max \in Times
      /\ e.min <= p[k].min /\ e.min <= p[k + 1].min
      /\ e.max >= p[k].max /\ e.max >= p[k + 1].max
  <2>1. /\ p[k].min \in Nat /\ p[k].max \in Nat /\ p[k + 1].min \in Nat /\ p[k + 1].max \in Nat
        /\ p[k].min \in Times /\ p[k].max \in Times
        /\ p[k + 1].min \in Times /\ p[k + 1].max \in Times
    BY <1>1, <1>5
  <2> QED
    BY <2>1 DEF Smaller, Larger
<1>7. ASSUME NEW i \in 1..(n - 1)
      PROVE  /\ Lo(i) \in 1..n /\ Hi(i) \in 1..n
             /\ q[i].seen = p[Lo(i)].seen \cup p[Hi(i)].seen
             /\ q[i].min \in Times /\ q[i].max \in Times
             /\ q[i].min <= p[Lo(i)].min /\ q[i].min <= p[Hi(i)].min
             /\ q[i].max >= p[Lo(i)].max /\ q[i].max >= p[Hi(i)].max
  <2>1. CASE i < k
    <3>1. Lo(i) = i /\ Hi(i) = i /\ i \in 1..n /\ q[i] = p[i]
      <4>1. i \in 1..(k - 1) /\ i \in 1..n
        BY <1>0, <1>1, <2>1
      <4>2. Lo(i) = i /\ Hi(i) = i
        BY <1>1, <2>1
      <4> QED
        BY <1>3, <4>1, <4>2
    <3> HIDE DEF Lo, Hi
    <3>2. /\ p[i].min \in Times /\ p[i].max \in Times
          /\ p[i].min <= p[i].min /\ p[i].max >= p[i].max
      BY <1>5, <3>1
    <3> QED
      BY <3>1, <3>2
  <2>2. CASE i = k
    <3>1. Lo(i) = k /\ Hi(i) = k + 1 /\ q[i] = e
      BY <1>1, <1>3, <2>2
    <3> HIDE DEF Lo, Hi
    <3> QED
      BY <1>1, <1>6, <3>1
  <2>3. CASE i > k
    <3>1. Lo(i) = i + 1 /\ Hi(i) = i + 1 /\ i + 1 \in 1..n /\ q[i] = p[i + 1]
      <4>1. i \in (k + 1)..(n - 1) /\ i + 1 \in 1..n
        BY <1>0, <1>1, <2>3
      <4>2. Lo(i) = i + 1 /\ Hi(i) = i + 1
        BY <1>1, <2>3
      <4> QED
        BY <1>3, <4>1, <4>2
    <3> HIDE DEF Lo, Hi
    <3>2. /\ p[i + 1].min \in Times /\ p[i + 1].max \in Times
          /\ p[i + 1].min <= p[i + 1].min /\ p[i + 1].max >= p[i + 1].max
      BY <1>5, <3>1
    <3> QED
      BY <3>1, <3>2
  <2> QED
    BY <1>0, <1>1, <2>1, <2>2, <2>3
<1>8. ASSUME NEW i \in 1..(n - 1), NEW j \in 1..(n - 1), i # j
      PROVE  Lo(i) # Lo(j) /\ Lo(i) # Hi(j) /\ Hi(i) # Lo(j) /\ Hi(i) # Hi(j)
  BY <1>0, <1>1, <1>8
<1>9. ASSUME NEW m \in 1..n
      PROVE  \E i \in 1..(n - 1) : Lo(i) = m \/ Hi(i) = m
  <2>1. CASE m <= k
    <3>1. m \in 1..(n - 1) /\ Lo(m) = m
      BY <1>0, <1>1, <2>1
    <3> QED
      BY <3>1
  <2>2. CASE m > k
    <3>1. m - 1 \in 1..(n - 1) /\ Hi(m - 1) = m
      BY <1>0, <1>1, <2>2
    <3> QED
      BY <3>1
  <2> QED
    BY <1>0, <1>1, <2>1, <2>2
<1> HIDE DEF Lo, Hi
<1>10. Held(q) = Held(p)
  <2>1. ASSUME NEW o \in Held(p)
        PROVE  o \in Held(q)
    <3>1. PICK m \in 1..n : o \in p[m].seen
      BY HeldBy
    <3>2. PICK i \in 1..(n - 1) : Lo(i) = m \/ Hi(i) = m
      BY <1>9
    <3>3. o \in q[i].seen
      BY <1>7, <3>1, <3>2
    <3> QED
      BY <1>4, <3>3 DEF Held
  <2>2. ASSUME NEW o \in Held(q)
        PROVE  o \in Held(p)
    <3>1. PICK i \in 1..(n - 1) : o \in q[i].seen
      BY <1>4, <2>2 DEF Held
    <3>2. PICK m \in 1..n : o \in p[m].seen
      BY <1>7, <3>1
    <3> QED
      BY <3>2, HeldBy
  <2> QED
    BY <2>1, <2>2
<1>11. Apart(q)
  <2>1. ASSUME NEW i \in 1..(n - 1), NEW j \in 1..(n - 1), i # j
        PROVE  q[i].seen \cap q[j].seen = {}
    <3>1. \A a, b \in 1..n : a # b => p[a].seen \cap p[b].seen = {}
      BY <1>0 DEF Apart
    <3>2. /\ p[Lo(i)].seen \cap p[Lo(j)].seen = {}
          /\ p[Lo(i)].seen \cap p[Hi(j)].seen = {}
          /\ p[Hi(i)].seen \cap p[Lo(j)].seen = {}
          /\ p[Hi(i)].seen \cap p[Hi(j)].seen = {}
      BY <1>7, <1>8, <2>1, <3>1, ZenonT(60)
    <3> QED
      BY <1>7, <3>2
  <2> QED
    BY <1>4, <2>1 DEF Apart
<1>12. Spans(q, l)
  <2>1. ASSUME NEW i \in 1..(n - 1), NEW o \in q[i].seen
        PROVE  o \in DOMAIN l /\ q[i].min <= l[o].time /\ l[o].time <= q[i].max
    <3>1. PICK m \in 1..n : o \in p[m].seen /\ q[i].min <= p[m].min /\ q[i].max >= p[m].max
      BY <1>7
    <3>2. o \in DOMAIN l /\ p[m].min <= l[o].time /\ l[o].time <= p[m].max
      BY <1>0, <3>1 DEF Spans
    <3>3. l[o].time \in Nat /\ p[m].min \in Nat /\ p[m].max \in Nat
      BY <1>5, <3>2 DEF Timed
    <3>4. q[i].min \in Nat /\ q[i].max \in Nat
      BY <1>7, TiersAssumption DEF Times
    <3> QED
      BY <3>1, <3>2, <3>3, <3>4
  <2> QED
    BY <1>4, <1>7, <2>1 DEF Spans
<1> QED
  BY <1>2, <1>3, <1>10, <1>11, <1>12

(* The oldest buckets go, up to bucket d. *)
LEMMA SuffixTier ==
  ASSUME NEW p, Row(p), Apart(p), NEW l, Spans(p, l), NEW d \in 1..Len(p)
  PROVE  /\ Row(SubSeq(p, d, Len(p)))
         /\ Len(SubSeq(p, d, Len(p))) = Len(p) - d + 1
         /\ Held(SubSeq(p, d, Len(p))) \subseteq Held(p)
         /\ \A j \in d..Len(p) : p[j].seen \subseteq Held(SubSeq(p, d, Len(p)))
         /\ \A j \in 1..(d - 1) : p[j].seen \cap Held(SubSeq(p, d, Len(p))) = {}
         /\ Apart(SubSeq(p, d, Len(p)))
         /\ Spans(SubSeq(p, d, Len(p)), l)
<1>0. Len(p) \in Nat /\ DOMAIN p = 1..Len(p)
  BY RowFacts
<1> DEFINE m == Len(p) - d + 1
<1>1. PICK q : q = SubSeq(p, d, Len(p))
  OBVIOUS
<1>2. Row(q) /\ Len(q) = m /\ \A i \in 1..m : q[i] = p[i + d - 1]
  BY <1>1, SuffixRow
<1>3. DOMAIN q = 1..m /\ m \in Nat
  BY <1>0, <1>2, RowFacts
<1>4. \A i \in 1..m : i + d - 1 \in 1..Len(p)
  BY <1>0
<1>5. ASSUME NEW j \in d..Len(p)
      PROVE  j - d + 1 \in 1..m /\ q[j - d + 1] = p[j]
  <2>1. j - d + 1 \in 1..m /\ (j - d + 1) + d - 1 = j
    BY <1>0
  <2>2. PICK i \in 1..m : i = j - d + 1
    BY <2>1
  <2>3. q[i] = p[j]
    BY <1>2, <2>1, <2>2
  <2> QED
    BY <2>2, <2>3
<1>6. ASSUME NEW i \in 1..m
      PROVE  \E j \in 1..Len(p) : j = i + d - 1 /\ q[i] = p[j] /\ ~ (j < d)
  <2>1. PICK j \in 1..Len(p) : j = i + d - 1
    BY <1>4
  <2>2. ~ (j < d)
    BY <1>0, <2>1
  <2> QED
    BY <1>2, <2>1, <2>2
<1>7. Held(q) \subseteq Held(p)
  <2>1. ASSUME NEW o \in Held(q)
        PROVE  o \in Held(p)
    <3>1. PICK i \in 1..m : o \in q[i].seen
      BY <1>3, <2>1 DEF Held
    <3>2. PICK j \in 1..Len(p) : q[i] = p[j]
      BY <1>6
    <3> QED
      BY <1>0, <3>1, <3>2 DEF Held
  <2> QED
    BY <2>1
<1>8. ASSUME NEW j \in d..Len(p)
      PROVE  p[j].seen \subseteq Held(q)
  <2>1. PICK i \in 1..m : q[i] = p[j]
    BY <1>5
  <2> QED
    BY <1>3, <2>1 DEF Held
<1> HIDE DEF m
<1>9. ASSUME NEW j \in 1..(d - 1)
      PROVE  p[j].seen \cap Held(q) = {}
  <2>1. ASSUME NEW o \in p[j].seen, o \in Held(q)
        PROVE  FALSE
    <3>1. PICK i \in 1..m : o \in q[i].seen
      BY <1>3, <2>1 DEF Held
    <3>2. PICK b \in 1..Len(p) : q[i] = p[b] /\ ~ (b < d)
      BY <1>6
    <3>3. j \in 1..Len(p) /\ b # j
      BY <1>0, <3>2
    <3>4. p[j].seen \cap p[b].seen = {}
      BY <1>0, <3>3 DEF Apart
    <3> QED
      BY <2>1, <3>1, <3>2, <3>4
  <2> QED
    BY <2>1
<1>10. Apart(q)
  <2>1. ASSUME NEW i \in 1..m, NEW j \in 1..m, i # j
        PROVE  q[i].seen \cap q[j].seen = {}
    <3>1. PICK a \in 1..Len(p) : a = i + d - 1 /\ q[i] = p[a]
      BY <1>6
    <3>2. PICK b \in 1..Len(p) : b = j + d - 1 /\ q[j] = p[b]
      BY <1>6
    <3>3. a # b
      BY <1>0, <1>3, <2>1, <3>1, <3>2
    <3> QED
      BY <1>0, <3>1, <3>2, <3>3 DEF Apart
  <2> QED
    BY <1>3, <2>1 DEF Apart
<1>11. Spans(q, l)
  <2>1. ASSUME NEW i \in 1..m
        PROVE  /\ q[i].min \in Times /\ q[i].max \in Times
               /\ \A o \in q[i].seen :
                    o \in DOMAIN l /\ q[i].min <= l[o].time /\ l[o].time <= q[i].max
    <3>1. PICK a \in 1..Len(p) : q[i] = p[a]
      BY <1>6
    <3> QED
      BY <1>0, <3>1 DEF Spans
  <2> QED
    BY <1>3, <2>1 DEF Spans
<1> QED
  BY <1>1, <1>2, <1>7, <1>8, <1>9, <1>10, <1>11 DEF m

LEMMA EmptyTier ==
  /\ Row(<<>>)
  /\ Len(<<>>) = 0
  /\ Held(<<>>) = {}
  /\ Apart(<<>>)
  /\ \A l : Spans(<<>>, l)
<1>1. <<>> \in Seq({}) /\ DOMAIN <<>> = {} /\ Len(<<>>) = 0
  OBVIOUS
<1> QED
  BY <1>1 DEF Row, Held, Apart, Spans

(* The newest bucket comes, with updates no other bucket has. *)
LEMMA AppendedTier ==
  ASSUME NEW p, Row(p), Apart(p), NEW l, Spans(p, l), NEW b,
         b.seen \cap Held(p) = {},
         b.min \in Times, b.max \in Times,
         \A o \in b.seen : o \in DOMAIN l /\ b.min <= l[o].time /\ l[o].time <= b.max
  PROVE  /\ Row(Append(p, b))
         /\ Len(Append(p, b)) = Len(p) + 1
         /\ Held(Append(p, b)) = Held(p) \cup b.seen
         /\ Apart(Append(p, b))
         /\ Spans(Append(p, b), l)
<1>0. Len(p) \in Nat /\ DOMAIN p = 1..Len(p)
  BY RowFacts
<1> DEFINE n == Len(p)
<1>1. PICK q : q = Append(p, b)
  OBVIOUS
<1>2. Row(q) /\ Len(q) = n + 1 /\ (\A i \in 1..n : q[i] = p[i]) /\ q[n + 1] = b
  BY <1>1, AppendRow
<1>3. DOMAIN q = 1..(n + 1) /\ n + 1 \in 1..(n + 1) /\ 1..n \subseteq 1..(n + 1)
  BY <1>0, <1>2, RowFacts
<1>4. \A i \in 1..(n + 1) : i \in 1..n \/ i = n + 1
  BY <1>0
<1>5. Held(q) = Held(p) \cup b.seen
  <2>1. \A o : o \in Held(q) => o \in Held(p) \/ o \in b.seen
    BY <1>0, <1>2, <1>3, <1>4 DEF Held
  <2>2. \A o : o \in Held(p) => o \in Held(q)
    BY <1>0, <1>2, <1>3 DEF Held
  <2>3. \A o : o \in b.seen => o \in Held(q)
    BY <1>2, <1>3 DEF Held
  <2> QED
    BY <2>1, <2>2, <2>3
<1>6. Apart(q)
  <2>1. \A i \in 1..n : p[i].seen \cap b.seen = {}
    BY <1>0 DEF Held
  <2>2. ASSUME NEW i \in 1..(n + 1), NEW j \in 1..(n + 1), i # j
        PROVE  q[i].seen \cap q[j].seen = {}
    <3>1. CASE i \in 1..n /\ j \in 1..n
      BY <1>0, <1>2, <2>2, <3>1 DEF Apart
    <3>2. CASE i = n + 1 /\ j \in 1..n
      BY <1>2, <2>1, <3>2
    <3>3. CASE i \in 1..n /\ j = n + 1
      BY <1>2, <2>1, <3>3
    <3> QED
      BY <1>4, <2>2, <3>1, <3>2, <3>3
  <2> QED
    BY <1>3, <2>2 DEF Apart
<1>7. Spans(q, l)
  BY <1>0, <1>2, <1>3, <1>4 DEF Spans
<1> QED
  BY <1>1, <1>2, <1>5, <1>6, <1>7

(* More updates leave the buckets as they are. *)
LEMMA LongerLog ==
  ASSUME NEW p, NEW l, NEW m, Spans(p, l),
         \A o \in DOMAIN l : o \in DOMAIN m /\ m[o] = l[o]
  PROVE  Spans(p, m)
BY DEF Spans

(***************************************************************************)
(* The invariant: the tiers as rows, the pool, the loop and the scalars.   *)
(***************************************************************************)
Tiers ==
  /\ Row(um)
  /\ Row(maps)
  /\ Spans(um, log)
  /\ Spans(maps, log)
  /\ EachInOneTier

Pool ==
  /\ free \in Seq({Clean})
  /\ allocated = Len(um) + Len(free)

LoopAt ==
  /\ phase \in Phases
  /\ phase = "maps" => at \in 1..(Len(maps) - 1)
  /\ phase = "promote" => Len(maps) >= 1
  /\ phase = "sketches" => at \in 1..(Len(um) - 1)

Scalars ==
  /\ window \in Windows
  /\ log \in Seq(Entries)
  /\ cutoff \in Nat
  /\ resizes \in Nat

Inv == Tiers /\ Pool /\ LoopAt /\ Scalars

LEMMA InvGivesIInv == Inv => IInv
<1> SUFFICES ASSUME Inv
             PROVE  IInv
  OBVIOUS
<1>1. TypeOK
  BY DEF Inv, Tiers, LoopAt, Scalars, TypeOK
<1>2. SketchPoolAccounts
  <2>1. free \in Seq({Clean})
    BY DEF Inv, Pool
  <2>2. \A i \in DOMAIN free : free[i] = Clean
    <3>1. PICK c : c = Clean
      OBVIOUS
    <3>2. \A i \in DOMAIN free : free[i] \in {c}
      BY <2>1, <3>1
    <3> QED
      BY <3>1, <3>2
  <2> QED
    BY <2>2 DEF Inv, Pool, SketchPoolAccounts
<1> QED
  BY <1>1, <1>2 DEF Inv, Tiers, IInv

LEMMA LogFacts ==
  ASSUME Scalars
  PROVE  Len(log) \in Nat /\ DOMAIN log = 1..Len(log) /\ Timed(log)
<1>1. log \in Seq(Entries)
  BY DEF Scalars
<1>2. \A o \in DOMAIN log : log[o] \in Entries
  BY <1>1
<1> QED
  BY <1>1, <1>2, TiersAssumption DEF Timed, Entries, Times

(* Expiry leaves a suffix of a tier; what it drops is older than the limit. *)
LEMMA SurvivingTier ==
  ASSUME Scalars, NEW p, Row(p), Apart(p), Spans(p, log), NEW time \in Times
  PROVE  /\ Row(Survivors(p, time))
         /\ Len(Survivors(p, time)) \in 0..Len(p)
         /\ Held(Survivors(p, time)) \subseteq Held(p)
         /\ Apart(Survivors(p, time))
         /\ Spans(Survivors(p, time), log)
         /\ \A o \in Held(p) : o \in Held(Survivors(p, time)) \/ log[o].time < CutoffAt(time)
<1>0. Len(p) \in Nat /\ DOMAIN p = 1..Len(p)
  BY RowFacts
<1>1. CutoffAt(time) \in Nat
  <2>1. window \in Nat /\ time \in Nat
    BY TiersAssumption DEF Scalars, Times
  <2> QED
    BY <2>1 DEF CutoffAt
<1>2. ASSUME NEW j \in 1..Len(p), j \notin Alive(p, time), NEW o \in p[j].seen
      PROVE  log[o].time < CutoffAt(time)
  <2>1. p[j].max \in Nat /\ ~ (p[j].max >= CutoffAt(time))
    BY <1>0, <1>2, TiersAssumption DEF Alive, Spans, Times
  <2>2. o \in DOMAIN log /\ log[o].time <= p[j].max
    BY <1>0, <1>2 DEF Spans
  <2>3. log[o].time \in Nat
    BY <2>2, LogFacts DEF Timed
  <2> QED
    BY <1>1, <2>1, <2>2, <2>3
<1>3. CASE Alive(p, time) = {}
  <2>1. Survivors(p, time) = <<>>
    BY <1>3 DEF Survivors
  <2>2. \A o \in Held(p) : log[o].time < CutoffAt(time)
    BY <1>0, <1>2, <1>3 DEF Held
  <2>3. 0 \in 0..Len(p)
    BY <1>0
  <2> QED
    BY <2>1, <2>2, <2>3, EmptyTier
<1>4. CASE Alive(p, time) # {}
  <2>1. Alive(p, time) \in SUBSET Nat /\ Alive(p, time) \subseteq 1..Len(p)
    BY <1>0 DEF Alive
  <2>2. PICK d : d = Min(Alive(p, time))
    OBVIOUS
  <2>3. d \in Alive(p, time) /\ \A y \in Alive(p, time) : d <= y
    BY <1>4, <2>1, <2>2, MinOf
  <2>4. d \in 1..Len(p)
    BY <2>1, <2>3
  <2>5. Survivors(p, time) = SubSeq(p, d, Len(p))
    BY <1>4, <2>2 DEF Survivors
  <2>6. PICK s : s = SubSeq(p, d, Len(p))
    OBVIOUS
  <2>7. /\ Row(s)
        /\ Len(s) = Len(p) - d + 1
        /\ Held(s) \subseteq Held(p)
        /\ \A j \in d..Len(p) : p[j].seen \subseteq Held(s)
        /\ Apart(s)
        /\ Spans(s, log)
    BY <2>4, <2>6, SuffixTier
  <2>8. ASSUME NEW o \in Held(p)
        PROVE  o \in Held(s) \/ log[o].time < CutoffAt(time)
    <3>1. PICK j \in 1..Len(p) : o \in p[j].seen
      BY <1>0 DEF Held
    <3>2. CASE j \in Alive(p, time)
      <4>1. j \in d..Len(p)
        BY <1>0, <2>3, <2>4, <3>2
      <4> QED
        BY <2>7, <3>1, <4>1
    <3>3. CASE j \notin Alive(p, time)
      BY <1>2, <3>1, <3>3
    <3> QED
      BY <3>2, <3>3
  <2>9. Len(s) \in 0..Len(p)
    BY <1>0, <2>4, <2>7
  <2> QED
    BY <2>5, <2>6, <2>7, <2>8, <2>9
<1> QED
  BY <1>3, <1>4

LEMMA InitInv == Init => Inv
<1> SUFFICES ASSUME Init
             PROVE  Inv
  OBVIOUS
<1>1. um = <<>> /\ maps = <<>> /\ log = <<>> /\ phase = "idle" /\ cutoff = 0 /\ resizes = 0
      /\ window \in Windows
  BY DEF Init
<1>2. Row(um) /\ Row(maps) /\ Len(um) = 0 /\ Held(um) = {} /\ Held(maps) = {}
      /\ Apart(um) /\ Apart(maps) /\ Spans(um, log) /\ Spans(maps, log)
  BY <1>1, EmptyTier
<1>3. log \in Seq(Entries) /\ DOMAIN log = {}
  BY <1>1
<1>4. Tiers
  BY <1>2, <1>3 DEF Tiers, EachInOneTier
<1>5. Pool
  <2>1. PoolCap \in Nat
    BY TiersAssumption
  <2>2. free = [i \in 1..PoolCap |-> Clean] /\ allocated = PoolCap
    BY DEF Init
  <2>3. free \in Seq({Clean}) /\ Len(free) = PoolCap
    <3>1. PICK c : c = Clean
      OBVIOUS
    <3>2. [i \in 1..PoolCap |-> c] \in Seq({c}) /\ Len([i \in 1..PoolCap |-> c]) = PoolCap
      BY <2>1
    <3> QED
      BY <2>2, <3>1, <3>2
  <2> QED
    BY <1>2, <2>1, <2>2, <2>3 DEF Pool
<1>6. LoopAt
  BY <1>1 DEF LoopAt, Phases
<1>7. Scalars
  BY <1>1, <1>3 DEF Scalars
<1> QED
  BY <1>4, <1>5, <1>6, <1>7 DEF Inv

(***************************************************************************)
(* update_with: expiry of both tiers and the new map.                      *)
(***************************************************************************)
LEMMA HeldLogged ==
  ASSUME NEW p, NEW l, Spans(p, l)
  PROVE  Held(p) \subseteq DOMAIN l
BY DEF Spans, Held

LEMMA UpdateTiers ==
  ASSUME Tiers, Scalars, NEW time \in Times, NEW key \in Keys, NEW value \in Nat,
         Update(time, key, value)
  PROVE  /\ Tiers'
         /\ log' \in Seq(Entries)
         /\ cutoff' \in Nat
         /\ Len(um') \in 0..Len(um)
         /\ Len(maps') \in Nat \ {0}
<1> DEFINE entry == [time |-> time, key |-> key, value |-> value]
           new   == [seen |-> {Len(log) + 1}, l22 |-> value * value, min |-> time, max |-> time]
           o1    == Len(log) + 1
<1>1. /\ um' = Survivors(um, time)
      /\ maps' = Append(Survivors(maps, time), new)
      /\ log' = Append(log, entry)
      /\ cutoff' = Larger(cutoff, CutoffAt(time))
  BY DEF Update
<1>2. /\ new.seen = {o1} /\ new.min = time /\ new.max = time
      /\ entry \in Entries /\ entry.time = time
  BY DEF Entries
<1> HIDE DEF entry, new
<1>3. PICK s : s = Survivors(um, time)
  OBVIOUS
<1>4. PICK r : r = Survivors(maps, time)
  OBVIOUS
<1>5. /\ Row(s) /\ Len(s) \in 0..Len(um) /\ Held(s) \subseteq Held(um) /\ Apart(s)
      /\ Spans(s, log)
      /\ \A o \in Held(um) : o \in Held(s) \/ log[o].time < CutoffAt(time)
  BY <1>3, SurvivingTier DEF Tiers, EachInOneTier
<1>6. /\ Row(r) /\ Len(r) \in 0..Len(maps) /\ Held(r) \subseteq Held(maps) /\ Apart(r)
      /\ Spans(r, log)
      /\ \A o \in Held(maps) : o \in Held(r) \/ log[o].time < CutoffAt(time)
  BY <1>4, SurvivingTier DEF Tiers, EachInOneTier
<1>7. /\ Len(log) \in Nat /\ DOMAIN log = 1..Len(log) /\ Timed(log)
      /\ log' \in Seq(Entries)
      /\ DOMAIN log' = 1..o1
      /\ log'[o1] = entry
      /\ \A o \in DOMAIN log : o \in DOMAIN log' /\ log'[o] = log[o]
      /\ o1 \in 1..o1 /\ o1 \notin DOMAIN log
  <2>1. log \in Seq(Entries) /\ Len(log) \in Nat /\ DOMAIN log = 1..Len(log) /\ Timed(log)
    BY LogFacts DEF Scalars
  <2> QED
    BY <1>1, <1>2, <2>1
<1>8. time \in Nat /\ CutoffAt(time) \in Nat /\ cutoff \in Nat
      /\ cutoff' \in Nat /\ cutoff' >= cutoff /\ cutoff' >= CutoffAt(time)
  <2>1. window \in Nat /\ time \in Nat /\ cutoff \in Nat
    BY TiersAssumption DEF Scalars, Times
  <2>2. CutoffAt(time) \in Nat
    BY <2>1 DEF CutoffAt
  <2> QED
    BY <1>1, <2>1, <2>2 DEF Larger
<1>9. Spans(s, log') /\ Spans(r, log')
  BY <1>5, <1>6, <1>7, LongerLog
<1>10. Held(s) \subseteq DOMAIN log /\ Held(r) \subseteq DOMAIN log
  BY <1>5, <1>6, HeldLogged
<1>11. /\ Row(maps') /\ Len(maps') = Len(r) + 1 /\ Held(maps') = Held(r) \cup {o1}
       /\ Apart(maps') /\ Spans(maps', log')
  <2>1. new.seen \cap Held(r) = {}
    BY <1>2, <1>7, <1>10
  <2>2. \A o \in new.seen :
          o \in DOMAIN log' /\ new.min <= log'[o].time /\ log'[o].time <= new.max
    BY <1>2, <1>7, <1>8
  <2>3. PICK b : b = new
    OBVIOUS
  <2>4. PICK l : l = log'
    OBVIOUS
  <2>5. /\ Row(Append(r, b)) /\ Len(Append(r, b)) = Len(r) + 1
        /\ Held(Append(r, b)) = Held(r) \cup b.seen
        /\ Apart(Append(r, b)) /\ Spans(Append(r, b), l)
    BY <1>2, <1>6, <1>9, <2>1, <2>2, <2>3, <2>4, AppendedTier
  <2> QED
    BY <1>1, <1>2, <1>4, <2>3, <2>4, <2>5
<1>12. EachInOneTier'
  <2>1. um' = s
    BY <1>1, <1>3
  <2>2. Held(s) \cap (Held(r) \cup {o1}) = {}
    BY <1>5, <1>6, <1>7, <1>10 DEF Tiers, EachInOneTier
  <2>3. ASSUME NEW o \in DOMAIN log
        PROVE  o \in Held(s) \cup Held(r) \/ log'[o].time < cutoff'
    <3>1. log'[o] = log[o] /\ log[o].time \in Nat
      BY <1>7 DEF Timed
    <3>2. CASE log[o].time < cutoff
      BY <1>8, <3>1, <3>2
    <3>3. CASE o \in Held(um)
      <4>1. CASE log[o].time < CutoffAt(time)
        BY <1>8, <3>1, <4>1
      <4> QED
        BY <1>5, <3>3, <4>1
    <3>4. CASE o \in Held(maps)
      <4>1. CASE log[o].time < CutoffAt(time)
        BY <1>8, <3>1, <4>1
      <4> QED
        BY <1>6, <3>4, <4>1
    <3> QED
      BY <3>2, <3>3, <3>4 DEF Tiers, EachInOneTier
  <2>4. \A o \in 1..o1 : o \in DOMAIN log \/ o = o1
    BY <1>7
  <2>5. \A o \in DOMAIN log' : o \in Held(um') \cup Held(maps') \/ log'[o].time < cutoff'
    BY <1>7, <1>11, <2>1, <2>3, <2>4
  <2> QED
    BY <1>5, <1>11, <2>1, <2>2, <2>5 DEF EachInOneTier
<1>13. Tiers'
  BY <1>1, <1>3, <1>5, <1>9, <1>11, <1>12 DEF Tiers, Row
<1>14. Len(maps') \in Nat \ {0}
  <2>1. Len(maps) \in Nat
    BY RowFacts DEF Tiers
  <2>2. Len(r) \in Nat
    BY <1>6, <2>1
  <2> QED
    BY <1>11, <2>2
<1> QED
  BY <1>1, <1>3, <1>5, <1>7, <1>8, <1>13, <1>14

LEMMA UpdateStep ==
  ASSUME Inv, NEW time \in Times, NEW key \in Keys, NEW value \in Nat,
         Update(time, key, value)
  PROVE  Inv'
<1>1. Tiers /\ Pool /\ LoopAt /\ Scalars
  BY DEF Inv
<1>2. /\ Tiers' /\ log' \in Seq(Entries) /\ cutoff' \in Nat
      /\ Len(um') \in 0..Len(um) /\ Len(maps') \in Nat \ {0}
  BY <1>1, UpdateTiers
<1>3. Scalars'
  BY <1>1, <1>2 DEF Scalars, Update
<1>4. Pool'
  <2> DEFINE gone == Len(um) - Len(Survivors(um, time))
             back == [i \in 1..gone |-> Freed(SketchOf(um[i]))]
  <2>1. free' = free \o back /\ allocated' = allocated /\ um' = Survivors(um, time)
    BY DEF Update
  <2>2. Len(um) \in Nat /\ gone \in Nat /\ Len(um') = Len(um) - gone
    <3>1. Len(um) \in Nat
      BY <1>1, RowFacts DEF Tiers
    <3> QED
      BY <1>2, <2>1, <3>1
  <2>3. PICK c : c = Clean
    OBVIOUS
  <2> HIDE DEF gone
  <2>4. back = [i \in 1..gone |-> c]
    BY <2>3 DEF Freed
  <2>5. PICK rest : rest = back
    OBVIOUS
  <2>6. rest \in Seq({c}) /\ Len(rest) = gone
    BY <2>2, <2>4, <2>5
  <2>7. free \in Seq({c}) /\ allocated = Len(um) + Len(free)
    BY <1>1, <2>3 DEF Pool
  <2>8. free \o rest \in Seq({c}) /\ Len(free \o rest) = Len(free) + Len(rest)
    BY <2>6, <2>7
  <2>9. Len(free) \in Nat
    BY <2>7
  <2>10. allocated' = Len(um') + Len(free')
    BY <2>1, <2>2, <2>5, <2>6, <2>7, <2>8, <2>9
  <2> QED
    BY <2>1, <2>3, <2>5, <2>8, <2>10 DEF Pool
<1>5. LoopAt'
  <2>1. PICK n : n = Len(maps')
    OBVIOUS
  <2>2. n \in Nat \ {0}
    BY <1>2, <2>1
  <2>3. CASE n >= 2
    <3>1. phase' = "maps" /\ at' = n - 1
      BY <2>1, <2>3 DEF Update
    <3>2. n - 1 \in 1..(n - 1)
      BY <2>2, <2>3
    <3> QED
      BY <2>1, <3>1, <3>2 DEF LoopAt, Phases
  <2>4. CASE ~ (n >= 2)
    <3>1. phase' = "promote"
      BY <2>1, <2>4 DEF Update
    <3>2. n >= 1
      BY <2>2
    <3> QED
      BY <2>1, <3>1, <3>2 DEF LoopAt, Phases
  <2> QED
    BY <2>3, <2>4
<1> QED
  BY <1>2, <1>3, <1>4, <1>5 DEF Inv

(***************************************************************************)
(* The loops and the promotion.                                            *)
(***************************************************************************)
LEMMA SameTiers ==
  ASSUME Tiers, UNCHANGED um, UNCHANGED maps, UNCHANGED log, UNCHANGED cutoff
  PROVE  Tiers'
<1>1. EachInOneTier'
  BY DEF Tiers, EachInOneTier
<1>2. Row(um)' /\ Row(maps)' /\ Spans(um', log') /\ Spans(maps', log')
  BY DEF Tiers, Row
<1> QED
  BY <1>1, <1>2 DEF Tiers

LEMMA SamePool ==
  ASSUME Pool, UNCHANGED um, UNCHANGED free, UNCHANGED allocated
  PROVE  Pool'
BY DEF Pool

LEMMA SameScalars ==
  ASSUME Scalars, UNCHANGED window, UNCHANGED log, UNCHANGED cutoff, UNCHANGED resizes
  PROVE  Scalars'
BY DEF Scalars

LEMMA ReturnLoop ==
  ASSUME Return
  PROVE  LoopAt'
BY DEF Return, LoopAt, Phases

LEMMA MergeMapsStep ==
  ASSUME Inv, MergeMaps
  PROVE  Inv'
<1>1. Tiers /\ Pool /\ LoopAt /\ Scalars
  BY DEF Inv
<1>2. /\ phase = "maps"
      /\ maps' = MergedPair(maps, JoinedMap(maps[at], maps[at + 1]), at)
      /\ UNCHANGED um /\ UNCHANGED log /\ UNCHANGED cutoff
  BY DEF MergeMaps, history
<1>3. at \in 1..(Len(maps) - 1) /\ Len(maps) \in Nat
  BY <1>1, <1>2, RowFacts DEF LoopAt, Tiers
<1>4. PICK e : e = JoinedMap(maps[at], maps[at + 1])
  OBVIOUS
<1>5. PICK k \in 1..(Len(maps) - 1) : k = at
  BY <1>3
<1>6. /\ e.seen = maps[k].seen \cup maps[k + 1].seen
      /\ e.min = Smaller(maps[k].min, maps[k + 1].min)
      /\ e.max = Larger(maps[k].max, maps[k + 1].max)
  BY <1>4, <1>5 DEF JoinedMap
<1>7. Row(maps) /\ Apart(maps) /\ Spans(maps, log) /\ Timed(log)
  BY <1>1, LogFacts DEF Tiers, EachInOneTier
<1>8. PICK q : q = MergedPair(maps, e, k)
  OBVIOUS
<1>9. /\ Row(q) /\ Len(q) = Len(maps) - 1 /\ Held(q) = Held(maps)
      /\ Apart(q) /\ Spans(q, log)
  BY <1>6, <1>7, <1>8, MergedTier
<1>10. maps' = q
  BY <1>2, <1>4, <1>5, <1>8
<1>11. Tiers'
  <2>1. Held(um') = Held(um) /\ Held(maps') = Held(maps) /\ log' = log /\ cutoff' = cutoff
    BY <1>2, <1>9, <1>10
  <2>2. EachInOneTier'
    BY <1>1, <1>2, <1>9, <1>10, <2>1 DEF Tiers, EachInOneTier
  <2> QED
    BY <1>1, <1>2, <1>9, <1>10, <2>2 DEF Tiers, Row
<1>12. LoopAt'
  <2>1. CASE at = 1
    <3>1. phase' = "promote"
      BY <2>1 DEF MergeMaps
    <3>2. Len(maps') \in Nat /\ Len(maps') >= 1
      BY <1>3, <1>9, <1>10
    <3> QED
      BY <3>1, <3>2 DEF LoopAt, Phases
  <2>2. CASE at # 1
    <3>1. phase' = "maps" /\ at' = at - 1
      BY <1>2, <2>2 DEF MergeMaps, OlderPair
    <3>2. at' \in 1..(Len(maps') - 1)
      BY <1>3, <1>9, <1>10, <2>2, <3>1
    <3> QED
      BY <3>1, <3>2 DEF LoopAt, Phases
  <2> QED
    BY <2>1, <2>2
<1>13. Pool' /\ Scalars'
  BY <1>1, SamePool, SameScalars DEF MergeMaps, pool, history
<1> QED
  BY <1>11, <1>12, <1>13 DEF Inv

LEMMA KeepMapsStep ==
  ASSUME Inv, KeepMaps
  PROVE  Inv'
<1>1. Tiers /\ Pool /\ LoopAt /\ Scalars
  BY DEF Inv
<1>2. phase = "maps" /\ UNCHANGED um /\ UNCHANGED maps
  BY DEF KeepMaps
<1>3. at \in 1..(Len(maps) - 1) /\ Len(maps) \in Nat
  BY <1>1, <1>2, RowFacts DEF LoopAt, Tiers
<1>4. LoopAt'
  <2>1. CASE at = 1
    <3>1. phase' = "promote"
      BY <2>1 DEF KeepMaps
    <3>2. Len(maps') >= 1
      BY <1>2, <1>3
    <3> QED
      BY <3>1, <3>2 DEF LoopAt, Phases
  <2>2. CASE at # 1
    <3>1. phase' = "maps" /\ at' = at - 1
      BY <1>2, <2>2 DEF KeepMaps, OlderPair
    <3>2. at' \in 1..(Len(maps') - 1)
      BY <1>2, <1>3, <2>2, <3>1
    <3> QED
      BY <3>1, <3>2 DEF LoopAt, Phases
  <2> QED
    BY <2>1, <2>2
<1>5. Tiers' /\ Pool' /\ Scalars'
  BY <1>1, SameTiers, SamePool, SameScalars DEF KeepMaps, pool, history
<1> QED
  BY <1>4, <1>5 DEF Inv

LEMMA PromoteTiers ==
  ASSUME Inv, Promote
  PROVE  /\ Tiers' /\ Pool'
         /\ Len(um') = Len(um) + 1
<1>1. Tiers /\ Pool /\ LoopAt /\ Scalars
  BY DEF Inv
<1> DEFINE taken == IF free = <<>> THEN Clean ELSE free[Len(free)]
<1>2. Len(free) \in Nat /\ free \in Seq({Clean}) /\ (free # <<>> => Len(free) >= 1)
  <2>1. PICK c : c = Clean
    OBVIOUS
  <2>2. free \in Seq({c})
    BY <1>1, <2>1 DEF Pool
  <2>3. Len(free) \in Nat /\ (free # <<>> => Len(free) >= 1)
    BY <2>2
  <2> QED
    BY <2>1, <2>2, <2>3
<1>3. taken = Clean
  <2>1. PICK c : c = Clean
    OBVIOUS
  <2>2. free \in Seq({c})
    BY <1>2, <2>1
  <2>3. free # <<>> => free[Len(free)] = c
    BY <1>2, <2>2
  <2> QED
    BY <2>1, <2>3
<1>4. /\ phase = "promote"
      /\ maps' = Tail(maps)
      /\ UNCHANGED log /\ UNCHANGED cutoff
      /\ \E cand \in Kept(taken.cand \cup KeysOf(log, maps[1].seen)) :
           um' = Append(um, Filled(taken, maps[1], cand))
  BY DEF Promote, history
<1> HIDE DEF taken
<1>5. PICK cand : um' = Append(um, Filled(taken, maps[1], cand))
  BY <1>4
<1>6. PICK e : e = Filled(taken, maps[1], cand)
  OBVIOUS
<1>7. e.seen = maps[1].seen /\ e.min = maps[1].min /\ e.max = maps[1].max
  BY <1>3, <1>6 DEF Filled, Clean
<1>8. /\ Row(um) /\ Apart(um) /\ Spans(um, log) /\ Len(um) \in Nat
      /\ Row(maps) /\ Apart(maps) /\ Spans(maps, log)
      /\ Len(maps) \in Nat /\ DOMAIN maps = 1..Len(maps) /\ Len(maps) >= 1
      /\ Held(um) \cap Held(maps) = {}
  BY <1>1, <1>4, RowFacts DEF Tiers, EachInOneTier, LoopAt
<1>9. 1 \in DOMAIN maps
  BY <1>8
<1>10. maps[1].seen \subseteq Held(maps)
  BY <1>9 DEF Held
<1>11. PICK u : u = Append(um, e)
  OBVIOUS
<1>12. /\ Row(u) /\ Len(u) = Len(um) + 1 /\ Held(u) = Held(um) \cup maps[1].seen
       /\ Apart(u) /\ Spans(u, log)
  <2>1. e.seen \cap Held(um) = {}
    BY <1>7, <1>8, <1>10
  <2>2. /\ e.min \in Times /\ e.max \in Times
        /\ \A o \in e.seen : o \in DOMAIN log /\ e.min <= log[o].time /\ log[o].time <= e.max
    BY <1>7, <1>8, <1>9 DEF Spans
  <2> QED
    BY <1>7, <1>8, <1>11, <2>1, <2>2, AppendedTier
<1>13. um' = u
  BY <1>5, <1>6, <1>11
<1>14. PICK r : r = Tail(maps)
  OBVIOUS
<1>15. /\ Row(r) /\ Apart(r) /\ Spans(r, log)
       /\ Held(r) \subseteq Held(maps)
       /\ Held(r) \cap maps[1].seen = {}
       /\ \A o \in Held(maps) : o \in Held(r) \/ o \in maps[1].seen
  <2>1. CASE Len(maps) = 1
    <3>1. r = <<>>
      <4>1. PICK S : maps \in Seq(S)
        BY <1>8 DEF Row
      <4> QED
        BY <1>14, <2>1, <4>1
    <3>2. \A o \in Held(maps) : o \in maps[1].seen
      <4>1. DOMAIN maps = {1}
        BY <1>8, <2>1
      <4> QED
        BY <4>1 DEF Held
    <3> QED
      BY <3>1, <3>2, EmptyTier
  <2>2. CASE Len(maps) # 1
    <3>1. 2 \in 1..Len(maps)
      BY <1>8, <2>2
    <3>2. r = SubSeq(maps, 2, Len(maps))
      <4>1. PICK S : maps \in Seq(S)
        BY <1>8 DEF Row
      <4> QED
        BY <1>8, <1>14, <2>2, <4>1
    <3>3. PICK d \in 1..Len(maps) : d = 2
      BY <3>1
    <3>4. PICK s : s = SubSeq(maps, d, Len(maps))
      OBVIOUS
    <3>5. /\ Row(s) /\ Held(s) \subseteq Held(maps) /\ Apart(s) /\ Spans(s, log)
          /\ \A j \in d..Len(maps) : maps[j].seen \subseteq Held(s)
          /\ \A j \in 1..(d - 1) : maps[j].seen \cap Held(s) = {}
      BY <1>8, <3>4, SuffixTier
    <3>6. r = s
      BY <3>2, <3>3, <3>4
    <3>7. maps[1].seen \cap Held(s) = {}
      <4>1. 1 \in 1..(d - 1)
        BY <3>3
      <4> QED
        BY <3>5, <4>1
    <3>8. ASSUME NEW o \in Held(maps)
          PROVE  o \in Held(s) \/ o \in maps[1].seen
      <4>1. PICK j \in 1..Len(maps) : o \in maps[j].seen
        BY <1>8 DEF Held
      <4>2. CASE j = 1
        BY <4>1, <4>2
      <4>3. CASE j # 1
        <5>1. j \in d..Len(maps)
          BY <1>8, <3>3, <4>3
        <5> QED
          BY <3>5, <4>1, <5>1
      <4> QED
        BY <4>2, <4>3
    <3> QED
      BY <3>5, <3>6, <3>7, <3>8
  <2> QED
    BY <2>1, <2>2
<1>16. maps' = r
  BY <1>4, <1>14
<1>17. Tiers'
  <2>1. EachInOneTier'
    <3>1. Held(um') \cap Held(maps') = {}
      BY <1>8, <1>12, <1>13, <1>15, <1>16
    <3>2. \A o \in DOMAIN log' : o \in Held(um') \cup Held(maps') \/ log'[o].time < cutoff'
      BY <1>1, <1>4, <1>12, <1>13, <1>15, <1>16 DEF Tiers, EachInOneTier
    <3> QED
      BY <1>12, <1>13, <1>15, <1>16, <3>1, <3>2 DEF EachInOneTier
  <2> QED
    BY <1>4, <1>12, <1>13, <1>15, <1>16, <2>1 DEF Tiers, Row
<1>18. Pool'
  <2>1. allocated = Len(um) + Len(free) /\ Len(um') = Len(um) + 1
    BY <1>1, <1>12, <1>13 DEF Pool
  <2>2. CASE free = <<>>
    <3>1. allocated' = allocated + 1 /\ free' = free
      BY <2>2 DEF Promote
    <3>2. allocated' = Len(um') + Len(free')
      BY <1>2, <1>8, <2>1, <3>1
    <3> QED
      BY <1>2, <3>1, <3>2 DEF Pool
  <2>3. CASE free # <<>>
    <3>1. free' = SubSeq(free, 1, Len(free) - 1) /\ allocated' = allocated
      BY <2>3 DEF Promote
    <3>2. PICK c : c = Clean
      OBVIOUS
    <3>3. free \in Seq({c})
      BY <1>2, <3>2
    <3>4. PICK g : g = SubSeq(free, 1, Len(free) - 1)
      OBVIOUS
    <3>5. g \in Seq({c}) /\ Len(g) = Len(free) - 1
      <4>1. PICK n \in Nat : n = Len(free) /\ n >= 1
        BY <1>2, <2>3
      <4>2. PICK h : h = free
        OBVIOUS
      <4>3. h \in Seq({c}) /\ n = Len(h)
        BY <3>3, <4>1, <4>2
      <4>4. SubSeq(h, 1, n - 1) \in Seq({c}) /\ Len(SubSeq(h, 1, n - 1)) = n - 1
        BY <4>1, <4>3
      <4> QED
        BY <3>4, <4>1, <4>2, <4>4
    <3>6. allocated' = Len(um') + Len(free')
      <4>1. Len(free') = Len(free) - 1
        BY <3>1, <3>4, <3>5
      <4>2. allocated' = allocated
        BY <3>1
      <4>3. Len(free) \in Nat /\ Len(um) \in Nat
        BY <1>2, <1>8
      <4> QED
        BY <2>1, <4>1, <4>2, <4>3
    <3> QED
      BY <3>1, <3>2, <3>4, <3>5, <3>6 DEF Pool
  <2> QED
    BY <2>2, <2>3
<1> QED
  BY <1>12, <1>13, <1>17, <1>18

LEMMA PromoteStep ==
  ASSUME Inv, Promote
  PROVE  Inv'
<1>1. Tiers' /\ Pool' /\ Len(um') = Len(um) + 1
  BY PromoteTiers
<1>2. Scalars'
  BY SameScalars DEF Inv, Promote, history
<1>3. LoopAt'
  <2>1. CASE um = <<>>
    <3>1. Return
      BY <2>1 DEF Promote
    <3> QED
      BY <3>1, ReturnLoop
  <2>2. CASE um # <<>>
    <3>1. phase' = "sketches" /\ at' = Len(um)
      BY <2>2 DEF Promote
    <3>2. PICK S : um \in Seq(S)
      BY DEF Inv, Tiers, Row
    <3>3. Len(um) \in Nat /\ Len(um) # 0
      BY <2>2, <3>2
    <3>4. at' \in 1..(Len(um') - 1)
      BY <1>1, <3>1, <3>3
    <3> QED
      BY <3>1, <3>4 DEF LoopAt, Phases
  <2> QED
    BY <2>1, <2>2
<1> QED
  BY <1>1, <1>2, <1>3 DEF Inv

LEMMA KeepOldestMapStep ==
  ASSUME Inv, KeepOldestMap
  PROVE  Inv'
BY SameTiers, SamePool, SameScalars, ReturnLoop DEF Inv, KeepOldestMap, pool, history

LEMMA MergeSketchesStep ==
  ASSUME Inv, MergeSketches
  PROVE  Inv'
<1>1. Tiers /\ Pool /\ LoopAt /\ Scalars
  BY DEF Inv
<1>2. /\ phase = "sketches"
      /\ \E cand \in Kept(um[at].cand \cup um[at + 1].cand) :
           um' = MergedPair(um, JoinedSketch(um[at], um[at + 1], cand), at)
      /\ free' = Append(free, Freed(SketchOf(um[at + 1])))
      /\ UNCHANGED maps /\ UNCHANGED allocated /\ UNCHANGED log /\ UNCHANGED cutoff
  BY DEF MergeSketches, history
<1>3. at \in 1..(Len(um) - 1) /\ Len(um) \in Nat
  BY <1>1, <1>2, RowFacts DEF LoopAt, Tiers
<1>4. PICK cand : um' = MergedPair(um, JoinedSketch(um[at], um[at + 1], cand), at)
  BY <1>2
<1>5. PICK e : e = JoinedSketch(um[at], um[at + 1], cand)
  OBVIOUS
<1>6. PICK k \in 1..(Len(um) - 1) : k = at
  BY <1>3
<1>7. /\ e.seen = um[k].seen \cup um[k + 1].seen
      /\ e.min = Smaller(um[k].min, um[k + 1].min)
      /\ e.max = Larger(um[k].max, um[k + 1].max)
  BY <1>5, <1>6 DEF JoinedSketch
<1>8. Row(um) /\ Apart(um) /\ Spans(um, log) /\ Timed(log)
  BY <1>1, LogFacts DEF Tiers, EachInOneTier
<1>9. PICK q : q = MergedPair(um, e, k)
  OBVIOUS
<1>10. /\ Row(q) /\ Len(q) = Len(um) - 1 /\ Held(q) = Held(um)
       /\ Apart(q) /\ Spans(q, log)
  BY <1>7, <1>8, <1>9, MergedTier
<1>11. um' = q
  BY <1>4, <1>5, <1>6, <1>9
<1>12. Tiers'
  <2>1. Held(um') = Held(um) /\ Held(maps') = Held(maps) /\ log' = log /\ cutoff' = cutoff
    BY <1>2, <1>10, <1>11
  <2>2. EachInOneTier'
    BY <1>1, <1>2, <1>10, <1>11, <2>1 DEF Tiers, EachInOneTier
  <2> QED
    BY <1>1, <1>2, <1>10, <1>11, <2>2 DEF Tiers, Row
<1>13. LoopAt'
  <2>1. CASE at = 1
    <3>1. Return
      BY <2>1 DEF MergeSketches
    <3> QED
      BY <3>1, ReturnLoop
  <2>2. CASE at # 1
    <3>1. phase' = "sketches" /\ at' = at - 1
      BY <1>2, <2>2 DEF MergeSketches, OlderPair
    <3>2. at' \in 1..(Len(um') - 1)
      BY <1>3, <1>10, <1>11, <2>2, <3>1
    <3> QED
      BY <3>1, <3>2 DEF LoopAt, Phases
  <2> QED
    BY <2>1, <2>2
<1>14. Pool'
  <2>1. PICK c : c = Clean
    OBVIOUS
  <2>2. free \in Seq({c}) /\ allocated = Len(um) + Len(free)
    BY <1>1, <2>1 DEF Pool
  <2>3. PICK g : g = Append(free, c)
    OBVIOUS
  <2>4. g \in Seq({c}) /\ Len(g) = Len(free) + 1 /\ Len(free) \in Nat
    BY <2>2, <2>3
  <2>5. free' = g
    BY <1>2, <2>1, <2>3 DEF Freed
  <2>6. Len(um') = Len(um) - 1 /\ allocated' = allocated
    BY <1>2, <1>10, <1>11
  <2>7. allocated' = Len(um') + Len(free')
    BY <1>3, <2>2, <2>4, <2>5, <2>6
  <2> QED
    BY <2>1, <2>4, <2>5, <2>7 DEF Pool
<1>15. Scalars'
  BY <1>1, SameScalars DEF MergeSketches, history
<1> QED
  BY <1>12, <1>13, <1>14, <1>15 DEF Inv

LEMMA KeepSketchesStep ==
  ASSUME Inv, KeepSketches
  PROVE  Inv'
<1>1. Tiers /\ Pool /\ LoopAt /\ Scalars
  BY DEF Inv
<1>2. phase = "sketches" /\ UNCHANGED um
  BY DEF KeepSketches
<1>3. at \in 1..(Len(um) - 1) /\ Len(um) \in Nat
  BY <1>1, <1>2, RowFacts DEF LoopAt, Tiers
<1>4. LoopAt'
  <2>1. CASE at = 1
    <3>1. Return
      BY <2>1 DEF KeepSketches
    <3> QED
      BY <3>1, ReturnLoop
  <2>2. CASE at # 1
    <3>1. phase' = "sketches" /\ at' = at - 1
      BY <1>2, <2>2 DEF KeepSketches, OlderPair
    <3>2. at' \in 1..(Len(um') - 1)
      BY <1>2, <1>3, <2>2, <3>1
    <3> QED
      BY <3>1, <3>2 DEF LoopAt, Phases
  <2> QED
    BY <2>1, <2>2
<1>5. Tiers' /\ Pool' /\ Scalars'
  BY <1>1, SameTiers, SamePool, SameScalars DEF KeepSketches, pool, history
<1> QED
  BY <1>4, <1>5 DEF Inv

LEMMA UpdateWindowStep ==
  ASSUME Inv, NEW w \in Windows, UpdateWindow(w)
  PROVE  Inv'
<1>1. Tiers' /\ Pool'
  BY SameTiers, SamePool DEF Inv, UpdateWindow, pool
<1>2. LoopAt'
  BY DEF Inv, LoopAt, UpdateWindow, loop
<1>3. Scalars'
  BY DEF Inv, Scalars, UpdateWindow
<1> QED
  BY <1>1, <1>2, <1>3 DEF Inv

LEMMA StutterStep ==
  ASSUME Inv, UNCHANGED vars
  PROVE  Inv'
<1>1. Tiers' /\ Pool' /\ Scalars'
  BY SameTiers, SamePool, SameScalars DEF Inv, vars
<1>2. LoopAt'
  BY DEF Inv, LoopAt, vars
<1> QED
  BY <1>1, <1>2 DEF Inv

(***************************************************************************)
(* The theorems.                                                           *)
(***************************************************************************)
LEMMA StepKeepsInv == Inv /\ [Next]_vars => Inv'
<1> SUFFICES ASSUME Inv, [Next]_vars
             PROVE  Inv'
  OBVIOUS
<1>1. ASSUME NEW time \in Times, NEW input \in Inputs, Update(time, input[1], input[2])
      PROVE  Inv'
  <2>1. input[1] \in Keys /\ input[2] \in Nat
    BY TiersAssumption
  <2> QED
    BY <1>1, <2>1, UpdateStep
<1>2. ASSUME NEW w \in Windows, UpdateWindow(w)
      PROVE  Inv'
  BY <1>2, UpdateWindowStep
<1>3. CASE MergeMaps
  BY <1>3, MergeMapsStep
<1>4. CASE KeepMaps
  BY <1>4, KeepMapsStep
<1>5. CASE Promote
  BY <1>5, PromoteStep
<1>6. CASE KeepOldestMap
  BY <1>6, KeepOldestMapStep
<1>7. CASE MergeSketches
  BY <1>7, MergeSketchesStep
<1>8. CASE KeepSketches
  BY <1>8, KeepSketchesStep
<1>9. CASE Done \/ UNCHANGED vars
  BY <1>9, StutterStep DEF Done
<1> QED
  BY <1>1, <1>2, <1>3, <1>4, <1>5, <1>6, <1>7, <1>8, <1>9 DEF Next

LEMMA InvAlways == Spec => []Inv
BY InitInv, StepKeepsInv, PTL DEF Spec

(* Both tiers and the pool are well formed at every turn of an update: the *)
(* inductive invariant, for every value of the constants.                  *)
THEOREM InvariantCorrect == Spec => []IInv
BY InvAlways, InvGivesIInv, PTL

(* No update of EHUnivOptimized is lost but by expiry, and none is counted *)
(* in two buckets, of one tier or of both.                                 *)
THEOREM EachInOneTierCorrect == Spec => []EachInOneTier
<1>1. IInv => EachInOneTier
  BY DEF IInv
<1> QED
  BY InvariantCorrect, <1>1, PTL

(* UnivSketchPool leaks no sketch and lends none that is not clean.        *)
THEOREM SketchPoolAccountsCorrect == Spec => []SketchPoolAccounts
<1>1. IInv => SketchPoolAccounts
  BY DEF IInv
<1> QED
  BY InvariantCorrect, <1>1, PTL


(***************************************************************************)
(* Candidates.  A sketch is lent clean, so its heap has keys of its own    *)
(* updates only, and while the heap has room it has them all.              *)
(***************************************************************************)
Tells(b, l) ==
  /\ b.cand \subseteq KeysOf(l, b.seen)
  /\ b.complete => b.cand = KeysOf(l, b.seen)

LEMMA KeptFacts ==
  ASSUME NEW keys, IsFiniteSet(keys), NEW cand \in Kept(keys)
  PROVE  cand \subseteq keys /\ (Cardinality(keys) <= HeapSize => cand = keys)
<1>1. cand \in SUBSET keys /\ Cardinality(cand) = Smaller(HeapSize, Cardinality(keys))
  BY DEF Kept
<1>2. Cardinality(keys) \in Nat /\ HeapSize \in Nat
  BY FS_CardinalityType, TiersAssumption
<1>3. ASSUME Cardinality(keys) <= HeapSize
      PROVE  cand = keys
  <2>1. Cardinality(cand) = Cardinality(keys)
    BY <1>1, <1>2, <1>3 DEF Smaller
  <2> QED
    BY <1>1, <2>1, FS_Subset
<1> QED
  BY <1>1, <1>3

LEMMA KeysAreFinite ==
  ASSUME Scalars, NEW seen, seen \subseteq DOMAIN log
  PROVE  IsFiniteSet(KeysOf(log, seen))
<1>1. IsFiniteSet(DOMAIN log)
  BY LogFacts, FS_Interval
<1>2. IsFiniteSet(seen)
  BY <1>1, FS_Subset
<1>3. PICK f : f = [o \in seen |-> log[o].key]
  OBVIOUS
<1>4. f \in Surjection(seen, KeysOf(log, seen))
  BY <1>3 DEF Surjection, KeysOf
<1> QED
  BY <1>2, <1>4, FS_Surjection

LEMMA SeenAreLogged ==
  ASSUME NEW p, NEW l, Spans(p, l), NEW i \in DOMAIN p
  PROVE  p[i].seen \subseteq DOMAIN l
BY DEF Spans

(* What a longer log says of updates that the shorter one has.             *)
LEMMA LaterTells ==
  ASSUME NEW b, NEW l, NEW m, b.seen \subseteq DOMAIN l, \A o \in DOMAIN l : m[o] = l[o],
         Tells(b, l)
  PROVE  Tells(b, m)
<1>1. KeysOf(l, b.seen) = KeysOf(m, b.seen)
  BY DEF KeysOf
<1> QED
  BY <1>1 DEF Tells

(* Expiry keeps a suffix, bucket by bucket.                                *)
LEMMA SurvivorsAre ==
  ASSUME NEW p, Row(p), NEW time
  PROVE  \E d \in 1..(Len(p) + 1) :
           /\ Len(Survivors(p, time)) = Len(p) - d + 1
           /\ DOMAIN Survivors(p, time) = 1..(Len(p) - d + 1)
           /\ \A i \in 1..(Len(p) - d + 1) :
                i + d - 1 \in 1..Len(p) /\ Survivors(p, time)[i] = p[i + d - 1]
<1>0. Len(p) \in Nat /\ DOMAIN p = 1..Len(p)
  BY RowFacts
<1>1. CASE Alive(p, time) = {}
  <2>1. Survivors(p, time) = <<>> /\ Len(<<>>) = 0 /\ DOMAIN <<>> = {}
    BY <1>1 DEF Survivors
  <2>2. PICK d \in 1..(Len(p) + 1) : d = Len(p) + 1
    BY <1>0
  <2>3. Len(p) - d + 1 = 0 /\ 1..(Len(p) - d + 1) = {}
    BY <1>0, <2>2
  <2> QED
    BY <2>1, <2>2, <2>3
<1>2. CASE Alive(p, time) # {}
  <2>1. Alive(p, time) \in SUBSET Nat /\ Alive(p, time) \subseteq 1..Len(p)
    BY <1>0 DEF Alive
  <2>2. Min(Alive(p, time)) \in Alive(p, time)
    BY <1>2, <2>1, MinOf
  <2>3. PICK d \in 1..Len(p) : d = Min(Alive(p, time))
    BY <2>1, <2>2
  <2>4. PICK q : q = SubSeq(p, d, Len(p))
    OBVIOUS
  <2>5. Row(q) /\ Len(q) = Len(p) - d + 1 /\ \A i \in 1..(Len(p) - d + 1) : q[i] = p[i + d - 1]
    BY <2>4, SuffixRow
  <2>6. DOMAIN q = 1..(Len(p) - d + 1)
    BY <2>5, RowFacts
  <2>7. Survivors(p, time) = q
    BY <1>2, <2>3, <2>4 DEF Survivors
  <2>8. d \in 1..(Len(p) + 1) /\ \A i \in 1..(Len(p) - d + 1) : i + d - 1 \in 1..Len(p)
    BY <1>0
  <2> QED
    BY <2>5, <2>6, <2>7, <2>8
<1> QED
  BY <1>1, <1>2

LEMMA PromotedTells ==
  ASSUME Scalars, NEW map, map.seen \subseteq DOMAIN log,
         NEW cand \in Kept(Clean.cand \cup KeysOf(log, map.seen))
  PROVE  Tells(Filled(Clean, map, cand), log)
<1>1. PICK keys : keys = KeysOf(log, map.seen)
  OBVIOUS
<1>2. IsFiniteSet(keys) /\ Clean.cand \cup keys = keys
  BY <1>1, KeysAreFinite DEF Clean
<1>3. cand \subseteq keys /\ (Cardinality(keys) <= HeapSize => cand = keys)
  BY <1>1, <1>2, KeptFacts
<1>4. PICK b : b = Filled(Clean, map, cand)
  OBVIOUS
<1>5. /\ b.seen = map.seen /\ b.cand = cand
      /\ b.complete => Cardinality(keys) <= HeapSize
  BY <1>1, <1>2, <1>4 DEF Filled, Clean
<1> QED
  BY <1>1, <1>3, <1>4, <1>5 DEF Tells

LEMMA JoinedTells ==
  ASSUME Scalars, NEW a, NEW b, a.seen \subseteq DOMAIN log, b.seen \subseteq DOMAIN log,
         Tells(a, log), Tells(b, log), NEW cand \in Kept(a.cand \cup b.cand)
  PROVE  Tells(JoinedSketch(a, b, cand), log)
<1>1. PICK keys : keys = KeysOf(log, a.seen \cup b.seen)
  OBVIOUS
<1>2. keys = KeysOf(log, a.seen) \cup KeysOf(log, b.seen)
  BY <1>1 DEF KeysOf
<1>3. PICK offered : offered = a.cand \cup b.cand
  OBVIOUS
<1>4. a.seen \cup b.seen \subseteq DOMAIN log
  OBVIOUS
<1>5. IsFiniteSet(keys)
  BY <1>1, <1>4, KeysAreFinite
<1>6. offered \subseteq keys
  BY <1>2, <1>3 DEF Tells
<1>7. IsFiniteSet(offered)
  BY <1>5, <1>6, FS_Subset
<1>8. cand \subseteq offered /\ (Cardinality(offered) <= HeapSize => cand = offered)
  BY <1>3, <1>7, KeptFacts
<1>9. a.complete /\ b.complete => offered = keys
  BY <1>2, <1>3 DEF Tells
<1>10. PICK e : e = JoinedSketch(a, b, cand)
  OBVIOUS
<1>11. /\ e.seen = a.seen \cup b.seen /\ e.cand = cand
       /\ e.complete <=> a.complete /\ b.complete /\ Cardinality(offered) <= HeapSize
  BY <1>3, <1>10 DEF JoinedSketch
<1>12. e.complete => cand = keys
  BY <1>8, <1>9, <1>11
<1> QED
  BY <1>1, <1>6, <1>8, <1>10, <1>11, <1>12 DEF Tells

LEMMA CandidatesStay ==
  ASSUME CandidatesTell, UNCHANGED um, UNCHANGED log
  PROVE  CandidatesTell'
BY DEF CandidatesTell

LEMMA UpdateTells ==
  ASSUME Inv, CandidatesTell, NEW time \in Times, NEW key \in Keys, NEW value \in Nat,
         Update(time, key, value)
  PROVE  CandidatesTell'
<1>1. um' = Survivors(um, time)
      /\ log' = Append(log, [time |-> time, key |-> key, value |-> value])
  BY DEF Update
<1>2. \A o \in DOMAIN log : log'[o] = log[o]
  <2>1. PICK e : e = [time |-> time, key |-> key, value |-> value]
    OBVIOUS
  <2>2. PICK S : log \in Seq(S) /\ S = Entries
    BY DEF Inv, Scalars
  <2>3. Row(log)
    BY <2>2 DEF Row
  <2> QED
    BY <1>1, <2>1, <2>3, AppendRow, RowFacts
<1>3. Row(um) /\ DOMAIN um = 1..Len(um) /\ Spans(um, log)
  BY RowFacts DEF Inv, Tiers
<1>4. PICK d \in 1..(Len(um) + 1) :
         /\ Len(Survivors(um, time)) = Len(um) - d + 1
         /\ DOMAIN Survivors(um, time) = 1..(Len(um) - d + 1)
         /\ \A i \in 1..(Len(um) - d + 1) :
              i + d - 1 \in 1..Len(um) /\ Survivors(um, time)[i] = um[i + d - 1]
  BY <1>3, SurvivorsAre
<1>5. ASSUME NEW i \in DOMAIN um'
      PROVE  Tells(um'[i], log')
  <2>1. PICK j \in 1..Len(um) : um'[i] = um[j]
    BY <1>1, <1>4
  <2>2. Tells(um[j], log) /\ um[j].seen \subseteq DOMAIN log
    BY <1>3, SeenAreLogged DEF CandidatesTell, Tells
  <2>3. Tells(um[j], log')
    BY <1>2, <2>2, LaterTells
  <2> QED
    BY <2>1, <2>3
<1> QED
  BY <1>5 DEF CandidatesTell, Tells

LEMMA CleanTaken ==
  ASSUME Inv
  PROVE  (IF free = <<>> THEN Clean ELSE free[Len(free)]) = Clean
<1>1. PICK c : c = Clean
  OBVIOUS
<1>2. free \in Seq({c})
  BY <1>1 DEF Inv, Pool
<1>3. free # <<>> => free[Len(free)] = c
  BY <1>2
<1> QED
  BY <1>1, <1>3

LEMMA PromoteTells ==
  ASSUME Inv, CandidatesTell, Promote
  PROVE  CandidatesTell'
<1>1. /\ phase = "promote" /\ log' = log
      /\ \E cand \in Kept(Clean.cand \cup KeysOf(log, maps[1].seen)) :
           um' = Append(um, Filled(Clean, maps[1], cand))
  BY CleanTaken DEF Promote, history
<1>2. PICK cand \in Kept(Clean.cand \cup KeysOf(log, maps[1].seen)) :
        um' = Append(um, Filled(Clean, maps[1], cand))
  BY <1>1
<1>3. Scalars /\ Row(um) /\ Row(maps) /\ Len(maps) \in Nat /\ DOMAIN maps = 1..Len(maps)
      /\ Len(maps) >= 1 /\ Spans(maps, log)
  BY <1>1, RowFacts DEF Inv, Tiers, LoopAt
<1>4. maps[1].seen \subseteq DOMAIN log
  <2>1. 1 \in DOMAIN maps
    BY <1>3
  <2> QED
    BY <1>3, <2>1, SeenAreLogged
<1>5. PICK e : e = Filled(Clean, maps[1], cand)
  OBVIOUS
<1>6. Tells(e, log)
  BY <1>3, <1>4, <1>5, PromotedTells
<1>7. PICK q : q = Append(um, e)
  OBVIOUS
<1>8. /\ Row(q) /\ Len(q) = Len(um) + 1 /\ (\A i \in 1..Len(um) : q[i] = um[i])
      /\ q[Len(um) + 1] = e
  BY <1>3, <1>7, AppendRow
<1>9. DOMAIN q = 1..(Len(um) + 1) /\ Len(um) \in Nat /\ DOMAIN um = 1..Len(um)
  BY <1>3, <1>8, RowFacts
<1>10. ASSUME NEW i \in DOMAIN q
       PROVE  Tells(q[i], log)
  <2>1. CASE i = Len(um) + 1
    BY <1>6, <1>8, <2>1
  <2>2. CASE i # Len(um) + 1
    <3>1. i \in DOMAIN um /\ q[i] = um[i]
      BY <1>8, <1>9, <2>2
    <3> QED
      BY <3>1 DEF CandidatesTell, Tells
  <2> QED
    BY <2>1, <2>2
<1>11. um' = q
  BY <1>2, <1>5, <1>7
<1> QED
  BY <1>1, <1>10, <1>11 DEF CandidatesTell, Tells

LEMMA MergeSketchesTells ==
  ASSUME Inv, CandidatesTell, MergeSketches
  PROVE  CandidatesTell'
<1>1. /\ phase = "sketches" /\ log' = log
      /\ \E cand \in Kept(um[at].cand \cup um[at + 1].cand) :
           um' = MergedPair(um, JoinedSketch(um[at], um[at + 1], cand), at)
  BY DEF MergeSketches, history
<1>2. Scalars /\ Row(um) /\ Len(um) \in Nat /\ DOMAIN um = 1..Len(um) /\ Spans(um, log)
      /\ at \in 1..(Len(um) - 1)
  BY <1>1, RowFacts DEF Inv, Tiers, LoopAt
<1>3. PICK k \in 1..(Len(um) - 1) : k = at
  BY <1>2
<1>4. PICK cand \in Kept(um[k].cand \cup um[k + 1].cand) :
        um' = MergedPair(um, JoinedSketch(um[k], um[k + 1], cand), k)
  BY <1>1, <1>3
<1>5. PICK e : e = JoinedSketch(um[k], um[k + 1], cand)
  OBVIOUS
<1>6. Tells(e, log)
  <2>1. k \in DOMAIN um /\ k + 1 \in DOMAIN um
    BY <1>2
  <2>2. /\ Tells(um[k], log) /\ Tells(um[k + 1], log)
        /\ um[k].seen \subseteq DOMAIN log /\ um[k + 1].seen \subseteq DOMAIN log
    BY <1>2, <2>1, SeenAreLogged DEF CandidatesTell, Tells
  <2> QED
    BY <1>2, <1>5, <2>2, JoinedTells
<1>7. PICK q : q = Spliced(um, e, k)
  OBVIOUS
<1>8. /\ Row(q) /\ Len(q) = Len(um) - 1
      /\ \A i \in 1..(k - 1) : q[i] = um[i]
      /\ q[k] = e
      /\ \A i \in (k + 1)..(Len(um) - 1) : q[i] = um[i + 1]
  <2>1. Row(um)
    BY <1>2
  <2>2. /\ Row(Spliced(um, e, k)) /\ Len(Spliced(um, e, k)) = Len(um) - 1
        /\ \A i \in 1..(k - 1) : Spliced(um, e, k)[i] = um[i]
        /\ Spliced(um, e, k)[k] = e
        /\ \A i \in (k + 1)..(Len(um) - 1) : Spliced(um, e, k)[i] = um[i + 1]
    BY <2>1, SplicedRow
  <2> QED
    BY <1>7, <2>2
<1>9. DOMAIN q = 1..(Len(um) - 1)
  BY <1>8, RowFacts
<1>10. ASSUME NEW i \in DOMAIN q
       PROVE  Tells(q[i], log)
  <2>1. CASE i = k
    BY <1>6, <1>8, <2>1
  <2>2. CASE i < k
    <3>1. i \in DOMAIN um /\ q[i] = um[i]
      BY <1>2, <1>8, <1>9, <2>2
    <3> QED
      BY <3>1 DEF CandidatesTell, Tells
  <2>3. CASE i > k
    <3>1. i + 1 \in DOMAIN um /\ q[i] = um[i + 1]
      BY <1>2, <1>8, <1>9, <2>3
    <3> QED
      BY <3>1 DEF CandidatesTell, Tells
  <2> QED
    BY <1>2, <1>9, <2>1, <2>2, <2>3
<1>11. um' = q
  BY <1>4, <1>5, <1>7 DEF MergedPair, Spliced
<1> QED
  BY <1>1, <1>10, <1>11 DEF CandidatesTell, Tells

LEMMA StepTells ==
  ASSUME Inv, CandidatesTell, [Next]_vars
  PROVE  CandidatesTell'
<1>1. ASSUME NEW time \in Times, NEW input \in Inputs, Update(time, input[1], input[2])
      PROVE  CandidatesTell'
  <2>1. input[1] \in Keys /\ input[2] \in Nat
    BY TiersAssumption
  <2> QED
    BY <1>1, <2>1, UpdateTells
<1>2. CASE Promote
  BY <1>2, PromoteTells
<1>3. CASE MergeSketches
  BY <1>3, MergeSketchesTells
<1>4. CASE \/ \E w \in Windows : UpdateWindow(w)
           \/ MergeMaps \/ KeepMaps \/ KeepOldestMap \/ KeepSketches
           \/ Done \/ UNCHANGED vars
  <2>1. um' = um /\ log' = log
    BY <1>4 DEF UpdateWindow, MergeMaps, KeepMaps, KeepOldestMap, KeepSketches, Done, vars, history
  <2> QED
    BY <2>1, CandidatesStay
<1> QED
  BY <1>1, <1>2, <1>3, <1>4 DEF Next

(* A sketch that claims a complete candidate set has exactly the keys of   *)
(* the updates it counted, whatever merges its bucket went through and     *)
(* whoever had the sketch before: the pool lends it clean.                 *)
THEOREM CandidatesTellCorrect == Spec => []CandidatesTell
<1>1. Init => CandidatesTell
  BY DEF Init, CandidatesTell
<1>2. Inv /\ CandidatesTell /\ [Next]_vars => CandidatesTell'
  BY StepTells
<1> QED
  BY <1>1, <1>2, InvAlways, PTL DEF Spec


(***************************************************************************)
(* The layout.  A bucket's ends are times of its own updates, and updates  *)
(* in order of time leave the buckets of each tier in order, the sketches  *)
(* before the maps.                                                        *)
(***************************************************************************)
EndsTaken(p, l) ==
  \A i \in 1..Len(p) :
    /\ \E o \in p[i].seen : l[o].time = p[i].min
    /\ \E o \in p[i].seen : l[o].time = p[i].max

Before(p, q) == \A i \in 1..Len(p), j \in 1..Len(q) : p[i].max <= q[j].min

Sorted(p) == \A i, j \in 1..Len(p) : i < j => p[i].max <= p[j].min

Layout ==
  /\ EndsTaken(um, log)
  /\ EndsTaken(maps, log)
  /\ InOrder => Sorted(um) /\ Sorted(maps) /\ Before(um, maps)

(* Expiry, promotion and merging leave a coarser row: each bucket comes of *)
(* one bucket of the row before, or of two, in the order they had.         *)
Coarsened(q, p, f, g) ==
  /\ f \in [1..Len(q) -> 1..Len(p)]
  /\ g \in [1..Len(q) -> 1..Len(p)]
  /\ \A i, j \in 1..Len(q) : i < j => f[i] < f[j] /\ f[i] < g[j] /\ g[i] < f[j] /\ g[i] < g[j]
  /\ \A i \in 1..Len(q) :
       /\ q[i].seen = p[f[i]].seen \cup p[g[i]].seen
       /\ q[i].min \in {p[f[i]].min, p[g[i]].min}
       /\ q[i].max \in {p[f[i]].max, p[g[i]].max}

Coarser(q, p) == \E f, g : Coarsened(q, p, f, g)

LEMMA CoarserKeeps ==
  ASSUME NEW p, NEW q, Coarser(q, p)
  PROVE  /\ \A l : EndsTaken(p, l) => EndsTaken(q, l)
         /\ Sorted(p) => Sorted(q)
         /\ \A r : Before(p, r) => Before(q, r)
         /\ \A r : Before(r, p) => Before(r, q)
<1>1. PICK f, g : Coarsened(q, p, f, g)
  BY DEF Coarser
<1>2. /\ \A i \in 1..Len(q) :
           /\ f[i] \in 1..Len(p)
           /\ g[i] \in 1..Len(p)
           /\ q[i].seen = p[f[i]].seen \cup p[g[i]].seen
           /\ q[i].min \in {p[f[i]].min, p[g[i]].min}
           /\ q[i].max \in {p[f[i]].max, p[g[i]].max}
      /\ \A i, j \in 1..Len(q) : i < j => f[i] < f[j] /\ f[i] < g[j] /\ g[i] < f[j] /\ g[i] < g[j]
  BY <1>1 DEF Coarsened
<1>3. ASSUME NEW l, EndsTaken(p, l), NEW i \in 1..Len(q)
      PROVE  /\ \E o \in q[i].seen : l[o].time = q[i].min
             /\ \E o \in q[i].seen : l[o].time = q[i].max
  <2>1. /\ \E o \in p[f[i]].seen : l[o].time = p[f[i]].min
        /\ \E o \in p[f[i]].seen : l[o].time = p[f[i]].max
        /\ \E o \in p[g[i]].seen : l[o].time = p[g[i]].min
        /\ \E o \in p[g[i]].seen : l[o].time = p[g[i]].max
    BY <1>2, <1>3 DEF EndsTaken
  <2>2. \E o \in q[i].seen : l[o].time = q[i].min
    <3>1. CASE q[i].min = p[f[i]].min
      BY <1>2, <2>1, <3>1
    <3>2. CASE q[i].min = p[g[i]].min
      BY <1>2, <2>1, <3>2
    <3> QED
      BY <1>2, <3>1, <3>2
  <2>3. \E o \in q[i].seen : l[o].time = q[i].max
    <3>1. CASE q[i].max = p[f[i]].max
      BY <1>2, <2>1, <3>1
    <3>2. CASE q[i].max = p[g[i]].max
      BY <1>2, <2>1, <3>2
    <3> QED
      BY <1>2, <3>1, <3>2
  <2> QED
    BY <2>2, <2>3
<1>4. ASSUME Sorted(p), NEW i \in 1..Len(q), NEW j \in 1..Len(q), i < j
      PROVE  q[i].max <= q[j].min
  <2>1. /\ f[i] < f[j] /\ f[i] < g[j] /\ g[i] < f[j] /\ g[i] < g[j]
        /\ f[i] \in 1..Len(p) /\ g[i] \in 1..Len(p) /\ f[j] \in 1..Len(p) /\ g[j] \in 1..Len(p)
    BY <1>2, <1>4
  <2>2. /\ p[f[i]].max <= p[f[j]].min /\ p[f[i]].max <= p[g[j]].min
        /\ p[g[i]].max <= p[f[j]].min /\ p[g[i]].max <= p[g[j]].min
    BY <1>4, <2>1 DEF Sorted
  <2> QED
    BY <1>2, <2>2
<1>5. ASSUME NEW r, Before(p, r), NEW i \in 1..Len(q), NEW j \in 1..Len(r)
      PROVE  q[i].max <= r[j].min
  <2>1. p[f[i]].max <= r[j].min /\ p[g[i]].max <= r[j].min
    BY <1>2, <1>5 DEF Before
  <2> QED
    BY <1>2, <2>1
<1>6. ASSUME NEW r, Before(r, p), NEW i \in 1..Len(r), NEW j \in 1..Len(q)
      PROVE  r[i].max <= q[j].min
  <2>1. r[i].max <= p[f[j]].min /\ r[i].max <= p[g[j]].min
    BY <1>2, <1>6 DEF Before
  <2> QED
    BY <1>2, <2>1
<1> QED
  BY <1>3, <1>4, <1>5, <1>6 DEF EndsTaken, Sorted, Before

LEMMA SameIsCoarser ==
  ASSUME NEW p, Row(p)
  PROVE  Coarser(p, p)
<1>1. PICK f : f = [i \in 1..Len(p) |-> i]
  OBVIOUS
<1>2. f \in [1..Len(p) -> 1..Len(p)] /\ \A i \in 1..Len(p) : f[i] = i
  BY <1>1
<1>3. Coarsened(p, p, f, f)
  BY <1>2 DEF Coarsened
<1> QED
  BY <1>3 DEF Coarser

(* What is left of a row from bucket d on.                                 *)
LEMMA ShiftedIsCoarser ==
  ASSUME NEW p, Row(p), NEW q, NEW d \in 1..(Len(p) + 1),
         Len(q) = Len(p) - d + 1,
         \A i \in 1..(Len(p) - d + 1) : q[i] = p[i + d - 1]
  PROVE  Coarser(q, p)
<1>0. Len(p) \in Nat
  BY RowFacts
<1>1. PICK m \in Nat : m = Len(p) - d + 1
  BY <1>0
<1>2. PICK f : f = [i \in 1..m |-> i + d - 1]
  OBVIOUS
<1>3. \A i \in 1..m : i + d - 1 \in 1..Len(p)
  BY <1>0, <1>1
<1>4. f \in [1..m -> 1..Len(p)] /\ \A i \in 1..m : f[i] = i + d - 1
  BY <1>2, <1>3
<1>5. \A i, j \in 1..m : i < j => f[i] < f[j]
  <2> TAKE i, j \in 1..m
  <2>1. i < j => i + d - 1 < j + d - 1
    OBVIOUS
  <2> QED
    BY <1>4, <2>1
<1>6. \A i \in 1..m : q[i] = p[f[i]]
  BY <1>1, <1>4
<1>7. Len(q) = m
  BY <1>1
<1>8. Coarsened(q, p, f, f)
  BY <1>4, <1>5, <1>6, <1>7 DEF Coarsened
<1> QED
  BY <1>8 DEF Coarser

LEMMA SurvivorsAreCoarser ==
  ASSUME NEW p, Row(p), NEW time
  PROVE  Coarser(Survivors(p, time), p)
<1>1. PICK q : q = Survivors(p, time)
  OBVIOUS
<1>2. PICK d \in 1..(Len(p) + 1) :
         /\ Len(q) = Len(p) - d + 1
         /\ \A i \in 1..(Len(p) - d + 1) : q[i] = p[i + d - 1]
  BY <1>1, SurvivorsAre, ZenonT(60)
<1>3. Coarser(q, p)
  BY <1>2, ShiftedIsCoarser
<1> QED
  BY <1>1, <1>3

LEMMA MergedIsCoarser ==
  ASSUME NEW p, Row(p), NEW k \in 1..(Len(p) - 1), NEW e,
         e.seen = p[k].seen \cup p[k + 1].seen,
         e.min = Smaller(p[k].min, p[k + 1].min),
         e.max = Larger(p[k].max, p[k + 1].max)
  PROVE  Coarser(MergedPair(p, e, k), p)
<1>0. Len(p) \in Nat
  BY RowFacts
<1>1. PICK m \in Nat : m = Len(p) - 1
  BY <1>0
<1>2. PICK q : q = MergedPair(p, e, k)
  OBVIOUS
<1>3. /\ Len(q) = m
      /\ \A i \in 1..(k - 1) : q[i] = p[i]
      /\ q[k] = e
      /\ \A i \in (k + 1)..m : q[i] = p[i + 1]
  <2>1. /\ Len(Spliced(p, e, k)) = Len(p) - 1
        /\ \A i \in 1..(k - 1) : Spliced(p, e, k)[i] = p[i]
        /\ Spliced(p, e, k)[k] = e
        /\ \A i \in (k + 1)..(Len(p) - 1) : Spliced(p, e, k)[i] = p[i + 1]
    BY SplicedRow
  <2>2. q = Spliced(p, e, k)
    BY <1>2 DEF MergedPair, Spliced
  <2> QED
    BY <1>1, <2>1, <2>2
<1>4. PICK f : f = [i \in 1..m |-> IF i <= k THEN i ELSE i + 1]
  OBVIOUS
<1>5. PICK g : g = [i \in 1..m |-> IF i < k THEN i ELSE i + 1]
  OBVIOUS
<1>6. \A i \in 1..m : /\ f[i] = (IF i <= k THEN i ELSE i + 1)
                      /\ g[i] = (IF i < k THEN i ELSE i + 1)
  BY <1>4, <1>5
<1>7. f \in [1..m -> 1..Len(p)] /\ g \in [1..m -> 1..Len(p)]
  BY <1>0, <1>1, <1>4, <1>5
<1>8. \A i, j \in 1..m : i < j => f[i] < f[j] /\ f[i] < g[j] /\ g[i] < f[j] /\ g[i] < g[j]
  BY <1>6
<1>9. ASSUME NEW i \in 1..m
      PROVE  /\ q[i].seen = p[f[i]].seen \cup p[g[i]].seen
             /\ q[i].min \in {p[f[i]].min, p[g[i]].min}
             /\ q[i].max \in {p[f[i]].max, p[g[i]].max}
  <2>1. CASE i < k
    <3>1. f[i] = i /\ g[i] = i /\ q[i] = p[i]
      BY <1>3, <1>6, <2>1
    <3> QED
      BY <3>1
  <2>2. CASE i > k
    <3>1. f[i] = i + 1 /\ g[i] = i + 1 /\ q[i] = p[i + 1]
      BY <1>3, <1>6, <2>2
    <3> QED
      BY <3>1
  <2>3. CASE i = k
    <3>1. f[i] = k /\ g[i] = k + 1 /\ q[i] = e
      BY <1>3, <1>6, <2>3
    <3> QED
      BY <3>1 DEF Smaller, Larger
  <2> QED
    BY <2>1, <2>2, <2>3
<1>10. Coarsened(q, p, f, g)
  BY <1>3, <1>7, <1>8, <1>9 DEF Coarsened
<1> QED
  BY <1>2, <1>10 DEF Coarser


(* The newest bucket comes, with ends of its own.                          *)
LEMMA AppendedEnds ==
  ASSUME NEW p, Row(p), NEW b, NEW l, EndsTaken(p, l),
         \E o \in b.seen : l[o].time = b.min,
         \E o \in b.seen : l[o].time = b.max
  PROVE  EndsTaken(Append(p, b), l)
<1>1. PICK q : q = Append(p, b)
  OBVIOUS
<1>2. Len(q) = Len(p) + 1 /\ (\A i \in 1..Len(p) : q[i] = p[i]) /\ q[Len(p) + 1] = b
  BY <1>1, AppendRow
<1>3. \A i \in 1..(Len(p) + 1) : i \in 1..Len(p) \/ i = Len(p) + 1
  BY RowFacts
<1>4. EndsTaken(q, l)
  BY <1>2, <1>3 DEF EndsTaken
<1> QED
  BY <1>1, <1>4

LEMMA AppendedSorted ==
  ASSUME NEW p, Row(p), NEW b, Sorted(p), \A i \in 1..Len(p) : p[i].max <= b.min
  PROVE  Sorted(Append(p, b))
<1>1. PICK q : q = Append(p, b)
  OBVIOUS
<1>2. Len(q) = Len(p) + 1 /\ (\A i \in 1..Len(p) : q[i] = p[i]) /\ q[Len(p) + 1] = b
  BY <1>1, AppendRow
<1>3. Len(p) \in Nat
  BY RowFacts
<1>4. ASSUME NEW i \in 1..(Len(p) + 1), NEW j \in 1..(Len(p) + 1), i < j
      PROVE  q[i].max <= q[j].min
  <2>1. i \in 1..Len(p) /\ q[i] = p[i]
    BY <1>2, <1>3, <1>4
  <2>2. CASE j = Len(p) + 1
    BY <1>2, <2>1, <2>2
  <2>3. CASE j \in 1..Len(p)
    BY <1>2, <1>4, <2>1, <2>3 DEF Sorted
  <2> QED
    BY <1>3, <2>2, <2>3
<1>5. Sorted(q)
  BY <1>2, <1>4 DEF Sorted
<1> QED
  BY <1>1, <1>5

LEMMA AppendedBefore ==
  ASSUME NEW p, Row(p), NEW b, NEW r
  PROVE  /\ Before(p, r) /\ (\A j \in 1..Len(r) : b.max <= r[j].min) => Before(Append(p, b), r)
         /\ Before(r, p) /\ (\A i \in 1..Len(r) : r[i].max <= b.min) => Before(r, Append(p, b))
<1>1. PICK q : q = Append(p, b)
  OBVIOUS
<1>2. Len(q) = Len(p) + 1 /\ (\A i \in 1..Len(p) : q[i] = p[i]) /\ q[Len(p) + 1] = b
  BY <1>1, AppendRow
<1>3. \A i \in 1..(Len(p) + 1) : i \in 1..Len(p) \/ i = Len(p) + 1
  BY RowFacts
<1>4. Before(p, r) /\ (\A j \in 1..Len(r) : b.max <= r[j].min) => Before(q, r)
  BY <1>2, <1>3 DEF Before
<1>5. Before(r, p) /\ (\A i \in 1..Len(r) : r[i].max <= b.min) => Before(r, q)
  BY <1>2, <1>3 DEF Before
<1> QED
  BY <1>1, <1>4, <1>5

LEMMA LongerEnds ==
  ASSUME NEW p, NEW l, NEW m, EndsTaken(p, l), Row(p), Spans(p, l),
         \A o \in DOMAIN l : m[o] = l[o]
  PROVE  EndsTaken(p, m)
<1>1. \A i \in 1..Len(p) : p[i].seen \subseteq DOMAIN l
  BY RowFacts DEF Spans
<1> QED
  BY <1>1 DEF EndsTaken

(* The new update is as late as every bucket's end.                        *)
LEMMA LaterThanAll ==
  ASSUME NEW p, Row(p), NEW l, Spans(p, l), EndsTaken(p, l), NEW t,
         \A o \in DOMAIN l : l[o].time <= t, NEW i \in 1..Len(p)
  PROVE  p[i].max <= t
<1>1. \E o \in p[i].seen : l[o].time = p[i].max
  BY DEF EndsTaken
<1>2. p[i].seen \subseteq DOMAIN l
  BY RowFacts DEF Spans
<1> QED
  BY <1>1, <1>2

LEMMA UpdateKeepsLayout ==
  ASSUME Inv, Layout, NEW time \in Times, NEW key \in Keys, NEW value \in Nat,
         Update(time, key, value)
  PROVE  Layout'
<1> DEFINE entry == [time |-> time, key |-> key, value |-> value]
           new   == [seen |-> {Len(log) + 1}, l22 |-> value * value, min |-> time, max |-> time]
<1>1. /\ um' = Survivors(um, time)
      /\ maps' = Append(Survivors(maps, time), new)
      /\ log' = Append(log, entry)
  BY DEF Update
<1>2. /\ new.seen = {Len(log) + 1} /\ new.min = time /\ new.max = time
      /\ entry.time = time
  OBVIOUS
<1> HIDE DEF entry, new
<1>3. /\ Row(um) /\ Row(maps) /\ Spans(um, log) /\ Spans(maps, log)
      /\ Apart(um) /\ Apart(maps) /\ Scalars
  BY DEF Inv, Tiers, EachInOneTier
<1>4. /\ Len(log) \in Nat /\ DOMAIN log = 1..Len(log) /\ Row(log)
  BY <1>3, LogFacts DEF Scalars, Row
<1>5. PICK l : l = log'
  OBVIOUS
<1>6. /\ DOMAIN l = 1..(Len(log) + 1)
      /\ \A o \in DOMAIN log : l[o] = log[o]
      /\ l[Len(log) + 1] = entry
  <2>1. PICK b : b = entry
    OBVIOUS
  <2>2. /\ Row(Append(log, b)) /\ Len(Append(log, b)) = Len(log) + 1
        /\ \A i \in 1..Len(log) : Append(log, b)[i] = log[i]
        /\ Append(log, b)[Len(log) + 1] = b
    BY <1>4, AppendRow
  <2>3. DOMAIN Append(log, b) = 1..(Len(log) + 1)
    BY <2>2, RowFacts
  <2> QED
    BY <1>1, <1>4, <1>5, <2>1, <2>2, <2>3
<1>7. PICK s : s = Survivors(um, time)
  OBVIOUS
<1>8. PICK r : r = Survivors(maps, time)
  OBVIOUS
<1>9. /\ Row(s) /\ Coarser(s, um) /\ Spans(s, log)
      /\ Row(r) /\ Coarser(r, maps) /\ Spans(r, log)
  BY <1>3, <1>7, <1>8, SurvivingTier, SurvivorsAreCoarser
<1>10. EndsTaken(s, log) /\ EndsTaken(r, log)
  BY <1>9, CoarserKeeps DEF Layout
<1>11. EndsTaken(s, l) /\ EndsTaken(r, l)
  BY <1>6, <1>9, <1>10, LongerEnds
<1>12. PICK b : b = new
  OBVIOUS
<1>13. um' = s /\ maps' = Append(r, b)
  BY <1>1, <1>7, <1>8, <1>12
<1>14. EndsTaken(Append(r, b), l)
  <2>1. b.seen = {Len(log) + 1} /\ b.min = time /\ b.max = time /\ l[Len(log) + 1].time = time
    BY <1>2, <1>6, <1>12
  <2>2. /\ \E o \in b.seen : l[o].time = b.min
        /\ \E o \in b.seen : l[o].time = b.max
    BY <2>1
  <2> QED
    BY <1>9, <1>11, <2>2, AppendedEnds
<1>15. ASSUME InOrder'
       PROVE  Sorted(um') /\ Sorted(maps') /\ Before(um', maps')
  <2>1. \A o, q \in 1..(Len(log) + 1) : o < q => l[o].time <= l[q].time
    BY <1>5, <1>6, <1>15 DEF InOrder
  <2>2. InOrder
    <3>1. ASSUME NEW o \in 1..Len(log), NEW q \in 1..Len(log), o < q
          PROVE  log[o].time <= log[q].time
      <4>1. o \in 1..(Len(log) + 1) /\ q \in 1..(Len(log) + 1)
        BY <1>4
      <4>2. l[o] = log[o] /\ l[q] = log[q]
        BY <1>4, <1>6
      <4> QED
        BY <2>1, <3>1, <4>1, <4>2
    <3> QED
      BY <1>4, <3>1 DEF InOrder
  <2>3. \A o \in DOMAIN log : log[o].time <= time
    <3>1. ASSUME NEW o \in 1..Len(log)
          PROVE  log[o].time <= time
      <4>1. o \in 1..(Len(log) + 1) /\ Len(log) + 1 \in 1..(Len(log) + 1) /\ o < Len(log) + 1
        BY <1>4
      <4>2. l[o].time <= l[Len(log) + 1].time
        BY <2>1, <4>1
      <4> QED
        BY <1>2, <1>4, <1>6, <4>2
    <3> QED
      BY <1>4, <3>1
  <2>4. Sorted(s) /\ Sorted(r)
    BY <1>9, <2>2, CoarserKeeps DEF Layout
  <2>5. Before(s, r)
    <3>1. Before(um, maps)
      BY <2>2 DEF Layout
    <3>2. Before(s, maps)
      BY <1>9, <3>1, CoarserKeeps
    <3> QED
      BY <1>9, <3>2, CoarserKeeps
  <2>6. \A i \in 1..Len(s) : s[i].max <= time
    BY <1>9, <1>10, <2>3, LaterThanAll
  <2>7. \A i \in 1..Len(r) : r[i].max <= time
    BY <1>9, <1>10, <2>3, LaterThanAll
  <2>8. b.min = time
    BY <1>2, <1>12
  <2>9. Sorted(Append(r, b)) /\ Before(s, Append(r, b))
    BY <1>9, <2>4, <2>5, <2>6, <2>7, <2>8, AppendedSorted, AppendedBefore
  <2> QED
    BY <1>13, <2>4, <2>9
<1> QED
  BY <1>5, <1>11, <1>13, <1>14, <1>15 DEF Layout

LEMMA PromoteKeepsLayout ==
  ASSUME Inv, Layout, Promote
  PROVE  Layout'
<1>1. /\ phase = "promote" /\ log' = log /\ maps' = Tail(maps)
      /\ \E cand \in Kept(Clean.cand \cup KeysOf(log, maps[1].seen)) :
           um' = Append(um, Filled(Clean, maps[1], cand))
  BY CleanTaken DEF Promote, history
<1>2. /\ Row(um) /\ Row(maps) /\ Len(maps) \in Nat /\ Len(maps) >= 1
      /\ Spans(um, log) /\ Spans(maps, log)
  BY <1>1, RowFacts DEF Inv, Tiers, LoopAt
<1>3. PICK cand : um' = Append(um, Filled(Clean, maps[1], cand))
  BY <1>1
<1>4. PICK b : b = Filled(Clean, maps[1], cand)
  OBVIOUS
<1>5. b.seen = maps[1].seen /\ b.min = maps[1].min /\ b.max = maps[1].max
  BY <1>4 DEF Filled, Clean
<1>6. PICK r : r = Tail(maps)
  OBVIOUS
<1>7. /\ Len(r) = Len(maps) - 1
      /\ \A i \in 1..(Len(maps) - 1) : r[i] = maps[i + 1]
  <2>1. PICK S : maps \in Seq(S)
    BY <1>2 DEF Row
  <2> QED
    BY <1>2, <1>6, <2>1
<1>8. Coarser(r, maps)
  <2>1. PICK d \in 1..(Len(maps) + 1) : d = 2
    BY <1>2
  <2>2. Len(r) = Len(maps) - d + 1 /\ \A i \in 1..(Len(maps) - d + 1) : r[i] = maps[i + d - 1]
    BY <1>2, <1>7, <2>1
  <2> QED
    BY <1>2, <2>2, ShiftedIsCoarser
<1>9. EndsTaken(r, log)
  BY <1>8, CoarserKeeps DEF Layout
<1>10. EndsTaken(Append(um, b), log)
  <2>1. 1 \in 1..Len(maps)
    BY <1>2
  <2>2. /\ \E o \in b.seen : log[o].time = b.min
        /\ \E o \in b.seen : log[o].time = b.max
    BY <1>5, <2>1 DEF Layout, EndsTaken
  <2> QED
    BY <1>2, <2>2, AppendedEnds DEF Layout
<1>11. ASSUME InOrder
       PROVE  Sorted(Append(um, b)) /\ Sorted(r) /\ Before(Append(um, b), r)
  <2>1. Sorted(um) /\ Sorted(maps) /\ Before(um, maps) /\ 1 \in 1..Len(maps)
    BY <1>2, <1>11 DEF Layout
  <2>2. Sorted(r) /\ Before(um, r)
    BY <1>8, <2>1, CoarserKeeps
  <2>3. \A i \in 1..Len(um) : um[i].max <= b.min
    BY <1>5, <2>1 DEF Before
  <2>4. ASSUME NEW j \in 1..Len(r)
        PROVE  b.max <= r[j].min
    <3>1. j + 1 \in 1..Len(maps) /\ r[j] = maps[j + 1] /\ 1 < j + 1
      BY <1>2, <1>7
    <3> QED
      BY <1>5, <2>1, <3>1 DEF Sorted
  <2> QED
    BY <1>2, <2>1, <2>2, <2>3, <2>4, AppendedSorted, AppendedBefore
<1>12. InOrder' => InOrder
  BY <1>1 DEF InOrder
<1> QED
  BY <1>1, <1>3, <1>4, <1>6, <1>9, <1>10, <1>11, <1>12 DEF Layout

LEMMA CoarserLayout ==
  ASSUME Layout, log' = log, Coarser(um', um), Coarser(maps', maps)
  PROVE  Layout'
<1>1. PICK s : s = um'
  OBVIOUS
<1>2. PICK r : r = maps'
  OBVIOUS
<1>3. EndsTaken(s, log) /\ EndsTaken(r, log)
  BY <1>1, <1>2, CoarserKeeps DEF Layout
<1>4. ASSUME InOrder
      PROVE  Sorted(s) /\ Sorted(r) /\ Before(s, r)
  <2>1. Sorted(um) /\ Sorted(maps) /\ Before(um, maps)
    BY <1>4 DEF Layout
  <2>2. Sorted(s) /\ Sorted(r) /\ Before(s, maps)
    BY <1>1, <1>2, <2>1, CoarserKeeps
  <2>3. Before(s, r)
    BY <1>2, <2>2, CoarserKeeps
  <2> QED
    BY <2>2, <2>3
<1>5. InOrder' => InOrder
  BY DEF InOrder
<1> QED
  BY <1>1, <1>2, <1>3, <1>4, <1>5 DEF Layout

LEMMA MergeMapsKeepsLayout ==
  ASSUME Inv, Layout, MergeMaps
  PROVE  Layout'
<1>1. /\ phase = "maps" /\ log' = log /\ um' = um
      /\ maps' = MergedPair(maps, JoinedMap(maps[at], maps[at + 1]), at)
  BY DEF MergeMaps, history
<1>2. Row(um) /\ Row(maps) /\ at \in 1..(Len(maps) - 1)
  BY <1>1 DEF Inv, Tiers, LoopAt
<1>3. PICK e : e = JoinedMap(maps[at], maps[at + 1])
  OBVIOUS
<1>4. PICK k \in 1..(Len(maps) - 1) : k = at
  BY <1>2
<1>5. /\ e.seen = maps[k].seen \cup maps[k + 1].seen
      /\ e.min = Smaller(maps[k].min, maps[k + 1].min)
      /\ e.max = Larger(maps[k].max, maps[k + 1].max)
  BY <1>3, <1>4 DEF JoinedMap
<1>6. Coarser(MergedPair(maps, e, k), maps)
  BY <1>2, <1>5, MergedIsCoarser
<1>7. Coarser(maps', maps) /\ Coarser(um', um)
  BY <1>1, <1>2, <1>3, <1>4, <1>6, SameIsCoarser
<1> QED
  BY <1>1, <1>7, CoarserLayout

LEMMA MergeSketchesKeepsLayout ==
  ASSUME Inv, Layout, MergeSketches
  PROVE  Layout'
<1>1. /\ phase = "sketches" /\ log' = log /\ maps' = maps
      /\ \E cand \in Kept(um[at].cand \cup um[at + 1].cand) :
           um' = MergedPair(um, JoinedSketch(um[at], um[at + 1], cand), at)
  BY DEF MergeSketches, history
<1>2. Row(um) /\ Row(maps) /\ at \in 1..(Len(um) - 1)
  BY <1>1 DEF Inv, Tiers, LoopAt
<1>3. PICK cand : um' = MergedPair(um, JoinedSketch(um[at], um[at + 1], cand), at)
  BY <1>1
<1>4. PICK e : e = JoinedSketch(um[at], um[at + 1], cand)
  OBVIOUS
<1>5. PICK k \in 1..(Len(um) - 1) : k = at
  BY <1>2
<1>6. /\ e.seen = um[k].seen \cup um[k + 1].seen
      /\ e.min = Smaller(um[k].min, um[k + 1].min)
      /\ e.max = Larger(um[k].max, um[k + 1].max)
  BY <1>4, <1>5 DEF JoinedSketch
<1>7. Coarser(MergedPair(um, e, k), um)
  BY <1>2, <1>6, MergedIsCoarser
<1>8. Coarser(um', um) /\ Coarser(maps', maps)
  BY <1>1, <1>2, <1>3, <1>4, <1>5, <1>7, SameIsCoarser
<1> QED
  BY <1>1, <1>8, CoarserLayout

LEMMA StepKeepsLayout ==
  ASSUME Inv, Layout, [Next]_vars
  PROVE  Layout'
<1>1. ASSUME NEW time \in Times, NEW input \in Inputs, Update(time, input[1], input[2])
      PROVE  Layout'
  <2>1. input[1] \in Keys /\ input[2] \in Nat
    BY TiersAssumption
  <2> QED
    BY <1>1, <2>1, UpdateKeepsLayout
<1>2. CASE Promote
  BY <1>2, PromoteKeepsLayout
<1>3. CASE MergeMaps
  BY <1>3, MergeMapsKeepsLayout
<1>4. CASE MergeSketches
  BY <1>4, MergeSketchesKeepsLayout
<1>5. CASE \/ \E w \in Windows : UpdateWindow(w)
           \/ KeepMaps \/ KeepOldestMap \/ KeepSketches
           \/ Done \/ UNCHANGED vars
  <2>1. um' = um /\ maps' = maps /\ log' = log
    BY <1>5 DEF UpdateWindow, KeepMaps, KeepOldestMap, KeepSketches, Done, vars, history
  <2>2. Coarser(um', um) /\ Coarser(maps', maps)
    BY <2>1, SameIsCoarser DEF Inv, Tiers
  <2> QED
    BY <2>1, <2>2, CoarserLayout
<1> QED
  BY <1>1, <1>2, <1>3, <1>4, <1>5 DEF Next

LEMMA InitLayout == Init => Layout
<1> SUFFICES ASSUME Init PROVE Layout
  OBVIOUS
<1>1. um = <<>> /\ maps = <<>> /\ Len(<<>>) = 0
  BY DEF Init
<1>2. 1..Len(um) = {} /\ 1..Len(maps) = {}
  BY <1>1
<1> QED
  BY <1>2 DEF Layout, EndsTaken, Sorted, Before

LEMMA LayoutAlways == Spec => []Layout
BY InitLayout, StepKeepsLayout, InvAlways, PTL DEF Spec


(***************************************************************************)
(* query_interval.  Numbered through, the buckets of both tiers are one    *)
(* row in order of time.                                                   *)
(***************************************************************************)
LEMMA BucketsInOrder ==
  ASSUME Inv, Layout, InOrder
  PROVE  /\ Len(um) \in Nat /\ Len(maps) \in Nat /\ Total \in Nat
         /\ \A i \in 1..Total :
              /\ Bucket(i).min \in Nat
              /\ Bucket(i).max \in Nat
              /\ Bucket(i).min <= Bucket(i).max
              /\ IF i <= Len(um) THEN Bucket(i).seen \subseteq Held(um)
                                 ELSE Bucket(i).seen \subseteq Held(maps)
         /\ \A i, j \in 1..Total : i < j => Bucket(i).max <= Bucket(j).min
<1>1. /\ Len(um) \in Nat /\ DOMAIN um = 1..Len(um)
      /\ Len(maps) \in Nat /\ DOMAIN maps = 1..Len(maps)
      /\ Spans(um, log) /\ Spans(maps, log) /\ Timed(log)
  BY RowFacts, LogFacts DEF Inv, Tiers
<1>2. ASSUME NEW p, NEW l, Timed(l), Spans(p, l), DOMAIN p = 1..Len(p), EndsTaken(p, l),
             NEW i \in 1..Len(p)
      PROVE  /\ p[i].min \in Nat /\ p[i].max \in Nat /\ p[i].min <= p[i].max
             /\ p[i].seen \subseteq Held(p)
  <2>1. p[i].min \in Nat /\ p[i].max \in Nat
    BY <1>2, TiersAssumption DEF Spans, Times
  <2>2. PICK o \in p[i].seen : l[o].time = p[i].min
    BY <1>2 DEF EndsTaken
  <2>3. l[o].time <= p[i].max
    BY <1>2, <2>2 DEF Spans
  <2> QED
    BY <1>2, <2>1, <2>2, <2>3 DEF Held
<1>3. \A i \in 1..Len(um) :
        /\ um[i].min \in Nat /\ um[i].max \in Nat /\ um[i].min <= um[i].max
        /\ um[i].seen \subseteq Held(um)
  BY <1>1, <1>2 DEF Layout
<1>4. \A i \in 1..Len(maps) :
        /\ maps[i].min \in Nat /\ maps[i].max \in Nat /\ maps[i].min <= maps[i].max
        /\ maps[i].seen \subseteq Held(maps)
  BY <1>1, <1>2 DEF Layout
<1>5. Total \in Nat /\ Total = Len(um) + Len(maps)
  BY <1>1 DEF Total
<1>6. ASSUME NEW i \in 1..Total
      PROVE  \/ i <= Len(um) /\ i \in 1..Len(um) /\ Bucket(i) = um[i]
             \/ ~(i <= Len(um)) /\ i - Len(um) \in 1..Len(maps) /\ Bucket(i) = maps[i - Len(um)]
  BY <1>1, <1>5 DEF Bucket
<1>7. ASSUME NEW i \in 1..Total
      PROVE  /\ Bucket(i).min \in Nat
             /\ Bucket(i).max \in Nat
             /\ Bucket(i).min <= Bucket(i).max
             /\ IF i <= Len(um) THEN Bucket(i).seen \subseteq Held(um)
                                ELSE Bucket(i).seen \subseteq Held(maps)
  BY <1>3, <1>4, <1>6
<1>8. Sorted(um) /\ Sorted(maps) /\ Before(um, maps)
  BY DEF Layout
<1>9. ASSUME NEW i \in 1..Total, NEW j \in 1..Total, i < j
      PROVE  Bucket(i).max <= Bucket(j).min
  <2>1. CASE j <= Len(um)
    <3>1. i \in 1..Len(um) /\ j \in 1..Len(um) /\ Bucket(i) = um[i] /\ Bucket(j) = um[j]
      BY <1>1, <1>6, <1>9, <2>1
    <3> QED
      BY <1>8, <1>9, <3>1 DEF Sorted
  <2>2. CASE i <= Len(um) /\ ~(j <= Len(um))
    BY <1>6, <1>8, <2>2 DEF Before
  <2>3. CASE ~(i <= Len(um))
    <3>1. ~(j <= Len(um))
      BY <1>1, <1>9, <2>3
    <3>2. PICK a \in 1..Len(maps) : a = i - Len(um) /\ Bucket(i) = maps[a]
      BY <1>6, <2>3
    <3>3. PICK b \in 1..Len(maps) : b = j - Len(um) /\ Bucket(j) = maps[b]
      BY <1>6, <3>1
    <3>4. a < b
      BY <1>1, <1>9, <3>2, <3>3
    <3> QED
      BY <1>8, <3>2, <3>3, <3>4 DEF Sorted
  <2> QED
    BY <2>1, <2>2, <2>3
<1> QED
  BY <1>1, <1>5, <1>7, <1>9

(* The bucket found for a time holds it, when one does.                    *)
LEMMA FoundHolds ==
  ASSUME Len(um) \in Nat, Len(maps) \in Nat, NEW t, Holding(t, 1..Total) # {}
  PROVE  /\ Found(t) \in 1..Total
         /\ Bucket(Found(t)).min <= t
         /\ t <= Bucket(Found(t)).max
<1>1. PICK a : a = Holding(t, 1..Len(um))
  OBVIOUS
<1>2. PICK b : b = Holding(t, (Len(um) + 1)..Total)
  OBVIOUS
<1>3. Found(t) = IF b # {} THEN Min(b) ELSE IF a # {} THEN Min(a) ELSE 1
  BY <1>1, <1>2 DEF Found
<1>4. Total \in Nat /\ 1..Len(um) \subseteq 1..Total /\ (Len(um) + 1)..Total \subseteq 1..Total
  BY DEF Total
<1>5. /\ \A i \in a : i \in 1..Total /\ Bucket(i).min <= t /\ t <= Bucket(i).max
      /\ \A i \in b : i \in 1..Total /\ Bucket(i).min <= t /\ t <= Bucket(i).max
  BY <1>1, <1>2, <1>4 DEF Holding
<1>6. a \subseteq Nat /\ b \subseteq Nat
  BY <1>4, <1>5
<1>7. a # {} \/ b # {}
  <2>1. PICK i \in 1..Total : Bucket(i).min <= t /\ t <= Bucket(i).max
    BY DEF Holding
  <2>2. i \in 1..Len(um) \/ i \in (Len(um) + 1)..Total
    BY <1>4
  <2> QED
    BY <1>1, <1>2, <2>1, <2>2 DEF Holding
<1>8. CASE b # {}
  <2>1. Min(b) \in b
    BY <1>6, <1>8, MinOf
  <2> QED
    BY <1>3, <1>5, <1>8, <2>1
<1>9. CASE b = {}
  <2>1. a # {} /\ Min(a) \in a
    BY <1>6, <1>7, <1>9, MinOf
  <2>2. Found(t) = Min(a)
    BY <1>3, <1>9, <2>1
  <2> QED
    BY <1>5, <2>1, <2>2
<1> QED
  BY <1>8, <1>9

(* Both ends of a query between times that buckets hold.                   *)
LEMMA QueryEnds ==
  ASSUME Inv, Layout, InOrder, NEW t1 \in Nat, NEW t2 \in Nat,
         Holding(t1, 1..Total) # {}, Holding(t2, 1..Total) # {}
  PROVE  \E a, b \in 1..Total :
           /\ Bucket(a).min <= t1 /\ t1 <= Bucket(a).max
           /\ Bucket(b).min <= t2 /\ t2 <= Bucket(b).max
           /\ FromBucket(t1) \in {a, a + 1} \cap 1..Total
           /\ ToBucket(t2) = b
<1>1. /\ Len(um) \in Nat /\ Len(maps) \in Nat /\ Total \in Nat
      /\ \A i \in 1..Total :
           Bucket(i).min \in Nat /\ Bucket(i).max \in Nat /\ Bucket(i).min <= Bucket(i).max
      /\ \A i, j \in 1..Total : i < j => Bucket(i).max <= Bucket(j).min
  BY BucketsInOrder
<1>2. PICK a \in 1..Total : a = Found(t1) /\ Bucket(a).min <= t1 /\ t1 <= Bucket(a).max
  BY <1>1, FoundHolds
<1>3. PICK b \in 1..Total : b = Found(t2) /\ Bucket(b).min <= t2 /\ t2 <= Bucket(b).max
  BY <1>1, FoundHolds
<1>4. ~(t1 < Bucket(1).min)
  <2>1. CASE a = 1
    BY <1>1, <1>2, <2>1
  <2>2. CASE a # 1
    <3>1. 1 \in 1..Total /\ 1 < a
      BY <1>1, <2>2
    <3>2. Bucket(1).max <= Bucket(a).min
      BY <1>1, <3>1
    <3> QED
      BY <1>1, <1>2, <3>1, <3>2
  <2> QED
    BY <2>1, <2>2
<1>5. FromBucket(t1) = IF NearerEnd(t1, a) /\ a < Total THEN a + 1 ELSE a
  BY <1>2, <1>4 DEF FromBucket
<1>6. FromBucket(t1) \in {a, a + 1} \cap 1..Total
  <2>1. CASE NearerEnd(t1, a) /\ a < Total
    BY <1>1, <1>5, <2>1
  <2>2. CASE ~(NearerEnd(t1, a) /\ a < Total)
    BY <1>5, <2>2
  <2> QED
    BY <2>1, <2>2
<1>7. ~(maps # <<>> /\ t2 > maps[Len(maps)].max)
  <2> SUFFICES ASSUME maps # <<>>
               PROVE  ~(t2 > maps[Len(maps)].max)
    OBVIOUS
  <2>1. Len(maps) # 0
    <3>1. Row(maps)
      BY DEF Inv, Tiers
    <3> QED
      BY <3>1 DEF Row
  <2>2. Total \in 1..Total /\ ~(Total <= Len(um)) /\ Total - Len(um) = Len(maps)
    BY <1>1, <2>1 DEF Total
  <2>3. Bucket(Total) = maps[Len(maps)]
    BY <2>2 DEF Bucket
  <2>4. t2 <= Bucket(Total).max
    <3>1. CASE b = Total
      BY <1>3, <3>1
    <3>2. CASE b # Total
      <4>1. b < Total
        BY <1>1, <3>2
      <4>2. Bucket(b).max <= Bucket(Total).min
        BY <1>1, <2>2, <4>1
      <4> QED
        BY <1>1, <1>3, <2>2, <4>2, SMTT(60)
    <3> QED
      BY <3>1, <3>2
  <2> QED
    BY <1>1, <2>2, <2>3, <2>4
<1>8. ToBucket(t2) = b
  BY <1>3, <1>7 DEF ToBucket
<1> QED
  BY <1>2, <1>3, <1>6, <1>8

(* In order of time a query between two times that buckets hold answers    *)
(* with every bucket strictly between them, of either tier, with nothing   *)
(* beyond them unless both fall in one bucket, and calls the answer exact  *)
(* only if no sketch takes part.                                           *)
THEOREM InsideAnsweredCorrect == Spec => []InsideAnswered
<1>1. ASSUME Inv, Layout
      PROVE  InsideAnswered
  <2> SUFFICES ASSUME InOrder, NEW t1 \in Times, NEW t2 \in Times,
                      Holding(t1, 1..Total) # {}, Holding(t2, 1..Total) # {}, t1 <= t2
               PROVE  LET held(t)   == Holding(t, 1..Total)
                          inside    == {i \in 1..Total : t1 < Bucket(i).min /\ Bucket(i).max < t2}
                          overlap   == {i \in 1..Total : t1 <= Bucket(i).max /\ Bucket(i).min <= t2}
                          answer    == Query(t1, t2)
                          seenIn(s) == UNION {Bucket(i).seen : i \in s}
                      IN  /\ seenIn(inside) \subseteq answer.seen
                          /\ held(t1) \cap held(t2) = {} =>
                               /\ answer.seen \subseteq seenIn(overlap)
                               /\ answer.exact => answer.seen \cap Held(um) = {}
    BY DEF InsideAnswered
  <2> DEFINE inside  == {i \in 1..Total : t1 < Bucket(i).min /\ Bucket(i).max < t2}
             overlap == {i \in 1..Total : t1 <= Bucket(i).max /\ Bucket(i).min <= t2}
             seenIn(s) == UNION {Bucket(i).seen : i \in s}
  <2>1. t1 \in Nat /\ t2 \in Nat
    BY TiersAssumption DEF Times
  <2>2. /\ Len(um) \in Nat /\ Len(maps) \in Nat /\ Total \in Nat
        /\ \A i \in 1..Total :
             /\ Bucket(i).min \in Nat /\ Bucket(i).max \in Nat /\ Bucket(i).min <= Bucket(i).max
             /\ ~(i <= Len(um)) => Bucket(i).seen \subseteq Held(maps)
        /\ \A i, j \in 1..Total : i < j => Bucket(i).max <= Bucket(j).min
    BY <1>1, BucketsInOrder
  <2>3. PICK a \in 1..Total, b \in 1..Total :
          /\ Bucket(a).min <= t1 /\ t1 <= Bucket(a).max
          /\ Bucket(b).min <= t2 /\ t2 <= Bucket(b).max
          /\ FromBucket(t1) \in {a, a + 1} \cap 1..Total
          /\ ToBucket(t2) = b
    BY <1>1, <2>1, QueryEnds
  <2>4. PICK from \in 1..Total : from = FromBucket(t1) /\ from \in {a, a + 1}
    BY <2>3
  <2>5. PICK upTo \in 1..Total : upTo = Larger(from, b)
    BY DEF Larger
  <2>6. from <= upTo /\ b <= upTo /\ (upTo = b \/ b < from)
    BY <2>2, <2>5 DEF Larger
  <2>7. PICK answer : answer = Query(t1, t2)
    OBVIOUS
  <2>8. /\ answer.exact <=> from > Len(um)
        /\ answer.seen = seenIn(from..upTo)
    BY <2>3, <2>4, <2>5, <2>7 DEF Query
  <2>9. from..upTo \subseteq 1..Total
    BY <2>2
  <2>10. inside \subseteq from..upTo
    <3>1. ASSUME NEW i \in 1..Total, t1 < Bucket(i).min, Bucket(i).max < t2
          PROVE  i \in from..upTo
      <4>1. a < i
        <5>1. CASE i = a
          BY <2>1, <2>2, <2>3, <3>1, <5>1
        <5>2. CASE i < a
          <6>1. Bucket(i).max <= Bucket(a).min
            BY <2>2, <5>2
          <6> QED
            BY <2>1, <2>2, <2>3, <3>1, <6>1
        <5> QED
          BY <2>2, <5>1, <5>2
      <4>2. i < b
        <5>1. CASE i = b
          BY <2>1, <2>2, <2>3, <3>1, <5>1
        <5>2. CASE b < i
          <6>1. Bucket(b).max <= Bucket(i).min
            BY <2>2, <5>2
          <6> QED
            BY <2>1, <2>2, <2>3, <3>1, <6>1
        <5> QED
          BY <2>2, <5>1, <5>2
      <4>3. from <= i
        BY <2>2, <2>4, <4>1
      <4> QED
        BY <2>2, <2>6, <4>2, <4>3
    <3> QED
      BY <3>1
  <2>11. seenIn(inside) \subseteq answer.seen
    BY <2>8, <2>10
  <2>12. ASSUME Holding(t1, 1..Total) \cap Holding(t2, 1..Total) = {}
         PROVE  /\ answer.seen \subseteq seenIn(overlap)
                /\ answer.exact => answer.seen \cap Held(um) = {}
    <3>1. /\ ~(Bucket(a).min <= t2 /\ t2 <= Bucket(a).max)
          /\ ~(Bucket(b).min <= t1 /\ t1 <= Bucket(b).max)
      BY <2>3, <2>12 DEF Holding
    <3>2. a < b
      <4>1. a # b
        BY <2>3, <3>1
      <4>2. ~(b < a)
        <5> SUFFICES ASSUME b < a PROVE FALSE
          OBVIOUS
        <5>1. Bucket(b).max <= Bucket(a).min
          BY <2>2
        <5>2. t1 <= Bucket(b).max /\ Bucket(b).min <= t2
          BY <2>1, <2>2, <2>3
        <5>3. t1 < Bucket(b).min
          BY <2>1, <2>2, <3>1, <5>2
        <5> QED
          BY <2>1, <2>2, <2>3, <5>1, <5>3
      <4> QED
        BY <2>2, <4>1, <4>2
    <3>3. upTo = b
      BY <2>2, <2>4, <2>6, <3>2
    <3>4. from..upTo \subseteq overlap
      <4>1. ASSUME NEW i \in from..upTo
            PROVE  t1 <= Bucket(i).max /\ Bucket(i).min <= t2 /\ i \in 1..Total
        <5>1. i \in 1..Total /\ a <= i /\ i <= b
          BY <2>2, <2>4, <2>9, <3>3
        <5>2. t1 <= Bucket(i).max
          <6>1. CASE i = a
            BY <2>3, <6>1
          <6>2. CASE a < i
            <7>1. Bucket(a).max <= Bucket(i).min
              BY <2>2, <5>1, <6>2
            <7> QED
              BY <2>1, <2>2, <2>3, <5>1, <7>1
          <6> QED
            BY <2>2, <5>1, <6>1, <6>2
        <5>3. Bucket(i).min <= t2
          <6>1. CASE i = b
            BY <2>3, <6>1
          <6>2. CASE i < b
            <7>1. Bucket(i).max <= Bucket(b).min
              BY <2>2, <5>1, <6>2
            <7> QED
              BY <2>1, <2>2, <2>3, <5>1, <7>1
          <6> QED
            BY <2>2, <5>1, <6>1, <6>2
        <5> QED
          BY <5>1, <5>2, <5>3
      <4> QED
        BY <4>1
    <3>5. answer.exact => answer.seen \subseteq Held(maps)
      <4> SUFFICES ASSUME answer.exact, NEW i \in from..upTo
                   PROVE  Bucket(i).seen \subseteq Held(maps)
        BY <2>8
      <4>1. i \in 1..Total /\ ~(i <= Len(um))
        BY <2>2, <2>8, <2>9
      <4> QED
        BY <2>2, <4>1
    <3>6. Held(um) \cap Held(maps) = {}
      BY <1>1 DEF Inv, Tiers, EachInOneTier
    <3> QED
      BY <2>8, <3>4, <3>5, <3>6
  <2> QED
    BY <2>7, <2>11, <2>12
<1> QED
  BY <1>1, InvAlways, LayoutAlways, PTL


(***************************************************************************)
(* Weights.  A row of weights, oldest first: what one pass over it leaves. *)
(***************************************************************************)
(* From i on, any two neighbours weigh more than 1/k of what is newer, the *)
(* base included.                                                          *)
HeavyFrom(w, n, i, base) ==
  \A j \in i..(n - 1) : K * (w[j] + w[j + 1]) > Above(w, n, j + 2) + base

LEMMA ScaledGrows ==
  ASSUME NEW x \in Nat, NEW y \in Nat, x <= y
  PROVE  K * x \in Nat /\ K * y \in Nat /\ K * x <= K * y
<1>1. K \in Nat
  BY TiersAssumption
<1>2. PICK d \in Nat : y = x + d
  <2>1. y - x \in Nat /\ y = x + (y - x)
    OBVIOUS
  <2> QED
    BY <2>1
<1>3. K * x \in Nat /\ K * d \in Nat
  BY <1>1
<1>4. K * y = K * x + K * d
  BY <1>1, <1>2
<1> QED
  BY <1>3, <1>4

(* Neighbours k and k + 1 become one of weight x, no lighter than the      *)
(* newer of them: the pairs that were heavy are, and what is newer weighs  *)
(* the same.                                                               *)
MergedWeights(w, n, k, v, m) ==
  /\ n \in Nat /\ m \in Nat /\ m = n - 1 /\ k \in 1..(n - 1)
  /\ w \in [1..n -> Nat] /\ v \in [1..m -> Nat]
  /\ w[k + 1] <= v[k]
  /\ \A j \in (k + 1)..m : v[j] = w[j + 1]

LEMMA MergeKeepsHeavy ==
  ASSUME NEW w, NEW n, NEW k, NEW v, NEW m, MergedWeights(w, n, k, v, m),
         NEW base \in Nat, HeavyFrom(w, n, k + 1, base)
  PROVE  HeavyFrom(v, m, k, base) /\ Above(v, m, k + 1) = Above(w, n, k + 2)
<1> /\ n \in Nat /\ m \in Nat /\ m = n - 1 /\ k \in 1..(n - 1)
    /\ w \in [1..n -> Nat] /\ v \in [1..m -> Nat]
    /\ w[k + 1] <= v[k]
    /\ \A j \in (k + 1)..m : v[j] = w[j + 1]
  BY DEF MergedWeights
<1>1. ASSUME NEW b \in (k + 1)..(m + 1)
      PROVE  Above(v, m, b) = Above(w, n, b + 1)
  <2>1. n = m + 1 /\ b \in 1..(m + 1) /\ b + 1 \in 1..(n + 1) /\ 1 \in Int
    OBVIOUS
  <2>2. \A j \in b..m : v[j] = w[j + 1]
    OBVIOUS
  <2> QED
    BY <2>1, <2>2, AboveShift, ZenonT(60)
<1>2. ASSUME NEW j \in k..(m - 1)
      PROVE  K * (v[j] + v[j + 1]) > Above(v, m, j + 2) + base
  <2>1. Above(v, m, j + 2) = Above(w, n, (j + 1) + 2)
    <3>1. j + 2 \in (k + 1)..(m + 1) /\ (j + 2) + 1 = (j + 1) + 2
      OBVIOUS
    <3> QED
      BY <1>1, <3>1
  <2>2. K * (w[j + 1] + w[(j + 1) + 1]) > Above(w, n, (j + 1) + 2) + base
    <3>1. j + 1 \in (k + 1)..(n - 1)
      OBVIOUS
    <3> QED
      BY <3>1 DEF HeavyFrom
  <2>3. w[j + 1] \in Nat /\ w[(j + 1) + 1] \in Nat /\ v[j] \in Nat /\ v[j + 1] = w[(j + 1) + 1]
    <3>1. j + 1 \in 1..n /\ (j + 1) + 1 \in 1..n /\ j \in 1..m /\ j + 1 \in (k + 1)..m
      OBVIOUS
    <3> QED
      BY <3>1
  <2>4. w[j + 1] <= v[j]
    <3>1. CASE j = k
      BY <3>1
    <3>2. CASE j # k
      <4>1. j \in (k + 1)..m
        BY <3>2
      <4> QED
        BY <2>3, <4>1
    <3> QED
      BY <3>1, <3>2
  <2>5. /\ K * (w[j + 1] + w[(j + 1) + 1]) <= K * (v[j] + v[j + 1])
        /\ K * (w[j + 1] + w[(j + 1) + 1]) \in Nat /\ K * (v[j] + v[j + 1]) \in Nat
    <3>1. PICK x \in Nat : x = w[j + 1] + w[(j + 1) + 1]
      BY <2>3
    <3>2. PICK y \in Nat : y = v[j] + v[j + 1]
      BY <2>3, SMTT(30)
    <3>3. x <= y
      <4>1. PICK p \in Nat, q \in Nat, r \in Nat :
              p = w[j + 1] /\ q = w[(j + 1) + 1] /\ r = v[j]
        BY <2>3
      <4>2. x = p + q /\ y = r + q /\ p <= r
        BY <2>3, <2>4, <3>1, <3>2, <4>1
      <4> QED
        BY <4>2
    <3>4. K * x \in Nat /\ K * y \in Nat /\ K * x <= K * y
      BY <3>3, ScaledGrows
    <3> QED
      BY <3>1, <3>2, <3>4
  <2>7. Above(w, n, (j + 1) + 2) \in Nat
    <3>1. (j + 1) + 2 \in 1..(n + 2)
      OBVIOUS
    <3> QED
      BY <3>1, AboveFacts
  <2> QED
    BY <2>1, <2>2, <2>5, <2>7, SMTT(30)
<1>3. k + 1 \in (k + 1)..(m + 1) /\ (k + 1) + 1 = k + 2
  OBVIOUS
<1> QED
  BY <1>1, <1>2, <1>3 DEF HeavyFrom

(* A pair that is heavy is left, and its newer part counts as newer.       *)
LEMMA KeepKeepsHeavy ==
  ASSUME NEW n \in Nat, NEW w \in [1..n -> Nat], NEW k \in 1..(n - 1), NEW base \in Nat,
         HeavyFrom(w, n, k + 1, base),
         K * (w[k] + w[k + 1]) > Above(w, n, k + 2) + base
  PROVE  /\ HeavyFrom(w, n, k, base)
         /\ Above(w, n, k + 1) = w[k + 1] + Above(w, n, k + 2)
<1>1. HeavyFrom(w, n, k, base)
  BY DEF HeavyFrom
<1>2. k + 1 \in 1..n /\ (k + 1) + 1 = k + 2
  OBVIOUS
<1> QED
  BY <1>1, <1>2, AboveFacts

(* The oldest of the row is taken away.                                    *)
LEMMA TailIsHeavy ==
  ASSUME NEW n \in Nat, NEW w \in [1..n -> Nat], HeavyFrom(w, n, 1, 0),
         NEW m \in Nat, n = m + 1, NEW v \in [1..m -> Nat], \A j \in 1..m : v[j] = w[j + 1]
  PROVE  HeavyFrom(v, m, 1, 0) /\ Above(v, m, 1) = Above(w, n, 2)
<1>1. ASSUME NEW b \in 1..(m + 1)
      PROVE  Above(v, m, b) = Above(w, n, b + 1)
  <2>1. b + 1 \in 1..(n + 1) /\ 1 \in Int
    OBVIOUS
  <2>2. \A j \in b..m : v[j] = w[j + 1]
    OBVIOUS
  <2> QED
    BY <2>1, <2>2, AboveShift, ZenonT(60)
<1>2. ASSUME NEW j \in 1..(m - 1)
      PROVE  K * (v[j] + v[j + 1]) > Above(v, m, j + 2) + 0
  <2>1. Above(v, m, j + 2) = Above(w, n, (j + 1) + 2)
    <3>1. j + 2 \in 1..(m + 1) /\ (j + 2) + 1 = (j + 1) + 2
      OBVIOUS
    <3> QED
      BY <1>1, <3>1
  <2>2. K * (w[j + 1] + w[(j + 1) + 1]) > Above(w, n, (j + 1) + 2) + 0
    <3>1. j + 1 \in 1..(n - 1)
      OBVIOUS
    <3> QED
      BY <3>1 DEF HeavyFrom
  <2>3. v[j] = w[j + 1] /\ v[j + 1] = w[(j + 1) + 1]
    OBVIOUS
  <2> QED
    BY <2>1, <2>2, <2>3
<1>3. 1 \in 1..(m + 1) /\ 1 + 1 = 2
  OBVIOUS
<1> QED
  BY <1>1, <1>2, <1>3 DEF HeavyFrom


(***************************************************************************)
(* Masses.  What a set of updates weighs, exactly and on the counters of a *)
(* sketch: more updates weigh no less.                                     *)
(***************************************************************************)
Valued(l, seen) ==
  IsFiniteSet(seen) /\ \A o \in seen : l[o].value \in Nat /\ l[o].key \in Keys

LEMMA ValueSum ==
  ASSUME NEW l, NEW S
  PROVE  MapThenSumSet(LAMBDA o : l[o].value, S) = SumOf([o \in S |-> l[o].value])
<1> DEFINE f    == [o \in S |-> l[o].value]
           iter == CHOOSE iter : iter =
             [s \in SUBSET S |->
                IF s = {} THEN 0
                ELSE LET x == CHOOSE x \in s : TRUE IN l[x].value + iter[s \ {x}]]
<1>1. MapThenSumSet(LAMBDA o : l[o].value, S) = iter[S]
  BY Zenon DEF MapThenSumSet, MapThenFoldSet
<1>2. DOMAIN f = S /\ \A x \in S : f[x] = l[x].value
  OBVIOUS
<1> HIDE DEF f
<1>3. \A g : g = [s \in SUBSET S |->
                    IF s = {} THEN 0
                    ELSE LET x == CHOOSE x \in s : TRUE IN l[x].value + g[s \ {x}]]
             <=> Summed(f, g)
  <2>1. \A s \in SUBSET S : s # {} => (CHOOSE x \in s : TRUE) \in S
    OBVIOUS
  <2> QED
    BY <1>2, <2>1 DEF Summed, Part
<1>4. iter = SumsOf(f)
  BY <1>3, ZenonT(60) DEF SumsOf
<1>5. SumOf(f) = SumsOf(f)[S]
  BY <1>2, SumOfIs
<1> QED
  BY <1>1, <1>4, <1>5, Zenon DEF f

LEMMA SquaredCounts ==
  ASSUME NEW l, NEW seen, NEW S
  PROVE  MapThenSumSet(LAMBDA key : CountIn(l, seen, key) * CountIn(l, seen, key), S)
           = SumOf([key \in S |-> CountIn(l, seen, key) * CountIn(l, seen, key)])
<1> DEFINE f    == [key \in S |-> CountIn(l, seen, key) * CountIn(l, seen, key)]
           iter == CHOOSE iter : iter =
             [s \in SUBSET S |->
                IF s = {} THEN 0
                ELSE LET x == CHOOSE x \in s : TRUE
                     IN  CountIn(l, seen, x) * CountIn(l, seen, x) + iter[s \ {x}]]
<1>1. MapThenSumSet(LAMBDA key : CountIn(l, seen, key) * CountIn(l, seen, key), S) = iter[S]
  BY Zenon DEF MapThenSumSet, MapThenFoldSet
<1>2. DOMAIN f = S /\ \A x \in S : f[x] = CountIn(l, seen, x) * CountIn(l, seen, x)
  OBVIOUS
<1> HIDE DEF f
<1>3. \A g : g = [s \in SUBSET S |->
                    IF s = {} THEN 0
                    ELSE LET x == CHOOSE x \in s : TRUE
                         IN  CountIn(l, seen, x) * CountIn(l, seen, x) + g[s \ {x}]]
             <=> Summed(f, g)
  <2>1. \A s \in SUBSET S : s # {} => (CHOOSE x \in s : TRUE) \in S
    OBVIOUS
  <2> QED
    BY <1>2, <2>1 DEF Summed, Part
<1>4. iter = SumsOf(f)
  BY <1>3, ZenonT(60) DEF SumsOf
<1>5. SumOf(f) = SumsOf(f)[S]
  BY <1>2, SumOfIs
<1> QED
  BY <1>1, <1>4, <1>5, Zenon DEF f

(* What is counted of one key is a number, and grows with the updates.     *)
LEMMA CountFacts ==
  ASSUME NEW l, NEW b, Valued(l, b), NEW a \in SUBSET b, NEW key
  PROVE  /\ CountIn(l, a, key) \in Nat
         /\ CountIn(l, b, key) \in Nat
         /\ CountIn(l, a, key) <= CountIn(l, b, key)
<1>1. PICK S : S = {o \in b : l[o].key = key}
  OBVIOUS
<1>2. PICK T : T = {o \in a : l[o].key = key}
  OBVIOUS
<1>3. S \in SUBSET b /\ T \in SUBSET S
  BY <1>1, <1>2
<1>4. IsFiniteSet(S) /\ IsFiniteSet(T)
  <2>1. IsFiniteSet(b)
    BY DEF Valued
  <2>2. IsFiniteSet(S)
    BY <1>3, <2>1, FS_Subset
  <2> QED
    BY <1>3, <2>2, FS_Subset
<1>5. PICK f : f = [o \in S |-> l[o].value]
  OBVIOUS
<1>6. PICK g : g = [o \in T |-> l[o].value]
  OBVIOUS
<1>7. f \in [S -> Nat] /\ g \in [T -> Nat] /\ \A o \in T : g[o] <= f[o]
  <2>1. \A o \in S : l[o].value \in Nat
    BY <1>3 DEF Valued
  <2> QED
    BY <1>3, <1>5, <1>6, <2>1
<1>8. SumOf(f) \in Nat /\ SumOf(g) \in Nat
  BY <1>4, <1>7, SumIsNat
<1>9. SumOf(g) <= SumOf(f)
  BY <1>3, <1>4, <1>7, SumGrows
<1>10. CountIn(l, b, key) = SumOf(f)
  <2>1. CountIn(l, b, key) = MapThenSumSet(LAMBDA o : l[o].value, S)
    BY <1>1, Zenon DEF CountIn
  <2> QED
    BY <1>5, <2>1, ValueSum, Zenon
<1>11. CountIn(l, a, key) = SumOf(g)
  <2>1. CountIn(l, a, key) = MapThenSumSet(LAMBDA o : l[o].value, T)
    BY <1>2, Zenon DEF CountIn
  <2> QED
    BY <1>6, <2>1, ValueSum, Zenon
<1> QED
  BY <1>8, <1>9, <1>10, <1>11

(* Neither does it depend on updates that are not counted.                 *)
LEMMA CountSame ==
  ASSUME NEW l, NEW m, NEW seen, \A o \in seen : l[o] = m[o], NEW key
  PROVE  CountIn(l, seen, key) = CountIn(m, seen, key)
<1>1. {o \in seen : l[o].key = key} = {o \in seen : m[o].key = key}
  OBVIOUS
<1>2. PICK S : S = {o \in seen : l[o].key = key}
  OBVIOUS
<1>3. [o \in S |-> l[o].value] = [o \in S |-> m[o].value]
  BY <1>2
<1>4. /\ CountIn(l, seen, key) = MapThenSumSet(LAMBDA o : l[o].value, S)
      /\ CountIn(m, seen, key) = MapThenSumSet(LAMBDA o : m[o].value, S)
  BY <1>1, <1>2, Zenon DEF CountIn
<1>5. MapThenSumSet(LAMBDA o : l[o].value, S) = SumOf([o \in S |-> l[o].value])
  BY ValueSum, Zenon
<1>6. MapThenSumSet(LAMBDA o : m[o].value, S) = SumOf([o \in S |-> m[o].value])
  BY ValueSum, Zenon
<1> QED
  BY <1>3, <1>4, <1>5, <1>6, Zenon

SquaresOf(l, seen) ==
  [key \in KeysOf(l, seen) |-> CountIn(l, seen, key) * CountIn(l, seen, key)]

LEMMA MapMassIs ==
  ASSUME NEW l, NEW seen
  PROVE  MapMass(l, seen) = SumOf(SquaresOf(l, seen))
<1>1. MapMass(l, seen) =
        MapThenSumSet(LAMBDA key : CountIn(l, seen, key) * CountIn(l, seen, key), KeysOf(l, seen))
  BY Zenon DEF MapMass
<1> QED
  BY <1>1, SquaredCounts, Zenon DEF SquaresOf

LEMMA SquareGrows ==
  ASSUME NEW x \in Nat, NEW y \in Nat, x <= y
  PROVE  x * x \in Nat /\ y * y \in Nat /\ x * x <= y * y
<1>1. PICK d \in Nat : y = x + d
  <2>1. y - x \in Nat /\ y = x + (y - x)
    OBVIOUS
  <2> QED
    BY <2>1
<1>2. x * x \in Nat /\ x * d \in Nat /\ d * d \in Nat
  OBVIOUS
<1>3. y * y = x * x + 2 * (x * d) + d * d
  BY <1>1
<1> QED
  BY <1>2, <1>3

LEMMA KeysAreFew ==
  ASSUME NEW l, NEW seen, IsFiniteSet(seen)
  PROVE  IsFiniteSet(KeysOf(l, seen))
<1>1. PICK f : f = [o \in seen |-> l[o].key]
  OBVIOUS
<1>2. f \in Surjection(seen, KeysOf(l, seen))
  BY <1>1 DEF KeysOf, Surjection
<1> QED
  BY <1>2, FS_Surjection

LEMMA MapMassFacts ==
  ASSUME NEW l, NEW b, Valued(l, b), NEW a \in SUBSET b
  PROVE  MapMass(l, a) \in Nat /\ MapMass(l, b) \in Nat /\ MapMass(l, a) <= MapMass(l, b)
<1>1. PICK S : S = KeysOf(l, b)
  OBVIOUS
<1>2. PICK T : T = KeysOf(l, a)
  OBVIOUS
<1>3. T \in SUBSET S
  BY <1>1, <1>2 DEF KeysOf
<1>4. IsFiniteSet(S) /\ IsFiniteSet(T)
  <2>1. IsFiniteSet(b)
    BY DEF Valued
  <2>2. IsFiniteSet(S)
    BY <1>1, <2>1, KeysAreFew
  <2> QED
    BY <1>3, <2>2, FS_Subset
<1>5. PICK f : f = SquaresOf(l, b)
  OBVIOUS
<1>6. PICK g : g = SquaresOf(l, a)
  OBVIOUS
<1>7. \A key : /\ CountIn(l, a, key) * CountIn(l, a, key) \in Nat
               /\ CountIn(l, b, key) * CountIn(l, b, key) \in Nat
               /\ CountIn(l, a, key) * CountIn(l, a, key) <= CountIn(l, b, key) * CountIn(l, b, key)
  <2> TAKE key
  <2>1. PICK x \in Nat : x = CountIn(l, a, key)
    BY CountFacts
  <2>2. PICK y \in Nat : y = CountIn(l, b, key)
    BY CountFacts
  <2>3. x <= y
    BY <2>1, <2>2, CountFacts
  <2>4. x * x \in Nat /\ y * y \in Nat /\ x * x <= y * y
    BY <2>3, SquareGrows
  <2> QED
    BY <2>1, <2>2, <2>4
<1>8. f \in [S -> Nat] /\ g \in [T -> Nat] /\ \A key \in T : g[key] <= f[key]
  BY <1>1, <1>2, <1>3, <1>5, <1>6, <1>7 DEF SquaresOf
<1>9. SumOf(f) \in Nat /\ SumOf(g) \in Nat
  BY <1>4, <1>8, SumIsNat
<1>10. SumOf(g) <= SumOf(f)
  BY <1>3, <1>4, <1>8, SumGrows
<1>11. MapMass(l, b) = SumOf(f) /\ MapMass(l, a) = SumOf(g)
  BY <1>5, <1>6, MapMassIs
<1> QED
  BY <1>9, <1>10, <1>11

LEMMA MapMassSame ==
  ASSUME NEW l, NEW m, NEW seen, \A o \in seen : l[o] = m[o]
  PROVE  MapMass(l, seen) = MapMass(m, seen)
<1>1. KeysOf(l, seen) = KeysOf(m, seen)
  BY DEF KeysOf
<1>2. \A key : CountIn(l, seen, key) = CountIn(m, seen, key)
  BY CountSame
<1>3. SquaresOf(l, seen) = SquaresOf(m, seen)
  BY <1>1, <1>2 DEF SquaresOf
<1> QED
  BY <1>3, MapMassIs, Zenon

(* A map of one update weighs the square of its value.                     *)
LEMMA MapMassOfOne ==
  ASSUME NEW l, NEW o, l[o].value \in Nat
  PROVE  MapMass(l, {o}) = l[o].value * l[o].value
<1>1. PICK key : key = l[o].key
  OBVIOUS
<1>2. PICK v \in Nat : v = l[o].value
  OBVIOUS
<1>3. CountIn(l, {o}, key) = v
  <2>1. {x \in {o} : l[x].key = key} = {o}
    BY <1>1
  <2>2. CountIn(l, {o}, key) = MapThenSumSet(LAMBDA x : l[x].value, {o})
    BY <2>1, Zenon DEF CountIn
  <2>3. PICK f : f = [x \in {o} |-> l[x].value]
    OBVIOUS
  <2>4. f \in [{o} -> Nat] /\ f[o] = v
    BY <1>2, <2>3
  <2>5. SumOf(f) = f[o]
    BY <2>4, SumOfOne
  <2>6. CountIn(l, {o}, key) = SumOf(f)
    BY <2>2, <2>3, ValueSum, Zenon
  <2> QED
    BY <2>4, <2>5, <2>6
<1>4. KeysOf(l, {o}) = {key}
  BY <1>1 DEF KeysOf
<1>5. PICK g : g = SquaresOf(l, {o})
  OBVIOUS
<1>6. g \in [{key} -> Nat] /\ g[key] = v * v
  <2>1. v * v \in Nat
    OBVIOUS
  <2>2. g = [x \in {key} |-> CountIn(l, {o}, x) * CountIn(l, {o}, x)]
    BY <1>4, <1>5 DEF SquaresOf
  <2> QED
    BY <1>3, <2>1, <2>2
<1>7. SumOf(g) = g[key]
  BY <1>6, SumOfOne
<1> QED
  BY <1>2, <1>5, <1>6, <1>7, MapMassIs


(* The same on the counters of a sketch, as long as the keys of a counter  *)
(* have one sign.                                                          *)
CellKeys(l, seen, cell) == {key \in KeysOf(l, seen) : CellOf[key] = cell}

CounterOf(l, seen, cell) ==
  MapThenSumSet(LAMBDA key : SignOf[key] * CountIn(l, seen, key), CellKeys(l, seen, cell))

CellsUsed(l, seen) == {CellOf[key] : key \in KeysOf(l, seen)}

CounterSquares(l, seen) ==
  [cell \in CellsUsed(l, seen) |-> CounterOf(l, seen, cell) * CounterOf(l, seen, cell)]

SketchMassOf(l, seen) == SumOf(CounterSquares(l, seen))

LEMMA SignedSum ==
  ASSUME NEW l, NEW seen, NEW S
  PROVE  MapThenSumSet(LAMBDA key : SignOf[key] * CountIn(l, seen, key), S)
           = SumOf([key \in S |-> SignOf[key] * CountIn(l, seen, key)])
<1> DEFINE f    == [key \in S |-> SignOf[key] * CountIn(l, seen, key)]
           iter == CHOOSE iter : iter =
             [s \in SUBSET S |->
                IF s = {} THEN 0
                ELSE LET x == CHOOSE x \in s : TRUE
                     IN  SignOf[x] * CountIn(l, seen, x) + iter[s \ {x}]]
<1>1. MapThenSumSet(LAMBDA key : SignOf[key] * CountIn(l, seen, key), S) = iter[S]
  BY Zenon DEF MapThenSumSet, MapThenFoldSet
<1>2. DOMAIN f = S /\ \A x \in S : f[x] = SignOf[x] * CountIn(l, seen, x)
  OBVIOUS
<1> HIDE DEF f
<1>3. \A g : g = [s \in SUBSET S |->
                    IF s = {} THEN 0
                    ELSE LET x == CHOOSE x \in s : TRUE
                         IN  SignOf[x] * CountIn(l, seen, x) + g[s \ {x}]]
             <=> Summed(f, g)
  <2>1. \A s \in SUBSET S : s # {} => (CHOOSE x \in s : TRUE) \in S
    OBVIOUS
  <2> QED
    BY <1>2, <2>1 DEF Summed, Part
<1>4. iter = SumsOf(f)
  BY <1>3, ZenonT(60) DEF SumsOf
<1>5. SumOf(f) = SumsOf(f)[S]
  BY <1>2, SumOfIs
<1> QED
  BY <1>1, <1>4, <1>5, Zenon DEF f

LEMMA CounterSum ==
  ASSUME NEW l, NEW seen, NEW S
  PROVE  MapThenSumSet(LAMBDA cell : CounterOf(l, seen, cell) * CounterOf(l, seen, cell), S)
           = SumOf([cell \in S |-> CounterOf(l, seen, cell) * CounterOf(l, seen, cell)])
<1> DEFINE f    == [cell \in S |-> CounterOf(l, seen, cell) * CounterOf(l, seen, cell)]
           iter == CHOOSE iter : iter =
             [s \in SUBSET S |->
                IF s = {} THEN 0
                ELSE LET x == CHOOSE x \in s : TRUE
                     IN  CounterOf(l, seen, x) * CounterOf(l, seen, x) + iter[s \ {x}]]
<1>1. MapThenSumSet(LAMBDA cell : CounterOf(l, seen, cell) * CounterOf(l, seen, cell), S) = iter[S]
  BY Zenon DEF MapThenSumSet, MapThenFoldSet
<1>2. DOMAIN f = S /\ \A x \in S : f[x] = CounterOf(l, seen, x) * CounterOf(l, seen, x)
  OBVIOUS
<1> HIDE DEF f
<1>3. \A g : g = [s \in SUBSET S |->
                    IF s = {} THEN 0
                    ELSE LET x == CHOOSE x \in s : TRUE
                         IN  CounterOf(l, seen, x) * CounterOf(l, seen, x) + g[s \ {x}]]
             <=> Summed(f, g)
  <2>1. \A s \in SUBSET S : s # {} => (CHOOSE x \in s : TRUE) \in S
    OBVIOUS
  <2> QED
    BY <1>2, <2>1 DEF Summed, Part
<1>4. iter = SumsOf(f)
  BY <1>3, ZenonT(60) DEF SumsOf
<1>5. SumOf(f) = SumsOf(f)[S]
  BY <1>2, SumOfIs
<1> QED
  BY <1>1, <1>4, <1>5, Zenon DEF f

LEMMA SketchMassIs ==
  ASSUME NEW seen
  PROVE  SketchMass(seen) = SketchMassOf(log, seen)
<1>1. SketchMass(seen) =
        MapThenSumSet(LAMBDA cell : CounterOf(log, seen, cell) * CounterOf(log, seen, cell),
                      CellsUsed(log, seen))
  BY Zenon DEF SketchMass, CounterOf, CellKeys, CellsUsed
<1> QED
  BY <1>1, CounterSum, Zenon DEF SketchMassOf, CounterSquares

(* Without their sign the counts of a counter's keys add up to its size.   *)
CellCounts(l, seen, cell) == [key \in CellKeys(l, seen, cell) |-> CountIn(l, seen, key)]

LEMMA CellKeysFacts ==
  ASSUME NEW l, NEW seen, Valued(l, seen), NEW cell
  PROVE  /\ IsFiniteSet(CellKeys(l, seen, cell))
         /\ CellKeys(l, seen, cell) \subseteq Keys
         /\ CellCounts(l, seen, cell) \in [CellKeys(l, seen, cell) -> Nat]
         /\ SumOf(CellCounts(l, seen, cell)) \in Nat
<1>1. IsFiniteSet(KeysOf(l, seen)) /\ KeysOf(l, seen) \subseteq Keys
  <2>1. IsFiniteSet(KeysOf(l, seen))
    BY KeysAreFew DEF Valued
  <2> QED
    BY <2>1 DEF Valued, KeysOf
<1>2. PICK S : S = CellKeys(l, seen, cell)
  OBVIOUS
<1>3. S \in SUBSET KeysOf(l, seen)
  BY <1>2 DEF CellKeys
<1>4. IsFiniteSet(S)
  BY <1>1, <1>3, FS_Subset
<1>5. PICK f : f = CellCounts(l, seen, cell)
  OBVIOUS
<1>6. f \in [S -> Nat]
  <2>1. \A key : CountIn(l, seen, key) \in Nat
    BY CountFacts
  <2> QED
    BY <1>2, <1>5, <2>1 DEF CellCounts
<1>7. SumOf(f) \in Nat
  BY <1>4, <1>6, SumIsNat
<1> QED
  BY <1>1, <1>2, <1>3, <1>4, <1>5, <1>6, <1>7

LEMMA CounterSize ==
  ASSUME NoCancelling, NEW l, NEW seen, Valued(l, seen), NEW cell
  PROVE  CounterOf(l, seen, cell) \in {SumOf(CellCounts(l, seen, cell)),
                                       -SumOf(CellCounts(l, seen, cell))}
<1>1. PICK S : S = CellKeys(l, seen, cell)
  OBVIOUS
<1>2. PICK f : f = CellCounts(l, seen, cell)
  OBVIOUS
<1>3. IsFiniteSet(S) /\ S \subseteq Keys /\ f \in [S -> Nat]
  BY <1>1, <1>2, CellKeysFacts
<1>4. PICK g : g = [key \in S |-> SignOf[key] * CountIn(l, seen, key)]
  OBVIOUS
<1>5. CounterOf(l, seen, cell) = SumOf(g)
  BY <1>1, <1>4, SignedSum, Zenon DEF CounterOf
<1>6. \A key \in S : f[key] = CountIn(l, seen, key) /\ CellOf[key] = cell
  BY <1>1, <1>2 DEF CellCounts, CellKeys
<1>7. \A key, other \in S : SignOf[key] = SignOf[other]
  BY <1>3, <1>6 DEF NoCancelling
<1>8. \A key \in S : SignOf[key] \in {-1, 1} /\ f[key] \in Nat
  BY <1>3, SignsAssumption
<1>9. CASE \A key \in S : SignOf[key] = 1
  <2>1. \A key \in S : SignOf[key] * CountIn(l, seen, key) = f[key]
    BY <1>6, <1>8, <1>9
  <2>2. g = f
    BY <1>3, <1>4, <2>1
  <2> QED
    BY <1>2, <1>5, <2>2
<1>10. CASE \E key \in S : SignOf[key] # 1
  <2>1. \A key \in S : SignOf[key] = -1
    BY <1>7, <1>8, <1>10
  <2>2. \A key \in S : g[key] = -f[key]
    BY <1>4, <1>6, <1>8, <2>1
  <2>3. DOMAIN g = S
    BY <1>4
  <2>4. SumOf(g) = -SumOf(f)
    BY <1>3, <2>2, <2>3, SumNegated
  <2> QED
    BY <1>2, <1>5, <2>4
<1> QED
  BY <1>9, <1>10

LEMMA SketchMassFacts ==
  ASSUME NoCancelling, NEW l, NEW b, Valued(l, b), NEW a \in SUBSET b
  PROVE  /\ SketchMassOf(l, a) \in Nat
         /\ SketchMassOf(l, b) \in Nat
         /\ SketchMassOf(l, a) <= SketchMassOf(l, b)
<1>0. Valued(l, a)
  BY FS_Subset DEF Valued
<1>1. PICK S : S = CellsUsed(l, b)
  OBVIOUS
<1>2. PICK T : T = CellsUsed(l, a)
  OBVIOUS
<1>3. KeysOf(l, a) \in SUBSET KeysOf(l, b)
  BY DEF KeysOf
<1>4. T \in SUBSET S
  BY <1>1, <1>2, <1>3 DEF CellsUsed
<1>5. IsFiniteSet(S)
  <2>1. IsFiniteSet(KeysOf(l, b))
    BY KeysAreFew DEF Valued
  <2>2. PICK f : f = [key \in KeysOf(l, b) |-> CellOf[key]]
    OBVIOUS
  <2>3. f \in Surjection(KeysOf(l, b), S)
    BY <1>1, <2>2 DEF CellsUsed, Surjection
  <2> QED
    BY <2>1, <2>3, FS_Surjection
<1>6. IsFiniteSet(T)
  BY <1>4, <1>5, FS_Subset
<1>7. ASSUME NEW cell
      PROVE  /\ CounterOf(l, a, cell) * CounterOf(l, a, cell) \in Nat
             /\ CounterOf(l, b, cell) * CounterOf(l, b, cell) \in Nat
             /\ CounterOf(l, a, cell) * CounterOf(l, a, cell)
                  <= CounterOf(l, b, cell) * CounterOf(l, b, cell)
  <2>1. PICK x \in Nat : x = SumOf(CellCounts(l, a, cell))
    BY <1>0, CellKeysFacts
  <2>2. PICK y \in Nat : y = SumOf(CellCounts(l, b, cell))
    BY CellKeysFacts
  <2>3. x <= y
    <3>1. PICK U : U = CellKeys(l, b, cell)
      OBVIOUS
    <3>2. PICK V : V = CellKeys(l, a, cell)
      OBVIOUS
    <3>3. PICK f : f = CellCounts(l, b, cell)
      OBVIOUS
    <3>4. PICK g : g = CellCounts(l, a, cell)
      OBVIOUS
    <3>5. IsFiniteSet(U) /\ f \in [U -> Nat]
      BY <3>1, <3>3, CellKeysFacts
    <3>6. g \in [V -> Nat]
      BY <1>0, <3>2, <3>4, CellKeysFacts
    <3>7. V \in SUBSET U
      BY <1>3, <3>1, <3>2 DEF CellKeys
    <3>8. \A key \in V : g[key] <= f[key]
      <4> TAKE key \in V
      <4>1. g[key] = CountIn(l, a, key) /\ f[key] = CountIn(l, b, key)
        BY <3>1, <3>2, <3>3, <3>4, <3>7 DEF CellCounts
      <4>2. CountIn(l, a, key) <= CountIn(l, b, key)
        BY CountFacts
      <4> QED
        BY <4>1, <4>2
    <3>9. SumOf(g) <= SumOf(f)
      BY <3>5, <3>6, <3>7, <3>8, SumGrows
    <3> QED
      BY <2>1, <2>2, <3>3, <3>4, <3>9
  <2>4. CounterOf(l, a, cell) \in {x, -x}
    BY <1>0, <2>1, CounterSize
  <2>5. CounterOf(l, b, cell) \in {y, -y}
    BY <2>2, CounterSize
  <2>6. x * x \in Nat /\ y * y \in Nat /\ x * x <= y * y
    BY <2>3, SquareGrows
  <2>7. (-x) * (-x) = x * x /\ (-y) * (-y) = y * y
    OBVIOUS
  <2>8. CounterOf(l, a, cell) * CounterOf(l, a, cell) = x * x
    BY <2>4, <2>7
  <2>9. CounterOf(l, b, cell) * CounterOf(l, b, cell) = y * y
    BY <2>5, <2>7
  <2> QED
    BY <2>6, <2>8, <2>9
<1>8. PICK f : f = CounterSquares(l, b)
  OBVIOUS
<1>9. PICK g : g = CounterSquares(l, a)
  OBVIOUS
<1>10. f \in [S -> Nat] /\ g \in [T -> Nat] /\ \A cell \in T : g[cell] <= f[cell]
  BY <1>1, <1>2, <1>4, <1>7, <1>8, <1>9 DEF CounterSquares
<1>11. SumOf(f) \in Nat /\ SumOf(g) \in Nat
  BY <1>5, <1>6, <1>10, SumIsNat
<1>12. SumOf(g) <= SumOf(f)
  BY <1>4, <1>5, <1>10, SumGrows
<1> QED
  BY <1>8, <1>9, <1>11, <1>12 DEF SketchMassOf


(***************************************************************************)
(* The tiers as rows of weights, and what the loops know of them.          *)
(***************************************************************************)
MapRow(l, p) == [i \in 1..Len(p) |-> MapMass(l, p[i].seen)]

SketchRow(l, p) == [i \in 1..Len(p) |-> SketchMassOf(l, p[i].seen)]

MapsTotal(l, p) == Above(MapRow(l, p), Len(p), 1)

(* A map's cached mass is its own; the loop has summed up what is newer    *)
(* than its pair and left no light pair behind it; what it hands on is the *)
(* mass of all maps but the oldest.                                        *)
WeighedMaps ==
  /\ \A i \in 1..Len(maps) : maps[i].l22 = MapMass(log, maps[i].seen)
  /\ phase = "maps" =>
       /\ newer = Above(MapRow(log, maps), Len(maps), at + 2)
       /\ HeavyFrom(MapRow(log, maps), Len(maps), at + 1, 0)
  /\ phase # "maps" => HeavyFrom(MapRow(log, maps), Len(maps), 1, 0)
  /\ phase = "promote" => newer = Above(MapRow(log, maps), Len(maps), 2)

WeighedSketches ==
  phase = "sketches" /\ NoCancelling =>
    /\ newer = MapsTotal(log, maps) + Above(SketchRow(log, um), Len(um), at + 2)
    /\ HeavyFrom(SketchRow(log, um), Len(um), at + 1, MapsTotal(log, maps))

LEMMA TierValued ==
  ASSUME NEW l \in Seq(Entries), NEW p, Row(p), Spans(p, l)
  PROVE  /\ Len(p) \in Nat
         /\ \A i \in 1..Len(p) : Valued(l, p[i].seen) /\ p[i].seen \subseteq DOMAIN l
         /\ MapRow(l, p) \in [1..Len(p) -> Nat]
         /\ NoCancelling => SketchRow(l, p) \in [1..Len(p) -> Nat]
<1>0. Len(p) \in Nat /\ DOMAIN p = 1..Len(p)
  BY RowFacts
<1>1. Len(l) \in Nat /\ DOMAIN l = 1..Len(l) /\ \A o \in DOMAIN l : l[o] \in Entries
  OBVIOUS
<1>2. IsFiniteSet(DOMAIN l)
  BY <1>1, FS_Interval
<1>3. ASSUME NEW i \in 1..Len(p)
      PROVE  Valued(l, p[i].seen) /\ p[i].seen \subseteq DOMAIN l
  <2>1. p[i].seen \in SUBSET DOMAIN l
    BY <1>0 DEF Spans
  <2>2. IsFiniteSet(p[i].seen)
    BY <1>2, <2>1, FS_Subset
  <2>3. \A o \in DOMAIN l : l[o].value \in Nat /\ l[o].key \in Keys
    BY <1>1 DEF Entries
  <2> QED
    BY <2>1, <2>2, <2>3 DEF Valued
<1>4. \A i \in 1..Len(p) : MapMass(l, p[i].seen) \in Nat
  <2> TAKE i \in 1..Len(p)
  <2>1. PICK b : b = p[i].seen
    OBVIOUS
  <2>2. Valued(l, b) /\ b \in SUBSET b
    BY <1>3, <2>1
  <2>3. MapMass(l, b) \in Nat
    BY <2>2, MapMassFacts
  <2> QED
    BY <2>1, <2>3
<1>5. ASSUME NoCancelling, NEW i \in 1..Len(p)
      PROVE  SketchMassOf(l, p[i].seen) \in Nat
  <2>1. PICK b : b = p[i].seen
    OBVIOUS
  <2>2. Valued(l, b) /\ b \in SUBSET b
    BY <1>3, <2>1
  <2>3. SketchMassOf(l, b) \in Nat
    BY <1>5, <2>2, SketchMassFacts
  <2> QED
    BY <2>1, <2>3
<1> QED
  BY <1>0, <1>3, <1>4, <1>5 DEF MapRow, SketchRow

LEMMA MergedTierRow ==
  ASSUME NEW p, Row(p), NEW k \in 1..(Len(p) - 1), NEW e
  PROVE  /\ Len(MergedPair(p, e, k)) = Len(p) - 1
         /\ \A i \in 1..(k - 1) : MergedPair(p, e, k)[i] = p[i]
         /\ MergedPair(p, e, k)[k] = e
         /\ \A i \in (k + 1)..(Len(p) - 1) : MergedPair(p, e, k)[i] = p[i + 1]
<1>1. MergedPair(p, e, k) = Spliced(p, e, k)
  BY DEF MergedPair, Spliced
<1>2. /\ Len(Spliced(p, e, k)) = Len(p) - 1
      /\ \A i \in 1..(k - 1) : Spliced(p, e, k)[i] = p[i]
      /\ Spliced(p, e, k)[k] = e
      /\ \A i \in (k + 1)..(Len(p) - 1) : Spliced(p, e, k)[i] = p[i + 1]
  BY SplicedRow
<1> QED
  BY <1>1, <1>2

LEMMA ValuedTogether ==
  ASSUME NEW l, NEW a, NEW b, Valued(l, a), Valued(l, b)
  PROVE  Valued(l, a \cup b)
<1>1. IsFiniteSet(a \cup b)
  BY FS_Union DEF Valued
<1> QED
  BY <1>1 DEF Valued

LEMMA InvRows ==
  ASSUME Inv
  PROVE  /\ log \in Seq(Entries)
         /\ Row(um) /\ Spans(um, log)
         /\ Row(maps) /\ Spans(maps, log)
         /\ Len(um) \in Nat /\ Len(maps) \in Nat
BY RowFacts DEF Inv, Tiers, Scalars

(***************************************************************************)
(* The map loop.                                                           *)
(***************************************************************************)
LEMMA MergeMapsWeighed ==
  ASSUME Inv, Inv', WeighedMaps, MergeMaps
  PROVE  WeighedMaps'
<1>1. /\ log \in Seq(Entries) /\ Row(maps) /\ Spans(maps, log)
      /\ Row(maps') /\ Spans(maps', log)
  BY InvRows DEF Inv, Tiers, Scalars, MergeMaps, history
<1>2. /\ log' = log /\ newer' = newer
      /\ phase = "maps"
      /\ at \in 1..(Len(maps) - 1)
      /\ maps' = MergedPair(maps, JoinedMap(maps[at], maps[at + 1]), at)
      /\ IF at = 1 THEN phase' = "promote" ELSE phase' = "maps" /\ at' = at - 1
  BY DEF Inv, LoopAt, MergeMaps, OlderPair, history
<1>3. PICK n \in Nat : n = Len(maps)
  BY <1>1, TierValued
<1>4. PICK k \in 1..(n - 1) : k = at
  BY <1>2, <1>3
<1>5. PICK m \in Nat : m = n - 1
  BY <1>3, <1>4
<1>6. PICK e : e = JoinedMap(maps[k], maps[k + 1])
  OBVIOUS
<1>7. /\ Len(maps') = m
      /\ \A i \in 1..(k - 1) : maps'[i] = maps[i]
      /\ maps'[k] = e
      /\ \A i \in (k + 1)..m : maps'[i] = maps[i + 1]
  <2>1. k \in 1..(Len(maps) - 1)
    BY <1>3, <1>4
  <2>2. /\ Len(MergedPair(maps, e, k)) = Len(maps) - 1
        /\ \A i \in 1..(k - 1) : MergedPair(maps, e, k)[i] = maps[i]
        /\ MergedPair(maps, e, k)[k] = e
        /\ \A i \in (k + 1)..(Len(maps) - 1) : MergedPair(maps, e, k)[i] = maps[i + 1]
    BY <1>1, <2>1, MergedTierRow
  <2>3. maps' = MergedPair(maps, e, k)
    BY <1>2, <1>4, <1>6
  <2> QED
    BY <1>3, <1>5, <2>2, <2>3
<1>8. PICK w : w = MapRow(log, maps)
  OBVIOUS
<1>9. PICK v : v = MapRow(log, maps')
  OBVIOUS
<1>10. w \in [1..n -> Nat] /\ v \in [1..m -> Nat]
  BY <1>1, <1>3, <1>7, <1>8, <1>9, TierValued
<1>11. /\ \A i \in 1..n : w[i] = MapMass(log, maps[i].seen)
       /\ \A i \in 1..m : v[i] = MapMass(log, maps'[i].seen)
  BY <1>3, <1>7, <1>8, <1>9 DEF MapRow
<1>12. w[k + 1] <= v[k]
  <2>1. PICK a : a = maps[k].seen
    OBVIOUS
  <2>2. PICK b : b = maps[k + 1].seen
    OBVIOUS
  <2>3. k \in 1..Len(maps) /\ k + 1 \in 1..Len(maps)
    BY <1>3
  <2>4. Valued(log, a) /\ Valued(log, b)
    BY <1>1, <2>1, <2>2, <2>3, TierValued
  <2>5. Valued(log, a \cup b)
    BY <2>4, ValuedTogether
  <2>6. PICK c : c = a \cup b
    OBVIOUS
  <2>7. MapMass(log, b) <= MapMass(log, c)
    <3>1. Valued(log, c) /\ b \in SUBSET c
      BY <2>5, <2>6
    <3> QED
      BY <3>1, MapMassFacts
  <2>8. maps'[k].seen = c
    BY <1>6, <1>7, <2>1, <2>2, <2>6 DEF JoinedMap
  <2>9. k \in 1..m /\ k + 1 \in 1..n
    BY <1>4, <1>5
  <2>10. w[k + 1] = MapMass(log, b) /\ v[k] = MapMass(log, c)
    BY <1>11, <2>2, <2>8, <2>9
  <2> QED
    BY <2>7, <2>10
<1>13. \A j \in (k + 1)..m : v[j] = w[j + 1]
  <2> TAKE j \in (k + 1)..m
  <2>1. j \in 1..m /\ j + 1 \in 1..n /\ maps'[j] = maps[j + 1]
    BY <1>5, <1>7
  <2> QED
    BY <1>11, <2>1
<1>14. HeavyFrom(w, n, k + 1, 0) /\ newer = Above(w, n, k + 2)
  BY <1>2, <1>3, <1>4, <1>8 DEF WeighedMaps
<1>15. HeavyFrom(v, m, k, 0) /\ Above(v, m, k + 1) = Above(w, n, k + 2)
  <2>1. MergedWeights(w, n, k, v, m)
    BY <1>5, <1>10, <1>12, <1>13 DEF MergedWeights
  <2>2. HeavyFrom(w, n, k + 1, 0) /\ 0 \in Nat
    BY <1>14
  <2> QED
    BY <2>1, <2>2, MergeKeepsHeavy
<1>16. ASSUME NEW i \in 1..m
       PROVE  maps'[i].l22 = MapMass(log, maps'[i].seen)
  <2>1. CASE i = k
    <3>1. maps'[i] = e
      BY <1>7, <2>1
    <3>2. e.l22 = MapMass(log, e.seen)
      <4>1. PICK c : c = maps[k].seen \cup maps[k + 1].seen
        OBVIOUS
      <4>2. e.l22 = MapMass(log, c) /\ e.seen = c
        BY <1>6, <4>1 DEF JoinedMap
      <4> QED
        BY <4>2
    <3> QED
      BY <3>1, <3>2
  <2>4. \A j \in 1..Len(maps) : maps[j].l22 = MapMass(log, maps[j].seen)
    BY DEF WeighedMaps
  <2>2. CASE i < k
    <3>1. i \in 1..(k - 1) /\ i \in 1..Len(maps)
      BY <1>3, <1>5, <2>2
    <3>2. maps'[i] = maps[i]
      BY <1>7, <3>1
    <3> QED
      BY <2>4, <3>1, <3>2
  <2>3. CASE i > k
    <3>1. i \in (k + 1)..m /\ i + 1 \in 1..Len(maps)
      BY <1>3, <1>5, <2>3
    <3>2. maps'[i] = maps[i + 1]
      BY <1>7, <3>1
    <3> QED
      BY <2>4, <3>1, <3>2
  <2> QED
    BY <2>1, <2>2, <2>3
<1>17. CASE at = 1
  <2>1. phase' = "promote" /\ k = 1
    BY <1>2, <1>4, <1>17
  <2>2. HeavyFrom(v, m, 1, 0) /\ newer' = Above(v, m, 2)
    BY <1>2, <1>14, <1>15, <2>1
  <2> QED
    BY <1>2, <1>7, <1>9, <1>16, <2>1, <2>2 DEF WeighedMaps
<1>18. CASE at # 1
  <2>1. phase' = "maps" /\ at' = k - 1
    BY <1>2, <1>4, <1>18
  <2>2. at' + 1 = k /\ at' + 2 = k + 1
    BY <2>1
  <2>3. HeavyFrom(v, m, at' + 1, 0) /\ newer' = Above(v, m, at' + 2)
    BY <1>2, <1>14, <1>15, <2>2
  <2> QED
    BY <1>2, <1>7, <1>9, <1>16, <2>1, <2>3 DEF WeighedMaps
<1> QED
  BY <1>17, <1>18

LEMMA KeepMapsWeighed ==
  ASSUME Inv, WeighedMaps, KeepMaps
  PROVE  WeighedMaps'
<1>1. log \in Seq(Entries) /\ Row(maps) /\ Spans(maps, log)
  BY InvRows
<1>2. /\ log' = log /\ maps' = maps
      /\ phase = "maps"
      /\ at \in 1..(Len(maps) - 1)
      /\ ~(K * (maps[at].l22 + maps[at + 1].l22) <= newer)
      /\ newer' = newer + maps[at + 1].l22
      /\ IF at = 1 THEN phase' = "promote" ELSE phase' = "maps" /\ at' = at - 1
  BY DEF Inv, LoopAt, KeepMaps, OlderPair, history, Light, MapPair
<1>3. PICK n \in Nat : n = Len(maps)
  BY <1>1, TierValued
<1>4. PICK k \in 1..(n - 1) : k = at
  BY <1>2, <1>3
<1>5. PICK w : w = MapRow(log, maps)
  OBVIOUS
<1>6. w \in [1..n -> Nat]
  BY <1>1, <1>3, <1>5, TierValued
<1>7. k \in 1..n /\ k + 1 \in 1..n /\ k + 2 \in 1..(n + 2)
  OBVIOUS
<1>8. maps[k].l22 = w[k] /\ maps[k + 1].l22 = w[k + 1]
  BY <1>3, <1>5, <1>7 DEF MapRow, WeighedMaps
<1>9. HeavyFrom(w, n, k + 1, 0) /\ newer = Above(w, n, k + 2)
  BY <1>2, <1>3, <1>4, <1>5 DEF WeighedMaps
<1>10. PICK u \in Nat : u = Above(w, n, k + 2)
  BY <1>6, <1>7, AboveFacts
<1>11. K * (w[k] + w[k + 1]) > u + 0
  <2>1. PICK x \in Nat : x = w[k] + w[k + 1]
    BY <1>6, <1>7
  <2>2. K * x \in Nat
    BY <2>1, ScaledGrows
  <2>3. ~(K * x <= u)
    BY <1>2, <1>4, <1>8, <1>9, <1>10, <2>1
  <2>4. K * x > u + 0
    BY <2>2, <2>3
  <2> QED
    BY <2>1, <2>4
<1>12. HeavyFrom(w, n, k, 0) /\ Above(w, n, k + 1) = w[k + 1] + Above(w, n, k + 2)
  BY <1>6, <1>9, <1>10, <1>11, KeepKeepsHeavy
<1>13. newer' = Above(w, n, k + 1)
  <2>1. newer' = u + w[k + 1] /\ w[k + 1] \in Nat
    BY <1>2, <1>4, <1>6, <1>7, <1>8, <1>9, <1>10
  <2> QED
    BY <1>10, <1>12, <2>1
<1>14. CASE at = 1
  <2>1. phase' = "promote" /\ k = 1
    BY <1>2, <1>4, <1>14
  <2> QED
    BY <1>2, <1>3, <1>5, <1>12, <1>13, <2>1 DEF WeighedMaps
<1>15. CASE at # 1
  <2>1. phase' = "maps" /\ at' + 1 = k /\ at' + 2 = k + 1
    BY <1>2, <1>4, <1>15
  <2> QED
    BY <1>2, <1>3, <1>5, <1>12, <1>13, <2>1 DEF WeighedMaps
<1> QED
  BY <1>14, <1>15


LEMMA PromoteWeighed ==
  ASSUME Inv, Inv', WeighedMaps, Promote
  PROVE  /\ WeighedMaps'
         /\ newer = MapsTotal(log, maps')
<1>1. /\ log \in Seq(Entries) /\ Row(maps) /\ Spans(maps, log)
      /\ Row(maps') /\ Spans(maps', log)
  BY InvRows DEF Inv, Tiers, Scalars, Promote, history
<1>2. /\ log' = log
      /\ phase = "promote" /\ phase' \in {"idle", "sketches"}
      /\ Len(maps) >= 1
      /\ maps' = Tail(maps)
  BY DEF Inv, LoopAt, Promote, Return, history
<1>3. PICK n \in Nat : n = Len(maps)
  BY <1>1, TierValued
<1>4. PICK m \in Nat : n = m + 1
  <2>1. n - 1 \in Nat /\ n = (n - 1) + 1
    BY <1>2, <1>3
  <2> QED
    BY <2>1
<1>5. Len(maps') = m /\ \A i \in 1..m : maps'[i] = maps[i + 1]
  <2>1. PICK S : maps \in Seq(S)
    BY <1>1 DEF Row
  <2>2. PICK r : r = Tail(maps)
    OBVIOUS
  <2>3. Len(r) = Len(maps) - 1 /\ \A i \in 1..(Len(maps) - 1) : r[i] = maps[i + 1]
    BY <1>2, <1>3, <2>1, <2>2
  <2> QED
    BY <1>2, <1>3, <1>4, <2>2, <2>3
<1>6. PICK w : w = MapRow(log, maps)
  OBVIOUS
<1>7. PICK v : v = MapRow(log, maps')
  OBVIOUS
<1>8. w \in [1..n -> Nat] /\ v \in [1..m -> Nat]
  BY <1>1, <1>3, <1>5, <1>6, <1>7, TierValued
<1>9. \A j \in 1..m : v[j] = w[j + 1]
  <2> TAKE j \in 1..m
  <2>1. j + 1 \in 1..n /\ maps'[j] = maps[j + 1]
    BY <1>4, <1>5
  <2>2. v[j] = MapMass(log, maps'[j].seen)
    BY <1>5, <1>7 DEF MapRow
  <2>3. w[j + 1] = MapMass(log, maps[j + 1].seen)
    BY <1>3, <1>6, <2>1 DEF MapRow
  <2> QED
    BY <2>1, <2>2, <2>3
<1>10. HeavyFrom(w, n, 1, 0) /\ newer = Above(w, n, 2)
  BY <1>2, <1>3, <1>6 DEF WeighedMaps
<1>11. HeavyFrom(v, m, 1, 0) /\ Above(v, m, 1) = Above(w, n, 2)
  BY <1>4, <1>8, <1>9, <1>10, TailIsHeavy
<1>12. ASSUME NEW i \in 1..m
       PROVE  maps'[i].l22 = MapMass(log, maps'[i].seen)
  <2>1. i + 1 \in 1..Len(maps) /\ maps'[i] = maps[i + 1]
    BY <1>3, <1>4, <1>5
  <2>2. \A j \in 1..Len(maps) : maps[j].l22 = MapMass(log, maps[j].seen)
    BY DEF WeighedMaps
  <2> QED
    BY <2>1, <2>2
<1>13. newer = MapsTotal(log, maps')
  BY <1>5, <1>7, <1>10, <1>11 DEF MapsTotal
<1> QED
  BY <1>2, <1>5, <1>7, <1>11, <1>12, <1>13 DEF WeighedMaps

LEMMA UpdateWeighed ==
  ASSUME Inv, Inv', WeighedMaps,
         NEW time \in Times, NEW key \in Keys, NEW value \in Nat,
         Update(time, key, value)
  PROVE  WeighedMaps'
<1>1. /\ log \in Seq(Entries) /\ Row(maps) /\ Spans(maps, log)
      /\ log' \in Seq(Entries) /\ Row(maps') /\ Spans(maps', log')
  BY InvRows DEF Inv, Tiers, Scalars
<1>2. PICK e : e = [time |-> time, key |-> key, value |-> value]
  OBVIOUS
<1>3. PICK o : o = Len(log) + 1
  OBVIOUS
<1>4. PICK b : b = [seen |-> {o}, l22 |-> value * value, min |-> time, max |-> time]
  OBVIOUS
<1>5. PICK q : q = Survivors(maps, time)
  OBVIOUS
<1>6. /\ log' = Append(log, e)
      /\ maps' = Append(q, b)
      /\ newer' = 0
      /\ IF Len(maps') >= 2 THEN phase' = "maps" /\ at' = Len(maps') - 1
                            ELSE phase' = "promote"
  BY <1>2, <1>3, <1>4, <1>5 DEF Update
<1>7. /\ \A p \in DOMAIN log : log'[p] = log[p]
      /\ log'[o] = e
  <2>1. Row(log)
    BY <1>1 DEF Row
  <2>2. DOMAIN log = 1..Len(log)
    BY <2>1, RowFacts
  <2> QED
    BY <1>3, <1>6, <2>1, <2>2, AppendRow
<1>8. PICK n \in Nat : n = Len(maps')
  BY <1>1, TierValued
<1>9. Row(q) /\ \A i \in 1..Len(q) : \E j \in 1..Len(maps) : q[i] = maps[j]
  <2>1. Row(q)
    BY <1>1, <1>5, SurvivingTier DEF Inv, Tiers, EachInOneTier
  <2>2. PICK d \in 1..(Len(maps) + 1) :
           /\ Len(q) = Len(maps) - d + 1
           /\ \A i \in 1..(Len(maps) - d + 1) :
                i + d - 1 \in 1..Len(maps) /\ q[i] = maps[i + d - 1]
    BY <1>1, <1>5, SurvivorsAre, ZenonT(60)
  <2> QED
    BY <2>1, <2>2
<1>10. /\ Len(q) \in Nat /\ n = Len(q) + 1
       /\ \A i \in 1..Len(q) : maps'[i] = q[i]
       /\ maps'[n] = b
  BY <1>6, <1>8, <1>9, AppendRow, RowFacts
<1>11. ASSUME NEW i \in 1..n
       PROVE  maps'[i].l22 = MapMass(log', maps'[i].seen)
  <2>1. CASE i = n
    <3>1. maps'[i] = b
      BY <1>10, <2>1
    <3>2. log'[o].value = value
      BY <1>2, <1>7
    <3>3. MapMass(log', {o}) = value * value
      <4>1. PICK l : l = log'
        OBVIOUS
      <4>2. MapMass(l, {o}) = l[o].value * l[o].value
        BY <3>2, <4>1, MapMassOfOne
      <4> QED
        BY <3>2, <4>1, <4>2
    <3> QED
      BY <1>4, <3>1, <3>3
  <2>2. CASE i # n
    <3>1. i \in 1..Len(q) /\ maps'[i] = q[i]
      BY <1>10, <2>2
    <3>2. PICK j \in 1..Len(maps) : q[i] = maps[j]
      BY <1>9, <3>1
    <3>3. PICK s : s = maps[j].seen
      OBVIOUS
    <3>4. s \subseteq DOMAIN log
      BY <1>1, <3>3, TierValued
    <3>5. MapMass(log, s) = MapMass(log', s)
      <4>1. PICK l : l = log
        OBVIOUS
      <4>2. PICK m : m = log'
        OBVIOUS
      <4>3. \A p \in s : l[p] = m[p]
        BY <1>7, <3>4, <4>1, <4>2
      <4> QED
        BY <4>1, <4>2, <4>3, MapMassSame
    <3>6. maps[j].l22 = MapMass(log, s)
      BY <3>3 DEF WeighedMaps
    <3> QED
      BY <3>1, <3>2, <3>3, <3>5, <3>6
  <2> QED
    BY <2>1, <2>2
<1>12. PICK w : w = MapRow(log', maps')
  OBVIOUS
<1>13. w \in [1..n -> Nat]
  BY <1>1, <1>8, <1>12, TierValued
<1>14. HeavyFrom(w, n, n, 0) /\ Above(w, n, n + 1) = 0
  <2>1. HeavyFrom(w, n, n, 0)
    BY DEF HeavyFrom
  <2>2. n + 1 \in (n + 1)..(n + 2)
    OBVIOUS
  <2> QED
    BY <1>13, <2>1, <2>2, AboveFacts
<1>15. CASE n >= 2
  <2>1. phase' = "maps" /\ at' = n - 1
    BY <1>6, <1>8, <1>15
  <2>2. at' + 1 = n /\ at' + 2 = n + 1
    BY <2>1
  <2> QED
    BY <1>6, <1>8, <1>11, <1>12, <1>14, <2>1, <2>2 DEF WeighedMaps
<1>16. CASE ~(n >= 2)
  <2>1. n = 1 /\ n + 1 = 2
    BY <1>10, <1>16
  <2>2. phase' = "promote"
    BY <1>6, <1>8, <1>16
  <2> QED
    BY <1>6, <1>8, <1>11, <1>12, <1>14, <2>1, <2>2 DEF WeighedMaps
<1> QED
  BY <1>15, <1>16

LEMMA MapsUntouched ==
  ASSUME WeighedMaps, maps' = maps, log' = log,
         \/ phase # "maps" /\ phase' \in {"idle", "sketches"}
         \/ phase' = phase /\ at' = at /\ newer' = newer
  PROVE  WeighedMaps'
BY DEF WeighedMaps


(* Every step keeps what is known of the map tier.                         *)
LEMMA MapsStayWeighed ==
  ASSUME Inv, Inv', WeighedMaps, [Next]_vars
  PROVE  WeighedMaps'
<1>1. CASE \E time \in Times, input \in Inputs : Update(time, input[1], input[2])
  <2>1. PICK time \in Times, input \in Inputs : Update(time, input[1], input[2])
    BY <1>1
  <2>2. input[1] \in Keys /\ input[2] \in Nat
    BY TiersAssumption
  <2> QED
    BY <2>1, <2>2, UpdateWeighed
<1>2. CASE MergeMaps
  BY <1>2, MergeMapsWeighed
<1>3. CASE KeepMaps
  BY <1>3, KeepMapsWeighed
<1>4. CASE Promote
  BY <1>4, PromoteWeighed
<1>5. CASE KeepOldestMap \/ MergeSketches \/ KeepSketches
  <2>1. /\ maps' = maps /\ log' = log
        /\ phase # "maps" /\ phase' \in {"idle", "sketches"}
    BY <1>5 DEF KeepOldestMap, MergeSketches, KeepSketches, Return, OlderPair, history
  <2> QED
    BY <2>1, MapsUntouched
<1>6. CASE (\E w \in Windows : UpdateWindow(w)) \/ Done \/ UNCHANGED vars
  <2>1. maps' = maps /\ log' = log /\ phase' = phase /\ at' = at /\ newer' = newer
    BY <1>6 DEF UpdateWindow, Done, vars, loop
  <2> QED
    BY <2>1, MapsUntouched
<1> QED
  BY <1>1, <1>2, <1>3, <1>4, <1>5, <1>6 DEF Next

(***************************************************************************)
(* The sketch loop.                                                        *)
(***************************************************************************)
HeavySketches == HeavyFrom(SketchRow(log, um), Len(um), 1, MapsTotal(log, maps))

LEMMA TotalIsNat ==
  ASSUME NEW l \in Seq(Entries), NEW p, Row(p), Spans(p, l)
  PROVE  MapsTotal(l, p) \in Nat
<1>1. PICK w : w = MapRow(l, p)
  OBVIOUS
<1>2. PICK n \in Nat : n = Len(p)
  BY TierValued
<1>3. w \in [1..n -> Nat]
  BY <1>1, <1>2, TierValued
<1>4. 1 \in 1..(n + 2)
  OBVIOUS
<1>5. Above(w, n, 1) \in Nat
  BY <1>3, <1>4, AboveFacts
<1> QED
  BY <1>1, <1>2, <1>5 DEF MapsTotal

LEMMA PromoteWeighs ==
  ASSUME Inv, Inv', WeighedMaps, Promote, NoCancelling, phase' = "sketches"
  PROVE  WeighedSketches'
<1>1. /\ log' = log /\ newer' = newer /\ at' = Len(um)
      /\ \E b : um' = Append(um, b)
  BY DEF Promote, Return, history
<1>2. newer = MapsTotal(log, maps')
  BY PromoteWeighed
<1>3. /\ log \in Seq(Entries) /\ Row(um) /\ Row(um') /\ Spans(um', log)
  BY <1>1, InvRows DEF Inv, Tiers, Scalars
<1>4. PICK n \in Nat : n = Len(um')
  BY <1>3, TierValued
<1>5. Len(um) + 1 = n /\ Len(um) \in Nat
  <2>1. PICK b : um' = Append(um, b)
    BY <1>1
  <2> QED
    BY <1>3, <1>4, <2>1, AppendRow, RowFacts
<1>6. PICK w : w = SketchRow(log, um')
  OBVIOUS
<1>7. w \in [1..n -> Nat]
  BY <1>3, <1>4, <1>6, TierValued
<1>8. PICK base : base = MapsTotal(log, maps')
  OBVIOUS
<1>9. base \in Nat
  <2>1. Row(maps') /\ Spans(maps', log)
    BY <1>1, InvRows DEF Inv, Tiers
  <2>2. PICK r : r = maps'
    OBVIOUS
  <2> QED
    BY <1>3, <1>8, <2>1, <2>2, TotalIsNat
<1>10. Above(w, n, n + 1) = 0
  <2>1. n + 1 \in (n + 1)..(n + 2)
    OBVIOUS
  <2> QED
    BY <1>7, <2>1, AboveFacts
<1>11. HeavyFrom(w, n, n, base)
  BY DEF HeavyFrom
<1>12. at' + 1 = n /\ at' + 2 = n + 1 /\ newer' = base + 0
  BY <1>1, <1>2, <1>5, <1>8, <1>9
<1> QED
  BY <1>1, <1>4, <1>6, <1>8, <1>10, <1>11, <1>12 DEF WeighedSketches


LEMMA MergeSketchesWeighs ==
  ASSUME Inv, Inv', WeighedSketches, MergeSketches, NoCancelling
  PROVE  WeighedSketches' /\ (at = 1 => HeavySketches')
<1>1. /\ log \in Seq(Entries) /\ Row(um) /\ Spans(um, log)
      /\ Row(um') /\ Spans(um', log)
      /\ Row(maps) /\ Spans(maps, log)
  BY InvRows DEF Inv, Tiers, Scalars, MergeSketches, history
<1>2. /\ log' = log /\ maps' = maps
      /\ phase = "sketches"
      /\ at \in 1..(Len(um) - 1)
      /\ \E b : /\ b.seen = um[at].seen \cup um[at + 1].seen
                /\ um' = MergedPair(um, b, at)
      /\ at # 1 => at' = at - 1 /\ newer' = newer
      /\ at = 1 => phase' = "idle"
  <2>1. \A cand : JoinedSketch(um[at], um[at + 1], cand).seen = um[at].seen \cup um[at + 1].seen
    BY DEF JoinedSketch
  <2> QED
    BY <2>1 DEF Inv, LoopAt, MergeSketches, OlderPair, Return, history
<1>3. PICK n \in Nat : n = Len(um)
  BY <1>1, TierValued
<1>4. PICK k \in 1..(n - 1) : k = at
  BY <1>2, <1>3
<1>5. PICK m \in Nat : m = n - 1
  BY <1>3, <1>4
<1>6. PICK e : e.seen = um[k].seen \cup um[k + 1].seen /\ um' = MergedPair(um, e, k)
  BY <1>2, <1>4
<1>7. /\ Len(um') = m
      /\ um'[k] = e
      /\ \A i \in (k + 1)..m : um'[i] = um[i + 1]
  <2>1. k \in 1..(Len(um) - 1)
    BY <1>3, <1>4
  <2>2. /\ Len(MergedPair(um, e, k)) = Len(um) - 1
        /\ MergedPair(um, e, k)[k] = e
        /\ \A i \in (k + 1)..(Len(um) - 1) : MergedPair(um, e, k)[i] = um[i + 1]
    BY <1>1, <2>1, MergedTierRow
  <2> QED
    BY <1>3, <1>5, <1>6, <2>2
<1>8. PICK w : w = SketchRow(log, um)
  OBVIOUS
<1>9. PICK v : v = SketchRow(log, um')
  OBVIOUS
<1>10. w \in [1..n -> Nat] /\ v \in [1..m -> Nat]
  BY <1>1, <1>3, <1>7, <1>8, <1>9, TierValued
<1>11. /\ \A i \in 1..n : w[i] = SketchMassOf(log, um[i].seen)
       /\ \A i \in 1..m : v[i] = SketchMassOf(log, um'[i].seen)
  BY <1>3, <1>7, <1>8, <1>9 DEF SketchRow
<1>12. w[k + 1] <= v[k]
  <2>1. PICK a : a = um[k].seen
    OBVIOUS
  <2>2. PICK b : b = um[k + 1].seen
    OBVIOUS
  <2>3. k \in 1..Len(um) /\ k + 1 \in 1..Len(um)
    BY <1>3
  <2>4. Valued(log, a) /\ Valued(log, b)
    BY <1>1, <2>1, <2>2, <2>3, TierValued
  <2>5. PICK c : c = a \cup b
    OBVIOUS
  <2>6. SketchMassOf(log, b) <= SketchMassOf(log, c)
    <3>1. Valued(log, c) /\ b \in SUBSET c
      BY <2>4, <2>5, ValuedTogether
    <3> QED
      BY <3>1, SketchMassFacts
  <2>7. um'[k].seen = c
    BY <1>6, <1>7, <2>1, <2>2, <2>5
  <2>8. k \in 1..m /\ k + 1 \in 1..n
    BY <1>4, <1>5
  <2>9. w[k + 1] = SketchMassOf(log, b) /\ v[k] = SketchMassOf(log, c)
    BY <1>11, <2>2, <2>7, <2>8
  <2> QED
    BY <2>6, <2>9
<1>13. \A j \in (k + 1)..m : v[j] = w[j + 1]
  <2> TAKE j \in (k + 1)..m
  <2>1. j \in 1..m /\ j + 1 \in 1..n /\ um'[j] = um[j + 1]
    BY <1>5, <1>7
  <2> QED
    BY <1>11, <2>1
<1>14. PICK base \in Nat : base = MapsTotal(log, maps)
  BY <1>1, TotalIsNat
<1>15. HeavyFrom(w, n, k + 1, base) /\ newer = base + Above(w, n, k + 2)
  BY <1>2, <1>3, <1>4, <1>8, <1>14 DEF WeighedSketches
<1>16. HeavyFrom(v, m, k, base) /\ Above(v, m, k + 1) = Above(w, n, k + 2)
  <2>1. MergedWeights(w, n, k, v, m)
    BY <1>5, <1>10, <1>12, <1>13 DEF MergedWeights
  <2> QED
    BY <1>15, <2>1, MergeKeepsHeavy
<1>17. CASE at = 1
  <2>1. phase' = "idle" /\ k = 1
    BY <1>2, <1>4, <1>17
  <2> QED
    BY <1>2, <1>7, <1>9, <1>14, <1>16, <2>1 DEF WeighedSketches, HeavySketches
<1>18. CASE at # 1
  <2>1. at' + 1 = k /\ at' + 2 = k + 1 /\ newer' = newer
    BY <1>2, <1>4, <1>18
  <2> QED
    BY <1>2, <1>7, <1>9, <1>14, <1>15, <1>16, <1>18, <2>1 DEF WeighedSketches
<1> QED
  BY <1>17, <1>18

LEMMA KeepSketchesWeighs ==
  ASSUME Inv, WeighedSketches, KeepSketches, NoCancelling
  PROVE  WeighedSketches' /\ (at = 1 => HeavySketches')
<1>1. /\ log \in Seq(Entries) /\ Row(um) /\ Spans(um, log)
      /\ Row(maps) /\ Spans(maps, log)
  BY InvRows
<1>2. /\ log' = log /\ maps' = maps /\ um' = um
      /\ phase = "sketches"
      /\ at \in 1..(Len(um) - 1)
      /\ ~(K * (SketchMass(um[at].seen) + SketchMass(um[at + 1].seen)) <= newer)
      /\ at # 1 => at' = at - 1 /\ newer' = newer + SketchMass(um[at + 1].seen)
      /\ at = 1 => phase' = "idle"
  BY DEF Inv, LoopAt, KeepSketches, OlderPair, Return, history, Light, SketchPair
<1>3. PICK n \in Nat : n = Len(um)
  BY <1>1, TierValued
<1>4. PICK k \in 1..(n - 1) : k = at
  BY <1>2, <1>3
<1>5. PICK w : w = SketchRow(log, um)
  OBVIOUS
<1>6. w \in [1..n -> Nat]
  BY <1>1, <1>3, <1>5, TierValued
<1>7. k \in 1..n /\ k + 1 \in 1..n /\ k + 2 \in 1..(n + 2)
  OBVIOUS
<1>8. SketchMass(um[k].seen) = w[k] /\ SketchMass(um[k + 1].seen) = w[k + 1]
  <2>1. w[k] = SketchMassOf(log, um[k].seen) /\ w[k + 1] = SketchMassOf(log, um[k + 1].seen)
    BY <1>3, <1>5, <1>7 DEF SketchRow
  <2> QED
    BY <2>1, SketchMassIs
<1>9. PICK base \in Nat : base = MapsTotal(log, maps)
  BY <1>1, TotalIsNat
<1>10. HeavyFrom(w, n, k + 1, base) /\ newer = base + Above(w, n, k + 2)
  BY <1>2, <1>3, <1>4, <1>5, <1>9 DEF WeighedSketches
<1>11. PICK u \in Nat : u = Above(w, n, k + 2)
  BY <1>6, <1>7, AboveFacts
<1>12. K * (w[k] + w[k + 1]) > u + base
  <2>1. PICK x \in Nat : x = w[k] + w[k + 1]
    BY <1>6, <1>7
  <2>2. K * x \in Nat
    BY <2>1, ScaledGrows
  <2>3. ~(K * x <= base + u)
    BY <1>2, <1>4, <1>8, <1>10, <1>11, <2>1
  <2>4. K * x > u + base
    BY <2>2, <2>3
  <2> QED
    BY <2>1, <2>4
<1>13. HeavyFrom(w, n, k, base) /\ Above(w, n, k + 1) = w[k + 1] + Above(w, n, k + 2)
  BY <1>6, <1>10, <1>11, <1>12, KeepKeepsHeavy
<1>14. CASE at = 1
  <2>1. phase' = "idle" /\ k = 1
    BY <1>2, <1>4, <1>14
  <2> QED
    BY <1>2, <1>3, <1>5, <1>9, <1>13, <2>1 DEF WeighedSketches, HeavySketches
<1>15. CASE at # 1
  <2>1. at' + 1 = k /\ at' + 2 = k + 1
    BY <1>2, <1>4, <1>15
  <2>2. newer' = base + Above(w, n, k + 1)
    <3>1. newer' = (base + u) + w[k + 1] /\ w[k + 1] \in Nat
      BY <1>2, <1>4, <1>6, <1>7, <1>8, <1>10, <1>11, <1>15
    <3>2. PICK y \in Nat : y = w[k + 1]
      BY <3>1
    <3>3. Above(w, n, k + 1) = y + u
      BY <1>11, <1>13, <3>2
    <3>4. newer' = (base + u) + y
      BY <3>1, <3>2
    <3> QED
      BY <3>3, <3>4
  <2>3. w = SketchRow(log', um') /\ n = Len(um') /\ base = MapsTotal(log', maps')
    BY <1>2, <1>3, <1>5, <1>9
  <2>4. HeavyFrom(w, n, at' + 1, base) /\ newer' = base + Above(w, n, at' + 2)
    BY <1>13, <2>1, <2>2
  <2>5. WeighedSketches' /\ at # 1
    BY <1>15, <2>3, <2>4 DEF WeighedSketches
  <2> QED
    BY <2>5
<1> QED
  BY <1>14, <1>15

(* Every step keeps what is known of the sketch tier.                      *)
LEMMA SketchesStayWeighed ==
  ASSUME Inv, Inv', WeighedMaps, WeighedSketches, [Next]_vars
  PROVE  WeighedSketches'
<1>1. CASE ~NoCancelling \/ phase' # "sketches"
  BY <1>1 DEF WeighedSketches, NoCancelling
<1>2. CASE NoCancelling /\ phase' = "sketches"
  <2>1. CASE Promote
    BY <1>2, <2>1, PromoteWeighs
  <2>2. CASE MergeSketches
    BY <1>2, <2>2, MergeSketchesWeighs
  <2>3. CASE KeepSketches
    BY <1>2, <2>3, KeepSketchesWeighs
  <2>4. CASE (\E w \in Windows : UpdateWindow(w)) \/ Done \/ UNCHANGED vars
    <3>1. um' = um /\ maps' = maps /\ log' = log /\ phase' = phase /\ at' = at /\ newer' = newer
      BY <2>4 DEF UpdateWindow, Done, vars, loop
    <3> QED
      BY <3>1 DEF WeighedSketches
  <2>5. CASE \/ \E time \in Times, input \in Inputs : Update(time, input[1], input[2])
             \/ MergeMaps \/ KeepMaps \/ KeepOldestMap
    <3>1. phase' # "sketches"
      BY <2>5 DEF Update, MergeMaps, KeepMaps, KeepOldestMap, OlderPair, Return
    <3> QED
      BY <1>2, <3>1
  <2> QED
    BY <2>1, <2>2, <2>3, <2>4, <2>5 DEF Next
<1> QED
  BY <1>1, <1>2


(***************************************************************************)
(* What holds when an update returns.                                      *)
(***************************************************************************)
LEMMA CachedSum ==
  ASSUME NEW p, NEW S
  PROVE  MapThenSumSet(LAMBDA j : p[j].l22, S) = SumOf([j \in S |-> p[j].l22])
<1> DEFINE f    == [j \in S |-> p[j].l22]
           iter == CHOOSE iter : iter =
             [s \in SUBSET S |->
                IF s = {} THEN 0
                ELSE LET x == CHOOSE x \in s : TRUE IN p[x].l22 + iter[s \ {x}]]
<1>1. MapThenSumSet(LAMBDA j : p[j].l22, S) = iter[S]
  BY Zenon DEF MapThenSumSet, MapThenFoldSet
<1>2. DOMAIN f = S /\ \A x \in S : f[x] = p[x].l22
  OBVIOUS
<1> HIDE DEF f
<1>3. \A g : g = [s \in SUBSET S |->
                    IF s = {} THEN 0
                    ELSE LET x == CHOOSE x \in s : TRUE IN p[x].l22 + g[s \ {x}]]
             <=> Summed(f, g)
  <2>1. \A s \in SUBSET S : s # {} => (CHOOSE x \in s : TRUE) \in S
    OBVIOUS
  <2> QED
    BY <1>2, <2>1 DEF Summed, Part
<1>4. iter = SumsOf(f)
  BY <1>3, ZenonT(60) DEF SumsOf
<1>5. SumOf(f) = SumsOf(f)[S]
  BY <1>2, SumOfIs
<1> QED
  BY <1>1, <1>4, <1>5, Zenon DEF f

LEMMA MapMassSum ==
  ASSUME NEW l, NEW p, NEW S
  PROVE  MapThenSumSet(LAMBDA j : MapMass(l, p[j].seen), S)
           = SumOf([j \in S |-> MapMass(l, p[j].seen)])
<1> DEFINE f    == [j \in S |-> MapMass(l, p[j].seen)]
           iter == CHOOSE iter : iter =
             [s \in SUBSET S |->
                IF s = {} THEN 0
                ELSE LET x == CHOOSE x \in s : TRUE
                     IN  MapMass(l, p[x].seen) + iter[s \ {x}]]
<1>1. MapThenSumSet(LAMBDA j : MapMass(l, p[j].seen), S) = iter[S]
  BY Zenon DEF MapThenSumSet, MapThenFoldSet
<1>2. DOMAIN f = S /\ \A x \in S : f[x] = MapMass(l, p[x].seen)
  OBVIOUS
<1> HIDE DEF f
<1>3. \A g : g = [s \in SUBSET S |->
                    IF s = {} THEN 0
                    ELSE LET x == CHOOSE x \in s : TRUE
                         IN  MapMass(l, p[x].seen) + g[s \ {x}]]
             <=> Summed(f, g)
  <2>1. \A s \in SUBSET S : s # {} => (CHOOSE x \in s : TRUE) \in S
    OBVIOUS
  <2> QED
    BY <1>2, <2>1 DEF Summed, Part
<1>4. iter = SumsOf(f)
  BY <1>3, ZenonT(60) DEF SumsOf
<1>5. SumOf(f) = SumsOf(f)[S]
  BY <1>2, SumOfIs
<1> QED
  BY <1>1, <1>4, <1>5, Zenon DEF f

LEMMA SketchMassSum ==
  ASSUME NEW S
  PROVE  MapThenSumSet(LAMBDA j : SketchMass(um[j].seen), S)
           = SumOf([j \in S |-> SketchMass(um[j].seen)])
<1> DEFINE f    == [j \in S |-> SketchMass(um[j].seen)]
           iter == CHOOSE iter : iter =
             [s \in SUBSET S |->
                IF s = {} THEN 0
                ELSE LET x == CHOOSE x \in s : TRUE
                     IN  SketchMass(um[x].seen) + iter[s \ {x}]]
<1>1. MapThenSumSet(LAMBDA j : SketchMass(um[j].seen), S) = iter[S]
  BY Zenon DEF MapThenSumSet, MapThenFoldSet
<1>2. DOMAIN f = S /\ \A x \in S : f[x] = SketchMass(um[x].seen)
  OBVIOUS
<1> HIDE DEF f
<1>3. \A g : g = [s \in SUBSET S |->
                    IF s = {} THEN 0
                    ELSE LET x == CHOOSE x \in s : TRUE
                         IN  SketchMass(um[x].seen) + g[s \ {x}]]
             <=> Summed(f, g)
  <2>1. \A s \in SUBSET S : s # {} => (CHOOSE x \in s : TRUE) \in S
    OBVIOUS
  <2> QED
    BY <1>2, <2>1 DEF Summed, Part
<1>4. iter = SumsOf(f)
  BY <1>3, ZenonT(60) DEF SumsOf
<1>5. SumOf(f) = SumsOf(f)[S]
  BY <1>2, SumOfIs
<1> QED
  BY <1>1, <1>4, <1>5, Zenon DEF f

LEMMA MapsAreHeavy ==
  ASSUME Inv, WeighedMaps, phase # "maps"
  PROVE  MapsHeavy
<1>1. PICK n \in Nat : n = Len(maps)
  BY InvRows
<1>2. PICK w : w = MapRow(log, maps)
  OBVIOUS
<1>3. w \in [1..n -> Nat] /\ \A i \in 1..n : w[i] = MapMass(log, maps[i].seen)
  <2>1. w \in [1..n -> Nat]
    BY <1>1, <1>2, InvRows, TierValued
  <2> QED
    BY <1>1, <1>2, <2>1 DEF MapRow
<1>4. HeavyFrom(w, n, 1, 0)
  BY <1>1, <1>2 DEF WeighedMaps
<1>5. ASSUME NEW i \in 1..(n - 1)
      PROVE  K * (w[i] + w[i + 1])
               > MapThenSumSet(LAMBDA j : MapMass(log, maps[j].seen), (i + 2)..n)
  <2>1. K * (w[i] + w[i + 1]) > Above(w, n, i + 2) + 0
    BY <1>4 DEF HeavyFrom
  <2>2. Above(w, n, i + 2) \in Nat
    <3>1. i + 2 \in 1..(n + 2)
      OBVIOUS
    <3> QED
      BY <1>3, <3>1, AboveFacts
  <2>3. PICK S : S = (i + 2)..n
    OBVIOUS
  <2>4. MapThenSumSet(LAMBDA j : MapMass(log, maps[j].seen), S)
          = SumOf([j \in S |-> MapMass(log, maps[j].seen)])
    BY MapMassSum
  <2>5. [j \in S |-> MapMass(log, maps[j].seen)] = [j \in S |-> w[j]]
    <3>1. \A j \in S : w[j] = MapMass(log, maps[j].seen)
      BY <1>3, <2>3
    <3> QED
      BY <3>1
  <2>6. Above(w, n, i + 2) = SumOf([j \in S |-> w[j]])
    BY <2>3 DEF Above
  <2>7. MapThenSumSet(LAMBDA j : MapMass(log, maps[j].seen), (i + 2)..n) = Above(w, n, i + 2)
    BY <2>3, <2>4, <2>5, <2>6
  <2>8. PICK y \in Nat : y = Above(w, n, i + 2)
    BY <2>2
  <2>9. K * (w[i] + w[i + 1]) > y
    BY <2>1, <2>8
  <2> QED
    BY <2>7, <2>8, <2>9
<1>6. \A i \in 1..(n - 1) : i \in 1..n /\ i + 1 \in 1..n
  OBVIOUS
<1> QED
  BY <1>1, <1>3, <1>5, <1>6 DEF MapsHeavy


LEMMA SketchesAreHeavy ==
  ASSUME Inv, WeighedMaps, HeavySketches, NoCancelling
  PROVE  SketchesHeavy
<1>1. PICK n \in Nat : n = Len(um)
  BY InvRows
<1>2. PICK w : w = SketchRow(log, um)
  OBVIOUS
<1>3. w \in [1..n -> Nat] /\ \A i \in 1..n : w[i] = SketchMass(um[i].seen)
  <2>1. w \in [1..n -> Nat]
    BY <1>1, <1>2, InvRows, TierValued
  <2>2. \A i \in 1..n : w[i] = SketchMassOf(log, um[i].seen)
    BY <1>1, <1>2 DEF SketchRow
  <2> QED
    BY <2>1, <2>2, SketchMassIs
<1>4. PICK base \in Nat : base = MapsTotal(log, maps)
  BY InvRows, TotalIsNat
<1>5. HeavyFrom(w, n, 1, base)
  BY <1>1, <1>2, <1>4 DEF HeavySketches
<1>6. MapThenSumSet(LAMBDA j : maps[j].l22, DOMAIN maps) = base
  <2>1. PICK S : S = DOMAIN maps
    OBVIOUS
  <2>2. MapThenSumSet(LAMBDA j : maps[j].l22, S) = SumOf([j \in S |-> maps[j].l22])
    BY CachedSum
  <2>3. PICK v : v = MapRow(log, maps)
    OBVIOUS
  <2>4. S = 1..Len(maps)
    BY <2>1, InvRows, RowFacts
  <2>5. \A j \in S : v[j] = maps[j].l22
    BY <2>3, <2>4 DEF MapRow, WeighedMaps
  <2>6. [j \in S |-> maps[j].l22] = [j \in S |-> v[j]]
    BY <2>5
  <2>7. base = SumOf([j \in S |-> v[j]])
    BY <1>4, <2>3, <2>4 DEF MapsTotal, Above
  <2> QED
    BY <2>1, <2>2, <2>6, <2>7
<1>7. ASSUME NEW i \in 1..(n - 1)
      PROVE  K * (w[i] + w[i + 1]) > MassNewer(i)
  <2>1. K * (w[i] + w[i + 1]) > Above(w, n, i + 2) + base
    BY <1>5 DEF HeavyFrom
  <2>2. PICK S : S = (i + 2)..n
    OBVIOUS
  <2>3. MapThenSumSet(LAMBDA j : SketchMass(um[j].seen), S)
          = SumOf([j \in S |-> SketchMass(um[j].seen)])
    BY SketchMassSum
  <2>4. [j \in S |-> SketchMass(um[j].seen)] = [j \in S |-> w[j]]
    <3>1. \A j \in S : w[j] = SketchMass(um[j].seen)
      BY <1>3, <2>2
    <3> QED
      BY <3>1
  <2>5. Above(w, n, i + 2) = SumOf([j \in S |-> w[j]])
    BY <2>2 DEF Above
  <2>6. MapThenSumSet(LAMBDA j : SketchMass(um[j].seen), (i + 2)..Len(um)) = Above(w, n, i + 2)
    BY <1>1, <2>2, <2>3, <2>4, <2>5
  <2>7. MassNewer(i) = Above(w, n, i + 2) + base
    BY <1>6, <2>6 DEF MassNewer
  <2> QED
    BY <2>1, <2>7
<1>8. \A i \in 1..(n - 1) : i \in 1..n /\ i + 1 \in 1..n
  OBVIOUS
<1> QED
  BY <1>1, <1>3, <1>7, <1>8 DEF SketchesHeavy

MapsDone == phase = "idle" => MapsHeavy

SketchesDone == NoCancelling /\ HeavySketches => SketchesHeavy

TierStep ==
  /\ phase # "idle" /\ phase' = "idle" => MapsHeavy'
  /\ phase = "sketches" /\ phase' = "idle" /\ NoCancelling => SketchesHeavy'

(* A pass over each tier is enough: when an update returns, any two        *)
(* neighbour maps weigh more than 1/k of the maps newer than they are and, *)
(* when it promoted one, any two neighbour sketches more than 1/k of all   *)
(* that is newer, unless signs cancel.  The sum the map loop hands on is   *)
(* that of the maps that remain.                                           *)
THEOREM TiersHeavyCorrect == Spec => TiersHeavy
<1>1. Init => WeighedMaps /\ WeighedSketches
  <2> SUFFICES ASSUME Init
               PROVE  WeighedMaps /\ WeighedSketches
    OBVIOUS
  <2>1. maps = <<>> /\ Len(maps) = 0 /\ phase = "idle"
    BY DEF Init
  <2>2. HeavyFrom(MapRow(log, maps), Len(maps), 1, 0)
    BY <2>1 DEF HeavyFrom
  <2> QED
    BY <2>1, <2>2 DEF WeighedMaps, WeighedSketches
<1>2. Inv /\ Inv' /\ WeighedMaps /\ WeighedSketches /\ [Next]_vars
        => WeighedMaps' /\ WeighedSketches'
  BY MapsStayWeighed, SketchesStayWeighed
<1>3. Inv /\ WeighedMaps => MapsDone /\ SketchesDone
  BY MapsAreHeavy, SketchesAreHeavy DEF MapsDone, SketchesDone
<1>4. Inv /\ Inv' /\ WeighedSketches /\ MapsDone' /\ SketchesDone' /\ [Next]_vars => TierStep
  <2> SUFFICES ASSUME Inv, Inv', WeighedSketches, MapsDone', SketchesDone', [Next]_vars
               PROVE  TierStep
    OBVIOUS
  <2>1. phase' = "idle" => MapsHeavy'
    BY DEF MapsDone
  <2>2. ASSUME phase = "sketches", phase' = "idle", NoCancelling
        PROVE  SketchesHeavy'
    <3>1. MergeSketches \/ KeepSketches
      BY <2>2 DEF Next, Update, UpdateWindow, MergeMaps, KeepMaps, Promote, KeepOldestMap,
                  Done, vars, loop
    <3>2. at = 1
      BY <2>2, <3>1 DEF MergeSketches, KeepSketches, OlderPair
    <3>3. HeavySketches'
      BY <2>2, <3>1, <3>2, MergeSketchesWeighs, KeepSketchesWeighs
    <3> QED
      BY <2>2, <3>3 DEF SketchesDone, NoCancelling
  <2> QED
    BY <2>1, <2>2 DEF TierStep
<1>5. Spec => [][TierStep]_vars
  BY <1>1, <1>2, <1>3, <1>4, InvAlways, PTL DEF Spec
<1> QED
  BY <1>5 DEF TiersHeavy, TierStep

=============================================================================
