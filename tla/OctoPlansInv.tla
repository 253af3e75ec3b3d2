---------------------------- MODULE OctoPlansInv ----------------------------
(***************************************************************************)
(* The inductive invariants of OctoPlans: PlanInv of every step, LostInv   *)
(* and FlowsKept of the stream, before the caller owns the parent.  They   *)
(* are proved in OctoPlansProofs.                                          *)
(***************************************************************************)
EXTENDS OctoPlans, RowLemmas

(***************************************************************************)
(* The heap.  Under a sift the order may fail at the entry that moves      *)
(* only: below it on the way down (and above it while it has not moved),   *)
(* above it on the way up.  What it leaves behind stays in order because   *)
(* its parent counts no more than its children do.                         *)
(***************************************************************************)
Entries == [key : Keys, count : Int]

Shapes ==
  /\ heap \in Seq(Entries)
  /\ slots \in Seq(Digests)
  /\ positions \in [Digests -> SUBSET Nat]

Sifting ==
  /\ sift \in [way : {"rest", "down", "up"}, at : Nat, from : Nat]
  /\ Resting \/ (sift.way # "rest" /\ sift.at \in Places)
  /\ sift.way = "down" => sift.from <= sift.at

Excused(p, c) ==
  \/ sift.way = "down" /\ p = sift.at
  \/ sift.way = "down" /\ c = sift.at /\ sift.at = sift.from
  \/ sift.way = "up" /\ c = sift.at

OrderedBut ==
  \A p, c \in Places :
    Child(p, c) => Excused(p, c) \/ heap[p].count <= heap[c].count

Bridged ==
  sift.way # "rest" =>
    \A p, c \in Places :
      Child(p, sift.at) /\ Child(sift.at, c) => heap[p].count <= heap[c].count

Index == Shapes /\ KeysOnce /\ IndexAgrees /\ Len(heap) <= K
HeapInv == Index /\ Sifting /\ OrderedBut /\ Bridged

(***************************************************************************)
(* Of Count-Min: a kept key has the count of its last offer; one that was  *)
(* offered and is neither kept nor waits has no more than any that is.     *)
(***************************************************************************)
ResidentsOf(h) == {h[i].key : i \in DOMAIN h}
ScoreOf(cells, k) == LeastOf("CmTopK", cells, k)
FrontOf(q) == {q[m] : m \in 1..(Len(q) - 1)}
Distinct(h) == \A i, j \in DOMAIN h : h[i].key = h[j].key => i = j
Scored(h, off) == \A i \in DOMAIN h : off[h[i].key] = <<h[i].count>>
Backed(off, cells) == \A k \in Keys : off[k] # <<>> => off[k][1] <= ScoreOf(cells, k)
Passed(h, off, q, k) == off[k] # <<>> /\ k \notin ResidentsOf(h) /\ k \notin ToSet(q)

Outranked(h, off, q, cells, k) ==
  /\ Cardinality(ResidentsOf(h) \cup FrontOf(q)) >= K
  /\ \A i \in DOMAIN h : off[k][1] <= h[i].count
  /\ \A x \in FrontOf(q) : off[k][1] <= ScoreOf(cells, x)

Heaviest(h, off, q, cells) ==
  /\ Scored(h, off)
  /\ Backed(off, cells)
  /\ \A k \in Keys : Passed(h, off, q, k) => Outranked(h, off, q, cells, k)
  /\ q # <<>> => Len(h) + Len(q) <= K + 1

(***************************************************************************)
(* The invariant of the stream and of the calls that follow it.            *)
(***************************************************************************)
CellArray == [Cells -> Int]

CellDeltas ==
  [kind : {"cell"}, cell : Cells, value : Int, key : Keys \cup {Nobody}, weight : Nat]

Shares ==
  /\ plan \in Plans
  /\ tau \in Nat \ {0}
  /\ given \in [Workers -> [KeysOf[plan] -> Nat]]
  /\ offered \in [Keys -> Seq(Int)]
  /\ pending \in Seq(Keys)
  /\ returned \in BOOLEAN
  /\ returned => plan \in TopKPlans
  /\ pending # <<>> => returned

\* A delta of a top-k plan carries a key and a cell of that key.
Fits(d) ==
  /\ plan \in {"CmTopK", "Dd"} => d.value >= 0
  /\ plan \in HeapPlans => d.key \in KeysOf[plan] /\ Bump[plan][d.key][d.cell] # 0

CellTyped ==
  CellPlan(plan) =>
    /\ held \in [Workers -> CellArray]
    /\ parent \in CellArray
    /\ queue \in [Workers -> Seq(CellDeltas)]
    /\ \A w \in Workers :
         /\ \A n \in DOMAIN queue[w] : Fits(queue[w][n])
         /\ plan \in {"CmTopK", "Dd"} => \A c \in Cells : held[w][c] >= 0

HeaviestInv == plan = "CmTopK" => Heaviest(heap, offered, pending, parent)

\* The key has been offered to the followed heap, or is on the way to it.
Known(k) ==
  \/ offered[k] # <<>>
  \/ \E w \in Workers : \E n \in DOMAIN queue[w] :
       queue[w][n].key = k /\ queue[w][n].cell[1] = Followed

NothingHeldBack ==
  /\ \A w \in Workers, c \in Cells : c[1] = Followed => held[w][c] = 0
  /\ \A k \in KeysOf[plan] :
       Touched(plan, k, Followed) # {} /\ (\E w \in Workers : given[w][k] > 0) => Known(k)

CompleteInv ==
  plan = "UnivMon" /\ tally.complete =>
    /\ \A k \in Keys : offered[k] # <<>> => k \in ResidentsOf(heap)
    /\ ~unheard => NothingHeldBack

PlanInv ==
  /\ Shares
  /\ CellTyped
  /\ HeapInv
  /\ HeaviestInv
  /\ CompleteInv

(***************************************************************************)
(* What the workers were given is in the parent, held back or on the way,  *)
(* and amounts to the same: counters first.                                *)
(***************************************************************************)
Apart(back, q, D) == [w \in Workers |-> back[w] + OnWay(q[w], D)]
Balanced(to, mass, back, q, D) == SumOf(to) = mass + SumOf(Apart(back, q, D))
CellWay(c) == {d \in CellDeltas : d.cell = c}

GivenTo(g, c) ==
  [w \in Workers |-> SumOf([k \in KeysOf[plan] |-> g[w][k] * Bump[plan][k][c]])]

Back(h, c) == [w \in Workers |-> h[w][c]]

CellBalance ==
  CellPlan(plan) =>
    \A c \in Cells :
      Balanced(GivenTo(given, c), parent[c], Back(held, c), queue, CellWay(c))

Weights == [w \in Workers |-> WeightTotal(w)]

(***************************************************************************)
(* UnivMon's reports, and the registers of a HyperLogLog.                  *)
(***************************************************************************)
\* The reports on the way are between the last one and what the worker has.
InOrderTold(q, low, high) ==
  /\ \A n \in DOMAIN q : low <= q[n].weight /\ q[n].weight <= high
  /\ \A m, n \in DOMAIN q : m <= n => q[m].weight <= q[n].weight

Reports ==
  plan = "UnivMon" =>
    /\ tally.weights \in [Workers -> Nat] /\ tally.total = SumOf(tally.weights)
    /\ \A w \in Workers : /\ tally.weights[w] <= WeightTotal(w)
                          /\ InOrderTold(queue[w], tally.weights[w], WeightTotal(w))

RegisterRow == [Registers -> Nat]
RegisterDeltas == [kind : {"register"}, cell : Registers, value : Nat]

\* The register has the highest rank that the worker was given for it.
Ranked(w, r) ==
  /\ \A x \in KeysOf[plan] : Register[x] = r /\ given[w][x] > 0 => Rank[x] <= held[w][r]
  /\ \/ held[w][r] = 0
     \/ \E x \in KeysOf[plan] : Register[x] = r /\ given[w][x] > 0 /\ Rank[x] = held[w][r]

Below(q, regs) == \A n \in DOMAIN q : q[n].value <= regs[q[n].cell]
Covers(q, r, v) == \E n \in DOMAIN q : q[n].cell = r /\ v <= q[n].value

HllTyped ==
  /\ held \in [Workers -> RegisterRow]
  /\ parent \in RegisterRow
  /\ queue \in [Workers -> Seq(RegisterDeltas)]

LagsLittle(w, r) ==
  held[w][r] <= HllTau \/ held[w][r] <= parent[r] \/ Covers(queue[w], r, held[w][r])

Lags ==
  plan = "Hll" =>
    /\ HllTyped
    /\ \A w \in Workers : Below(queue[w], held[w])
    /\ \A r \in Registers : \E w \in Workers : parent[r] <= held[w][r]
    /\ \A w \in Workers, r \in Registers : Ranked(w, r) /\ LagsLittle(w, r)

(***************************************************************************)
(* The weight of a Coco table.                                             *)
(***************************************************************************)
Holders == [key : Keys \cup {NoHolder}, val : Int]

CocoTable == {t \in [CocoCells -> Holders] :
                \A c \in CocoCells : t[c].key = NoHolder => t[c].val = 0}

CocoDeltas == [kind : {"coco"}, key : Keys, value : Int]
CocoVal(t) == [c \in CocoCells |-> t[c].val]
CocoWay == {d \in CocoDeltas : TRUE}

CocoTyped ==
  /\ held \in [Workers -> CocoTable]
  /\ parent \in CocoTable
  /\ queue \in [Workers -> Seq(CocoDeltas)]

CocoBack(h) == [w \in Workers |-> SumOf(CocoVal(h[w]))]

CocoKept ==
  plan = "Coco" =>
    /\ CocoTyped
    /\ Balanced(Weights, SumOf(CocoVal(parent)), CocoBack(held), queue, CocoWay)

(***************************************************************************)
(* Elastic: the votes of the buckets and, row by row, the light counters.  *)
(***************************************************************************)
Bucks == [id : Keys \cup {NoFlow}, pos : Int, neg : Int, flag : BOOLEAN]

HeavyPart == {h \in [Buckets -> Bucks] :
                \A b \in Buckets : h[b].id = NoFlow => h[b].pos = 0}

LightPart == [LightCells -> Int]
ElasticState == [heavy : HeavyPart, light : LightPart]
PartOf(val, S) == [c \in S |-> val[c]]
Votes(h) == [b \in Buckets |-> h[b].pos]
RowMass(s, row) == SumOf(Votes(s.heavy)) + SumOf(PartOf(s.light, RowCells(row)))

ElasticDeltas ==
  [kind : {"heavy"}, key : Keys, value : Int, flag : BOOLEAN]
  \cup [kind : {"evicted"}, key : Keys, value : Int]
  \cup [kind : {"light"}, cell : LightCells, value : Int]

RowWay(row) == {d \in ElasticDeltas : d.kind = "light" => d.cell[1] = row}

ElasticTyped ==
  /\ held \in [Workers -> ElasticState]
  /\ parent \in ElasticState
  /\ queue \in [Workers -> Seq(ElasticDeltas)]

RowBack(h, row) == [w \in Workers |-> RowMass(h[w], row)]

ElasticKept ==
  plan = "Elastic" =>
    /\ ElasticTyped
    /\ \A row \in LightRows :
         Balanced(Weights, RowMass(parent, row), RowBack(held, row), queue, RowWay(row))

Kept == CellBalance /\ Reports /\ Lags /\ CocoKept /\ ElasticKept

\* While the stream runs.
LostInv == ~ returned => Kept

(***************************************************************************)
(* Elastic, flow by flow.  The seat of a flow is its bucket; a flow that   *)
(* holds it unmarked has never left it, as far as the sketch knows.  What  *)
(* parts with a flow, in a queue, marks it in the parent.                  *)
(***************************************************************************)
Seat(s, k) == s.heavy[BucketOf[k]]
PosOf(s, k) == IF Seat(s, k).id = k THEN Seat(s, k).pos ELSE 0
Vacant(s, k) == Seat(s, k).id = NoFlow
Unmarked(s, k) == Seat(s, k).id = k /\ ~ Seat(s, k).flag
About(k) == {d \in ElasticDeltas : d.kind # "light" /\ d.key = k}
Plain(k) == {d \in ElasticDeltas : d.kind = "heavy" /\ d.key = k /\ ~ d.flag}

Parting(k) == {d \in ElasticDeltas : /\ d.kind # "light" /\ d.key = k
                                     /\ d.kind = "heavy" => d.flag}

KeyWay(k, c) == {d \in ElasticDeltas : IF d.kind = "light" THEN d.cell = c ELSE d.key = k}
Proper(d) == d \in ElasticDeltas /\ d.value >= 0 /\ (d.kind = "heavy" => d.value >= 1)

Regular(s) ==
  /\ s \in ElasticState
  /\ \A b \in Buckets : /\ s.heavy[b].pos >= 0
                        /\ s.heavy[b].id # NoFlow => BucketOf[s.heavy[b].id] = b
  /\ \A c \in LightCells : s.light[c] >= 0

\* The parent's buckets: one that has had a flow has votes.
Merged(p) ==
  /\ Regular(p)
  /\ \A b \in Buckets : IF p.heavy[b].id = NoFlow THEN ~ p.heavy[b].flag
                        ELSE p.heavy[b].pos >= 1

Holds(q, D) == \E i \in DOMAIN q : q[i] \in D
Fine(q) == q \in Seq(ElasticDeltas) /\ \A i \in DOMAIN q : Proper(q[i])

\* A flow of which a worker was given n: p is the parent, s and q are what the
\* worker holds and has sent.
Flow(p, s, q, k, n) ==
  /\ \A i, m \in DOMAIN q : q[i] \in Plain(k) /\ q[m] \in Parting(k) => i < m
  /\ Unmarked(s, k) => ~ Holds(q, Parting(k))
  /\ Unmarked(s, k) /\ (Vacant(p, k) \/ Unmarked(p, k)) =>
       n <= PosOf(p, k) + OnWay(q, Plain(k)) + PosOf(s, k)
  /\ \A c \in LightOf[k] :
       n <= PosOf(p, k) + p.light[c] + OnWay(q, KeyWay(k, c)) + PosOf(s, k) + s.light[c]
  /\ n = 0 => Seat(s, k).id # k /\ ~ Holds(q, About(k))
  /\ Vacant(s, k) => n = 0

\* If no other worker was given the flow: a mark is here, or on the way.
Lonely(p, s, q, k) ==
  Unmarked(p, k) \/ Holds(q, Plain(k)) => Unmarked(s, k) \/ Holds(q, Parting(k))

Alone(w, k) == \A v \in Workers \ {w} : given[v][k] = 0

FlowsKept ==
  plan = "Elastic" =>
    /\ held \in [Workers -> ElasticState]
    /\ queue \in [Workers -> Seq(ElasticDeltas)]
    /\ Merged(parent)
    /\ \A w \in Workers : Regular(held[w]) /\ Fine(queue[w])
    /\ \A w \in Workers : \A k \in KeysOf[plan] :
         /\ Flow(parent, held[w], queue[w], k, given[w][k])
         /\ Alone(w, k) => Lonely(parent, held[w], queue[w], k)

=============================================================================
