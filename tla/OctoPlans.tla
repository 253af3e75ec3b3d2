------------------------------ MODULE OctoPlans ------------------------------
(***************************************************************************)
(* The plans of the Octo runtime other than Count-Min: workers that count  *)
(* in one byte and ship what reaches tau, and the aggregator that applies  *)
(* the deltas, in turn, to the parent of the plan and to its heap.  That   *)
(* queues keep their order and lose nothing, and how threads start, block  *)
(* and end, is OctoRuntime's subject: here an insert, a flush and an       *)
(* application are one step each, and only the heap's sifts take several.  *)
(*                                                                         *)
(* Once the parent of a top-k plan has been returned, its caller goes on   *)
(* with it as with any CMSHeap or CSHeap.  Of UnivMon the heap of one      *)
(* layer is followed.                                                      *)
(***************************************************************************)
EXTENDS HHHeap, ElasticPlan, CocoPlan

CONSTANTS
  Workers,     \* 1..n
  Plans,
  KeysOf,      \* bound: the keys each plan is fed
  MaxInputs,   \* bound: inputs each worker of a plan is given
  TauRange,    \* band the controller moves tau in, by plan
  MaxMoves,    \* bound: moves of tau, by plan
  MaxQueue,    \* bound: a worker with as many deltas on the way waits
  MaxCalls,    \* bound: calls of the caller on a returned parent
  Followed,    \* the UnivMon layer whose heap is followed
  Nobody       \* no key

VARIABLES
  plan,
  tau,
  moves,
  held,      \* what each worker's sketch holds back
  queue,     \* deltas on the way from each worker
  turn,      \* the worker the aggregator polls next
  parent,    \* the parent sketch, without its heap
  tally,     \* UnivMon: reported weights, fidelity, candidate flag
  returned,  \* the parent is the caller's
  pending,   \* candidates a merge has still to offer to the heap
  calls,
  given,     \* history: occurrences of each key each worker was given
  unheard,   \* history: the followed layer may hold something back that the
             \* aggregator has had no delta to learn of tau's rise by
  offered    \* history: the count each key was last offered to the heap with

streamVars == <<plan, held, queue, turn, parent, tally, given>>
vars == <<plan, tau, moves, held, queue, turn, parent, tally, returned,
          pending, calls, given, unheard, offered, heap, slots, positions, sift>>

HeapPlans == {"CmTopK", "CountTopK", "UnivMon"}
TopKPlans == {"CmTopK", "CountTopK"}
CellPlan(p) == p \in HeapPlans \cup {"Count", "Dd"}

\* A threshold is at least one.  Every key has a cell in each row of a
\* top-k sketch.
ASSUME PlansAssumption ==
  /\ IsFiniteSet(Keys) /\ IsFiniteSet(Workers) /\ Workers # {}
  /\ DOMAIN Register = Keys /\ DOMAIN BucketOf = Keys /\ DOMAIN CocoRows = Keys
  /\ Nobody \notin Keys /\ Followed \in Nat
  /\ Plans \subseteq LinearPlans \cup {"Hll", "Coco", "Elastic"}
  /\ \A p \in Plans : /\ KeysOf[p] \subseteq Keys
                      /\ TauRange[p] \subseteq Nat \ {0}
  /\ \A p \in TopKPlans, k \in Keys : Touched(p, k, 0) # {}

SumOver(f) == MapThenSumSet(LAMBDA x : f[x], DOMAIN f)
Given(k) == SumOver([w \in Workers |-> given[w][k]])
WeightTotal(w) == SumOver(given[w])

(***************************************************************************)
(* Workers.                                                                *)
(***************************************************************************)
Fresh(p) ==
  CASE CellPlan(p) -> NoCells
    [] p = "Hll" -> NoRegisters
    [] p = "Coco" -> NoCoco
    [] p = "Elastic" -> NoElastic

\* A worker's weight_total counts the input at hand.
Outcomes(w, k) ==
  CASE CellPlan(plan) ->
         {CellInsert(plan, held[w], k, tau, WeightTotal(w) + 1)}
    [] plan = "Hll" -> {HllInsert(held[w], k)}
    [] plan = "Coco" -> CocoInsert(held[w], k, tau)
    [] plan = "Elastic" -> {ElasticInsert(held[w], k, tau)}

FlushOf(w) ==
  CASE CellPlan(plan) -> CellFlush(plan, held[w], Nobody)
    [] plan = "Hll" -> HllFlush(held[w])
    [] plan = "Coco" -> CocoFlush(held[w])
    [] plan = "Elastic" -> ElasticFlush(held[w])

Ships(w, r) ==
  /\ held' = [held EXCEPT ![w] = r.held]
  /\ queue' = [queue EXCEPT ![w] = @ \o r.out]

\* The layer that is followed holds keys back.
Thresholds == LayerTau(plan, tau, Followed) > 1

Process(w, k) ==
  /\ ~returned
  /\ Resting
  /\ WeightTotal(w) < MaxInputs[plan]
  /\ Len(queue[w]) < MaxQueue
  /\ \E r \in Outcomes(w, k) : Ships(w, r)
  /\ given' = [given EXCEPT ![w][k] = @ + 1]
  /\ unheard' = (unheard \/ Thresholds)
  /\ UNCHANGED <<plan, tau, moves, turn, parent, tally, returned, pending,
                 calls, offered, heapVars>>

Flush(w) ==
  /\ ~returned
  /\ Resting
  /\ Len(queue[w]) < MaxQueue
  /\ Ships(w, FlushOf(w))
  /\ UNCHANGED <<plan, tau, moves, turn, parent, tally, returned, pending,
                 calls, given, unheard, offered, heapVars>>

\* The controller moves tau while workers and aggregator run.
Adjust ==
  /\ ~returned
  /\ Resting
  /\ moves < MaxMoves[plan]
  /\ moves' = moves + 1
  /\ tau' \in (TauRange[plan] \cap {tau - 1, tau + 1})
  /\ UNCHANGED <<streamVars, returned, pending, calls, unheard, offered,
                 heapVars>>

(***************************************************************************)
(* The aggregator.                                                         *)
(***************************************************************************)
\* The next worker in turn that has a delta.
Polled(w) ==
  /\ queue[w] # <<>>
  /\ \A v \in Workers : queue[v] # <<>> =>
       (w - turn) % Cardinality(Workers) <= (v - turn) % Cardinality(Workers)

After(w) == (w % Cardinality(Workers)) + 1

ParentOutcomes(d) ==
  CASE CellPlan(plan) -> {AddTo(parent, d)}
    [] plan = "Hll" -> {Raised(parent, d.cell, d.value)}
    [] plan = "Coco" -> CocoApplied(parent, d)
    [] plan = "Elastic" -> {ElasticApplied(parent, d)}

Estimate(cells, k) ==
  CASE plan = "CmTopK" -> LeastOf(plan, cells, k)
    [] plan = "CountTopK" -> MedianOf(plan, cells, k, 0)
    [] plan = "UnivMon" -> MedianOf(plan, cells, k, Followed)

Offer(cells, k) ==
  /\ Update(k, Estimate(cells, k))
  /\ offered' = [offered EXCEPT ![k] = <<Estimate(cells, k)>>]

\* Slip: fidelity keeps the verdict of the first delta.
Refreshed_Once == tally.partial
Refreshed == tally.partial \/ Thresholds

\* UnivMon: fidelity is withdrawn for good, the report replaces the worker's
\* last one, and the layer stays complete while its heap turns nobody away.
Tallied(w, d) ==
  [partial  |-> Refreshed,
   complete |-> /\ tally.complete
                /\ ~Refreshed
                /\ d.cell[1] = Followed => RetainsAll(d.key),
   weights  |-> [tally.weights EXCEPT ![w] = d.weight],
   total    |-> tally.total + d.weight - tally.weights[w]]

Offers(d) ==
  plan \in TopKPlans \/ (plan = "UnivMon" /\ d.cell[1] = Followed)

Apply(w) ==
  /\ ~returned
  /\ Resting
  /\ Polled(w)
  /\ LET d == Head(queue[w])
     IN /\ parent' \in ParentOutcomes(d)
        /\ IF Offers(d) THEN Offer(parent', d.key)
           ELSE UNCHANGED <<heapVars, offered>>
        /\ tally' = IF plan = "UnivMon" THEN Tallied(w, d) ELSE tally
  /\ queue' = [queue EXCEPT ![w] = Tail(@)]
  /\ turn' = After(w)
  /\ unheard' = (unheard /\ ~Thresholds)
  /\ UNCHANGED <<plan, tau, moves, held, returned, pending, calls, given>>

SiftStep ==
  /\ Sift
  /\ UNCHANGED <<streamVars, tau, moves, returned, pending, calls, unheard,
                 offered>>

(***************************************************************************)
(* The caller of a returned top-k parent: finish, then inserts, clears,    *)
(* merges with a sketch that has seen one key, and round trips.            *)
(***************************************************************************)
Finish ==
  /\ plan \in TopKPlans
  /\ ~returned
  /\ Resting
  /\ \A w \in Workers : queue[w] = <<>>
  /\ returned' = TRUE
  /\ UNCHANGED <<streamVars, tau, moves, pending, calls, unheard, offered,
                 heapVars>>

Call ==
  /\ returned
  /\ Resting
  /\ pending = <<>>
  /\ calls < MaxCalls
  /\ calls' = calls + 1
  /\ UNCHANGED <<plan, tau, moves, held, queue, turn, tally, returned, given,
                 unheard>>

InsertTopK(k) ==
  /\ Call
  /\ parent' = Bumped(parent, Bump[plan][k])
  /\ Offer(parent', k)
  /\ UNCHANGED pending

ClearHeap ==
  /\ Call
  /\ Clear
  /\ offered' = [k \in Keys |-> <<>>]
  /\ UNCHANGED <<parent, pending>>

ReloadTopK ==
  /\ Call
  /\ Reload
  /\ UNCHANGED <<parent, pending, offered>>

\* merge adds the counters, then offers the keys of both heaps again to an
\* empty one.
Merge(k) ==
  /\ Call
  /\ parent' = Bumped(parent, Bump[plan][k])
  /\ pending' = [i \in Places |-> heap[i].key] \o <<k>>
  /\ Clear
  /\ UNCHANGED offered

OfferPending ==
  /\ pending # <<>>
  /\ Offer(parent, Head(pending))
  /\ pending' = Tail(pending)
  /\ UNCHANGED <<streamVars, tau, moves, returned, calls, unheard>>

Init ==
  /\ plan \in Plans
  /\ tau \in TauRange[plan]
  /\ moves = 0
  /\ held = [w \in Workers |-> Fresh(plan)]
  /\ queue = [w \in Workers |-> <<>>]
  /\ turn = 1
  /\ parent = Fresh(plan)
  /\ LET partial == Thresholds
     IN tally = [partial |-> partial, complete |-> ~partial,
                 weights |-> [w \in Workers |-> 0], total |-> 0]
  /\ returned = FALSE
  /\ pending = <<>>
  /\ calls = 0
  /\ given = [w \in Workers |-> [k \in KeysOf[plan] |-> 0]]
  /\ unheard = FALSE
  /\ offered = [k \in Keys |-> <<>>]
  /\ HeapInit

Next ==
  \/ \E w \in Workers :
       \/ \E k \in KeysOf[plan] : Process(w, k)
       \/ Flush(w)
       \/ Apply(w)
  \/ Adjust
  \/ SiftStep
  \/ Finish
  \/ \E k \in KeysOf[plan] : InsertTopK(k) \/ Merge(k)
  \/ ClearHeap
  \/ ReloadTopK
  \/ OfferPending

Spec == Init /\ [][Next]_vars

(***************************************************************************)
(* Properties.                                                             *)
(***************************************************************************)
Sum(S, f(_)) == SumOver([x \in S |-> f(x)])

InFlight(w, Wanted(_)) ==
  Sum({i \in DOMAIN queue[w] : Wanted(queue[w][i])},
      LAMBDA i : queue[w][i].value)

\* Every counter: parent, on the way and held back make what was given.
CellsKept ==
  \A c \in Cells :
    Sum(Workers, LAMBDA w : Sum(KeysOf[plan],
                                LAMBDA k : given[w][k] * Bump[plan][k][c]))
    = parent[c] + Sum(Workers, LAMBDA w : held[w][c]
                                 + InFlight(w, LAMBDA d : d.cell = c))

\* A report is never older than the one before it.
ReportsGrow ==
  /\ tally.total = SumOver(tally.weights)
  /\ \A w \in Workers :
       LET told == <<tally.weights[w]>>
                   \o [i \in DOMAIN queue[w] |-> queue[w][i].weight]
                   \o <<WeightTotal(w)>>
       IN \A i, j \in DOMAIN told : i <= j => told[i] <= told[j]

\* A register that has not been shipped lags by less than the threshold.
RegistersLag ==
  \A r \in Registers :
    LET ranks(w) == {Rank[k] : k \in {x \in KeysOf[plan] :
                                Register[x] = r /\ given[w][x] > 0}} \cup {0}
        top == Max(UNION {ranks(w) : w \in Workers})
    IN /\ \A w \in Workers : held[w][r] = Max(ranks(w))
       /\ parent[r] <= top
       /\ (\A w \in Workers : queue[w] = <<>>) =>
             PowerOfTwo[top] - PowerOfTwo[parent[r]] < PowerOfTwo[HllTau]

CocoMass(table) == Sum(CocoCells, LAMBDA c : table[c].val)

\* Each row of the light part has all of the weight that is not in a bucket.
RowCells(row) == {c \in LightCells : c[1] = row}
ElasticMass(s, row) ==
  Sum(Buckets, LAMBDA b : s.heavy[b].pos)
  + Sum(RowCells(row), LAMBDA c : s.light[c])

MassKept(Mass(_), Counts(_)) ==
  Sum(Workers, WeightTotal)
  = Mass(parent) + Sum(Workers, LAMBDA w : Mass(held[w]) + InFlight(w, Counts))

\* What a plan is given is in its parent, on the way or held back, once: in
\* every counter of a linear sketch, as weight in Coco and, row by row, in
\* Elastic, whose elections, spills and evictions only move it; and a register
\* lags by less than its threshold once nothing is on the way.
NothingLost ==
  ~returned /\ Resting =>
    /\ CellPlan(plan) => CellsKept
    /\ plan = "UnivMon" => ReportsGrow
    /\ plan = "Hll" => RegistersLag
    /\ plan = "Coco" => MassKept(CocoMass, LAMBDA d : TRUE)
    /\ plan = "Elastic" =>
         \A row \in LightRows :
           MassKept(LAMBDA s : ElasticMass(s, row),
                    LAMBDA d : d.kind = "light" => d.cell[1] = row)

\* CmTopK: whatever order the workers' deltas met the heap in, and through
\* the caller's clears and merges, no key that was turned away or displaced
\* had more than any key that is kept, and each kept key has the count it was
\* last offered with.
HeaviestKept ==
  plan = "CmTopK" /\ Resting /\ pending = <<>> =>
    \A k \in Keys : offered[k] # <<>> =>
      IF Matches(k) # {}
      THEN \A i \in Matches(k) : heap[i].count = offered[k][1]
      ELSE /\ Len(heap) = K
           /\ \A i \in Places : offered[k][1] <= heap[i].count

Drained == \A w \in Workers : queue[w] = <<>>

\* Elastic: once the workers are flushed and everything is applied, no flow
\* that visits one worker only is estimated below what it was given, whatever
\* buckets it won and lost on either side on the way.
NeverUnder ==
  /\ plan = "Elastic"
  /\ Drained
  /\ \A w \in Workers, row \in LightRows : ElasticMass(held[w], row) = 0
  => \A k \in KeysOf[plan] :
       (\E w \in Workers : \A v \in Workers \ {w} : given[v][k] = 0)
       => Query(parent, k) >= Given(k)

\* UnivMon: a layer that calls its candidates complete has every key it was
\* sent in its heap, whoever else competed for it, and once all is applied
\* every key it was given, unless tau rose and no delta told the aggregator.
CompleteMeansAll ==
  plan = "UnivMon" /\ Resting /\ tally.complete =>
    \A k \in KeysOf[plan] :
      /\ offered[k] # <<>> => Matches(k) # {}
      /\ /\ Drained
         /\ ~unheard
         /\ Touched(plan, k, Followed) # {}
         /\ Given(k) > 0
         => Matches(k) # {}

===============================================================================
