------------------------------ MODULE FoldedSketch ------------------------------
(***************************************************************************)
(* The folded sketches of src/src/sketches/fold_cms.rs and fold_cs.rs,     *)
(* which differ in the sign of an update and in how rows are combined.  A  *)
(* sketch of fold level n has FullCols / 2^n physical columns; a cell      *)
(* holds one counter for each full column, its tag, that has fallen into   *)
(* it.  A merge scatters the entries of its sources over the columns of    *)
(* the result and scores the keys of their heaps anew.                     *)
(*                                                                         *)
(* A heap is its residents with their counts; which of several residents   *)
(* with the least count leaves, and in which order a heap is walked, is    *)
(* left open (HHHeap has both).  A call that breaks an assertion of the    *)
(* code panics before it has changed anything and is no action.            *)
(***************************************************************************)
EXTENDS Integers, FiniteSets, SequencesExt

CONSTANTS
  Sketches,    \* the sketches a caller holds
  Keys,
  FullCols,    \* full_cols, a power of two
  TagRange,    \* values of a tag (2^16)
  Levels,      \* fold levels
  NewLevels,   \* bound: the levels sketches are made with, [Sketches -> Levels]
  HeapCap,     \* [Sketches -> capacity of the heap it is made with]
  Shapes,      \* [way: "min" or "median", rows]: FoldCMS and FoldCS
  Hash,        \* [Keys -> one number per row]: the low half of the hash
  Sign,        \* [Keys -> 1 or -1 per row]: its top bit
  Deltas,      \* weights inserted
  MaxInserts,  \* bound: inserts, by shape
  MaxMerges    \* bound: merges, unfoldings and clears

FoldCols(level) == FullCols \div 2^level

\* The asserts of new: a power of two, and a level that leaves a column.  From
\* a level all lower ones are reached by unfolding.
ASSUME FoldAssumption ==
  /\ \E n \in 0..FullCols : FullCols = 2^n /\ Levels \subseteq 0..n
  /\ \A level \in Levels : 0..level \subseteq Levels /\ FoldCols(level) \in 1..FullCols
  /\ TagRange \in Nat \ {0}
  /\ NewLevels \subseteq [Sketches -> Levels]
  /\ HeapCap \in [Sketches -> Nat]
  /\ Deltas \subseteq Int
  /\ MaxInserts \in [Shapes -> Nat] /\ MaxMerges \in Nat
  /\ IsFiniteSet(Sketches) /\ IsFiniteSet(Keys)

ASSUME HashAssumption ==
  /\ Shapes \subseteq [way : {"min", "median"}, rows : Nat \ {0}]
  /\ \A x \in Shapes, k \in Keys : \A r \in 1..x.rows :
       Hash[k][r] \in Nat /\ Sign[k][r] \in {-1, 1}

VARIABLES
  shape,     \* FoldCMS or FoldCS, and its rows
  sketch,    \* [level, cells, cap, heap] of each
  inserts, merges,
  weight,    \* history: what was inserted, by sketch and key
  unscored,  \* history: residents a same-level merge left as they were
  rebuilt    \* history: the sketch the last call unfolded or merged, if it
             \* did, and the residents of its sources

vars == <<shape, sketch, inserts, merges, weight, unscored, rebuilt>>

Rows == 1..shape.rows
Smaller(a, b) == IF a < b THEN a ELSE b
Larger(a, b)  == IF a > b THEN a ELSE b

(***************************************************************************)
(* Cells.                                                                  *)
(***************************************************************************)
EmptyCell == [t \in {} |-> 0]

CellQuery(cell, tag) == IF tag \in DOMAIN cell THEN cell[tag] ELSE 0

CellInsert(cell, tag, delta) ==
  [t \in DOMAIN cell \cup {tag} |->
     IF t = tag THEN CellQuery(cell, tag) + delta ELSE cell[t]]

(* full_col & (fold_cols - 1), fold_cols being a power of two. *)
FoldCol(level, tag) == tag % FoldCols(level)

FullCol(k, r) == (Hash[k][r] % FullCols) % TagRange
SignOf(k, r) == IF shape.way = "min" THEN 1 ELSE Sign[k][r]

EmptyCells(level) ==
  [r \in Rows |-> [c \in 0..(FoldCols(level) - 1) |-> EmptyCell]]

Inserted(level, cells, k, delta) ==
  [r \in Rows |->
    [cells[r] EXCEPT ![FoldCol(level, FullCol(k, r))] =
       CellInsert(@, FullCol(k, r), SignOf(k, r) * delta)]]

(* scatter_into: every entry of a row goes to the column of its tag,       *)
(* whatever the levels of source and target.                               *)
Poured(row, cell, c, cols) ==
  FoldSet(LAMBDA from, acc :
            FoldSet(LAMBDA t, into : CellInsert(into, t, row[from][t]), acc,
                    {t \in DOMAIN row[from] : t % cols = c}),
          cell, DOMAIN row)

Scattered(from, level, cells) ==
  [r \in Rows |-> [c \in DOMAIN cells[r] |->
                     Poured(from.cells[r], cells[r][c], c, FoldCols(level))]]

ScatteredAll(parts, level) ==
  FoldLeft(LAMBDA cells, s : Scattered(sketch[s], level, cells), EmptyCells(level), parts)

(***************************************************************************)
(* Estimates.  compute_median_inline_f64 has a network of its own for up   *)
(* to five rows, and sorts more; an average is cut toward zero when it     *)
(* becomes an i64.                                                         *)
(***************************************************************************)
\* What is at a place of the values in order.
Ordered(v, place) ==
  CHOOSE x \in {v[i] : i \in DOMAIN v} :
    /\ Cardinality({i \in DOMAIN v : v[i] < x}) < place
    /\ place <= Cardinality({i \in DOMAIN v : v[i] <= x})

Halved(n) == IF n < 0 THEN -((-n) \div 2) ELSE n \div 2

Middle(v) ==
  LET mid == Len(v) \div 2
  IN  IF Len(v) % 2 = 1 THEN Ordered(v, mid + 1)
      ELSE Halved(Ordered(v, mid) + Ordered(v, mid + 1))

MidOfThree(a, b, c) == Larger(Smaller(a, b), Smaller(Larger(a, b), c))

Median(v) ==
  CASE Len(v) = 1 -> v[1]
    [] Len(v) = 2 -> Halved(v[1] + v[2])
    [] Len(v) = 3 -> MidOfThree(v[1], v[2], v[3])
    [] Len(v) = 4 ->
         Halved(Larger(Smaller(v[1], v[2]), Smaller(v[3], v[4]))
                  + Smaller(Larger(v[1], v[2]), Larger(v[3], v[4])))
    [] Len(v) = 5 ->
         MidOfThree(Smaller(Larger(v[1], v[2]), Larger(v[4], v[5])),
                    v[3],
                    Larger(Smaller(v[1], v[2]), Smaller(v[4], v[5])))
    [] OTHER -> Middle(v)

\* Slip: every entry of a cell counts for the key, collisions included.
RowEstimate_WholeCell(level, cells, k, r) ==
  LET cell == cells[r][FoldCol(level, FullCol(k, r))]
  IN  SignOf(k, r) * FoldSet(LAMBDA t, n : n + cell[t], 0, DOMAIN cell)
RowEstimate(level, cells, k, r) ==
  SignOf(k, r) * CellQuery(cells[r][FoldCol(level, FullCol(k, r))], FullCol(k, r))

Estimate(level, cells, k) ==
  LET told == [r \in Rows |-> RowEstimate(level, cells, k, r)]
  IN  IF shape.way = "min" THEN FoldLeft(Smaller, told[1], told) ELSE Median(told)

Query(s, k) == Estimate(sketch[s].level, sketch[s].cells, k)

(***************************************************************************)
(* The heap: the heaps that an update, or one update for each of some keys *)
(* in any order, may leave.                                                *)
(***************************************************************************)
EmptyHeap == [k \in {} |-> 0]
Without(heap, k) == [e \in DOMAIN heap \ {k} |-> heap[e]]
With(heap, k, n) == [e \in DOMAIN heap \cup {k} |-> IF e = k THEN n ELSE heap[e]]

\* Slip: the heap has its heaviest entry at the root.
Lightest_Heaviest(heap) == {e \in DOMAIN heap : \A x \in DOMAIN heap : heap[e] >= heap[x]}
Lightest(heap) == {e \in DOMAIN heap : \A x \in DOMAIN heap : heap[e] <= heap[x]}

Updates(heap, cap, k, n) ==
  LET out == {e \in Lightest(heap) : n > heap[e]}
  IN  IF k \in DOMAIN heap \/ Cardinality(DOMAIN heap) < cap THEN {With(heap, k, n)}
      ELSE IF out = {} THEN {heap}
      ELSE {With(Without(heap, e), k, n) : e \in out}

Rescores(heaps, cap, keys, score) ==
  LET after[done \in SUBSET keys] ==
        IF done = {} THEN heaps
        ELSE UNION {UNION {Updates(h, cap, k, score[k]) : h \in after[done \ {k}]} :
                      k \in done}
  IN  after[keys]

Residents(s) == DOMAIN sketch[s].heap

(***************************************************************************)
(* Calls.                                                                  *)
(***************************************************************************)
NotRebuilt == [at |-> {}, from |-> {}]

New(s, level) ==
  [level |-> level, cells |-> EmptyCells(level), cap |-> HeapCap[s], heap |-> EmptyHeap]

Init ==
  /\ shape \in Shapes
  /\ \E level \in NewLevels : sketch = [s \in Sketches |-> New(s, level[s])]
  /\ inserts = 0 /\ merges = 0
  /\ weight = [s \in Sketches |-> [k \in Keys |-> 0]]
  /\ unscored = [s \in Sketches |-> {}]
  /\ rebuilt = NotRebuilt

Insert(s, k, delta) ==
  LET level == sketch[s].level
      cells == Inserted(level, sketch[s].cells, k, delta)
  IN  /\ inserts < MaxInserts[shape]
      /\ inserts' = inserts + 1
      /\ \E heap \in Updates(sketch[s].heap, sketch[s].cap, k, Estimate(level, cells, k)) :
           sketch' = [sketch EXCEPT ![s].cells = cells, ![s].heap = heap]
      /\ weight' = [weight EXCEPT ![s][k] = @ + delta]
      /\ unscored' = [unscored EXCEPT ![s] = @ \ {k}]
      /\ rebuilt' = NotRebuilt
      /\ UNCHANGED <<shape, merges>>

WeightOf(parts) ==
  [k \in Keys |-> FoldLeft(LAMBDA n, s : n + weight[s][k], 0, parts)]

Merging ==
  /\ merges < MaxMerges
  /\ merges' = merges + 1
  /\ UNCHANGED <<shape, inserts>>

ScoreOf(level, cells) == [k \in Keys |-> Estimate(level, cells, k)]

(* The heap of other is scored against the merged cells; what only the     *)
(* heap of s holds keeps its count.                                        *)
MergeSameLevel(s, other) ==
  LET level == sketch[s].level
      cells == Scattered(sketch[other], level, sketch[s].cells)
  IN  /\ Merging
      /\ s # other
      /\ sketch[other].level = level
      /\ \E heap \in Rescores({sketch[s].heap}, sketch[s].cap, Residents(other),
                              ScoreOf(level, cells)) :
           /\ sketch' = [sketch EXCEPT ![s].cells = cells, ![s].heap = heap]
           /\ unscored' = [unscored EXCEPT ![s] = (@ \cup Residents(s)) \ Residents(other)]
      /\ weight' = [weight EXCEPT ![s] = WeightOf(<<s, other>>)]
      /\ rebuilt' = NotRebuilt

CapOf(parts) == Max({sketch[parts[i]].cap : i \in DOMAIN parts})

(* A sketch of its own is built out of the parts and bound to s. *)
Rebuild(s, parts, level) ==
  LET cells == ScatteredAll(parts, level)
      score == ScoreOf(level, cells)
      heaps == FoldLeft(LAMBDA hs, p : Rescores(hs, CapOf(parts), Residents(p), score),
                        {EmptyHeap}, parts)
  IN  /\ \E heap \in heaps :
           sketch' = [sketch EXCEPT ![s] =
             [level |-> level, cells |-> cells, cap |-> CapOf(parts), heap |-> heap]]
      /\ weight' = [weight EXCEPT ![s] = WeightOf(parts)]
      /\ unscored' = [unscored EXCEPT ![s] = {}]
      /\ rebuilt' = [at |-> {s}, from |-> UNION {Residents(parts[i]) : i \in DOMAIN parts}]

UnfoldMerge(s, a, b) ==
  /\ Merging
  /\ sketch[a].level = sketch[b].level
  /\ sketch[a].level > 0
  /\ Rebuild(s, <<a, b>>, sketch[a].level - 1)

Clone(s, a) ==
  /\ sketch' = [sketch EXCEPT ![s] = sketch[a]]
  /\ weight' = [weight EXCEPT ![s] = weight[a]]
  /\ unscored' = [unscored EXCEPT ![s] = unscored[a]]
  /\ rebuilt' = NotRebuilt

UnfoldTo(s, a, level) ==
  /\ Merging
  /\ level <= sketch[a].level
  /\ IF level = sketch[a].level THEN Clone(s, a) ELSE Rebuild(s, <<a>>, level)

(* The slice may hold sketches of any levels; one sketch alone is unfolded. *)
HierarchicalMerge(s, parts) ==
  /\ Len(parts) > 1
  /\ Merging
  /\ Rebuild(s, parts, 0)

\* Slip: the heap outlives the cells.
Cleared_HeapKept(sk) == [sk EXCEPT !.cells = EmptyCells(sk.level)]
Cleared(sk) == [sk EXCEPT !.cells = EmptyCells(sk.level), !.heap = EmptyHeap]

Clear(s) ==
  /\ Merging
  /\ sketch' = [sketch EXCEPT ![s] = Cleared(@)]
  /\ weight' = [weight EXCEPT ![s] = [k \in Keys |-> 0]]
  /\ unscored' = [unscored EXCEPT ![s] = {}]
  /\ rebuilt' = NotRebuilt

Done ==
  /\ inserts = MaxInserts[shape] /\ merges = MaxMerges
  /\ UNCHANGED vars

Next ==
  \/ \E s \in Sketches, k \in Keys, delta \in Deltas : Insert(s, k, delta)
  \/ \E s, other \in Sketches : MergeSameLevel(s, other)
  \/ \E s, a, b \in Sketches : UnfoldMerge(s, a, b)
  \/ \E s, a \in Sketches, level \in Levels : UnfoldTo(s, a, level)
  \/ \E s \in Sketches, n \in 2..Cardinality(Sketches) :
       \E parts \in [1..n -> Sketches] : HierarchicalMerge(s, parts)
  \/ \E s \in Sketches : Clear(s)
  \/ Done

Spec == Init /\ [][Next]_vars

(***************************************************************************)
(* Properties.                                                             *)
(***************************************************************************)
(* What a sketch of full width that took the same inserts holds, and what  *)
(* it estimates (countminsketch.rs and countsketch.rs, the regular path).  *)
WideCol(k, r) == Hash[k][r] % FullCols

WideCounter(s, r, col) ==
  MapThenSumSet(LAMBDA k : SignOf(k, r) * weight[s][k], {k \in Keys : WideCol(k, r) = col})

WideEstimate(s, k) ==
  LET told == [r \in Rows |-> SignOf(k, r) * WideCounter(s, r, WideCol(k, r))]
  IN  IF shape.way = "min" THEN Ordered(told, 1) ELSE Middle(told)

(* to_flat_counters. *)
FlatCounter(s, r, col) ==
  LET row == sketch[s].cells[r]
  IN  MapThenSumSet(LAMBDA c : CellQuery(row[c], col), DOMAIN row)

(* Folding introduces no approximation error (fold_cms.rs and fold_cs.rs,  *)
(* module comments): at any fold level, after any sequence of inserts,     *)
(* merges and unfoldings, counters and estimates are those of the sketch   *)
(* of full width that took everything that went into this one.             *)
AnswersAsFullWidth ==
  \A s \in Sketches :
    /\ \A r \in Rows, col \in 0..(FullCols - 1) : FlatCounter(s, r, col) = WideCounter(s, r, col)
    /\ \A k \in Keys : Query(s, k) = WideEstimate(s, k)

(* unfold_merge, unfold_to and hierarchical_merge score the keys of every  *)
(* source against the finished cells: the heap of the result holds the     *)
(* keys with the largest estimates among them, at these estimates.         *)
RebuiltHeapIsTop ==
  \A s \in rebuilt.at :
    /\ Cardinality(Residents(s)) = Smaller(sketch[s].cap, Cardinality(rebuilt.from))
    /\ \A k \in Residents(s) :
         /\ k \in rebuilt.from
         /\ sketch[s].heap[k] = Query(s, k)
         /\ \A other \in rebuilt.from \ Residents(s) : Query(s, k) >= Query(s, other)

(* The count a FoldCMS heap shows is never above the estimate of its key   *)
(* and never below what was inserted of it, as long as a merge of the same *)
(* level has not passed the key over.                                      *)
HeapBracketsTruth ==
  shape.way = "min" /\ (\A delta \in Deltas : delta >= 0) =>
    \A s \in Sketches : \A k \in Residents(s) :
      /\ sketch[s].heap[k] <= Query(s, k)
      /\ k \notin unscored[s] => weight[s][k] <= sketch[s].heap[k]
===============================================================================
