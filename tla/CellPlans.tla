------------------------------ MODULE CellPlans ------------------------------
(***************************************************************************)
(* The Octo plans whose workers hold an array of counters, as functions on *)
(* that array: Count, CountTopK and CmTopK (src/src/sketch_framework/      *)
(* octo.rs 286 to 393, 1474 to 1697), DDSketch buckets (1700 to 1815), the *)
(* layers of UnivMon (395 to 507, 1935 to 2178) and the registers of       *)
(* HyperLogLog (1817 to 1933).  Count-Min itself runs in OctoRuntime.      *)
(* A cell is <<layer, row, column>>; layers are zero but for UnivMon.      *)
(***************************************************************************)
EXTENDS Integers, Sequences, TLC, FiniteSetsExt, SequencesExt

CONSTANTS
  CellOrder,   \* the cells, in the order in which insert and flush visit them
  Bump,        \* plan -> key -> cell -> what an occurrence adds: 1, -1 or 0
  RegisterOrder, \* HyperLogLog registers, in the order of a flush
  Register,    \* key -> the register it goes to
  Rank,        \* key -> the leading-zero count it brings there
  HllTau       \* threshold exponent of the HyperLogLog workers

Cells == ToSet(CellOrder)
Registers == ToSet(RegisterOrder)
NoCells == [c \in Cells |-> 0]

LinearPlans == {"Count", "CountTopK", "CmTopK", "Dd", "UnivMon"}

\* A visit of an array meets each of its cells once.
Visits(order) == \A i, j \in DOMAIN order : order[i] = order[j] => i = j

\* Count-Min counters and DDSketch buckets only grow.
ASSUME CellAssumption ==
  /\ CellOrder \in Seq(Nat \X Nat \X Nat) /\ Visits(CellOrder)
  /\ Bump = [p \in LinearPlans |-> [k \in DOMAIN Register |->
               [c \in Cells |-> Bump[p][k][c]]]]
  /\ \A p \in LinearPlans, k \in DOMAIN Register, c \in Cells :
       Bump[p][k][c] \in IF p \in {"CmTopK", "Dd"} THEN {0, 1} ELSE {-1, 0, 1}
  /\ RegisterOrder \in Seq(Registers) /\ Visits(RegisterOrder)
  /\ \A k \in DOMAIN Register : Register[k] \in Registers /\ Rank[k] \in Nat
  /\ HllTau \in Nat

PowerOfTwo[n \in Nat] == IF n = 0 THEN 1 ELSE 2 * PowerOfTwo[n - 1]

\* The picked members of a sequence, in its order.
InOrder(order, picked) ==
  LET at == {i \in DOMAIN order : order[i] \in picked}
      Nth(n) == CHOOSE i \in at : Cardinality({j \in at : j <= i}) = n
  IN [n \in 1..Cardinality(at) |-> order[Nth(n)]]

Magnitude(n) == IF n < 0 THEN -n ELSE n

(***************************************************************************)
(* insert: every counter the key touches moves by one, and one that        *)
(* reaches its threshold is shipped and cleared.  order, bump and taus     *)
(* describe the array, so that the light part of Elastic is one as well.   *)
(***************************************************************************)
Bumped(cells, bump) == [c \in DOMAIN cells |-> cells[c] + bump[c]]

Due(cells, bump, taus) ==
  {c \in DOMAIN cells :
     bump[c] # 0 /\ Magnitude(Bumped(cells, bump)[c]) >= taus[c]}

\* Slip: a counter that has been shipped keeps its count.
Held_Uncleared(cells, bump, taus) == Bumped(cells, bump)
Held(cells, bump, taus) ==
  [c \in DOMAIN cells |->
     IF c \in Due(cells, bump, taus) THEN 0 ELSE Bumped(cells, bump)[c]]

Parcels(order, picked, cells) ==
  LET cs == InOrder(order, picked)
  IN [i \in DOMAIN cs |-> [cell |-> cs[i], value |-> cells[cs[i]]]]

Shipped(order, cells, bump, taus) ==
  Parcels(order, Due(cells, bump, taus), Bumped(cells, bump))

\* flush ships every counter that holds anything.
NonZero(cells) == {c \in DOMAIN cells : cells[c] # 0}
Emptied(cells) == [c \in DOMAIN cells |-> 0]
Residue(order, cells) == Parcels(order, NonZero(cells), cells)

(***************************************************************************)
(* Per plan: UnivMon halves the threshold from layer to layer.             *)
(***************************************************************************)
LayerTau(plan, tau, layer) ==
  IF plan = "UnivMon" THEN Max({tau \div PowerOfTwo[layer], 1}) ELSE tau

Taus(plan, tau) == [c \in Cells |-> LayerTau(plan, tau, c[1])]

\* Workers whose deltas carry a key cannot attribute a residue to one.
FlushesCells(plan) == plan \in {"Count", "Dd"}

Keyed(parcels, k, weight) ==
  [i \in DOMAIN parcels |->
     [kind |-> "cell", cell |-> parcels[i].cell, value |-> parcels[i].value,
      key |-> k, weight |-> weight]]

CellInsert(plan, cells, k, tau, weight) ==
  [held |-> Held(cells, Bump[plan][k], Taus(plan, tau)),
   out  |-> Keyed(Shipped(CellOrder, cells, Bump[plan][k], Taus(plan, tau)),
                  k, weight)]

CellFlush(plan, cells, nobody) ==
  IF FlushesCells(plan)
  THEN [held |-> Emptied(cells),
        out  |-> Keyed(Residue(CellOrder, cells), nobody, 0)]
  ELSE [held |-> cells, out |-> <<>>]

AddTo(cells, parcel) == [cells EXCEPT ![parcel.cell] = @ + parcel.value]

(***************************************************************************)
(* Estimates of the parent: the minimum over a key's cells, or the median  *)
(* with the signs undone, cut towards zero for the heap.                   *)
(***************************************************************************)
Touched(plan, k, layer) ==
  {c \in Cells : c[1] = layer /\ Bump[plan][k][c] # 0}

LeastOf(plan, cells, k) == Min({cells[c] : c \in Touched(plan, k, 0)})

CutToZero(sum) == IF sum < 0 THEN -((-sum) \div 2) ELSE sum \div 2

\* The n-th smallest value of told.
AtRank(told, n) ==
  Min({v \in Range(told) : n <= Cardinality({c \in DOMAIN told : told[c] <= v})})

MedianOf(plan, cells, k, layer) ==
  LET told == [c \in Touched(plan, k, layer) |-> Bump[plan][k][c] * cells[c]]
      n == Cardinality(Touched(plan, k, layer))
  IN IF n % 2 = 1 THEN AtRank(told, (n + 1) \div 2)
     ELSE CutToZero(AtRank(told, n \div 2) + AtRank(told, n \div 2 + 1))

(***************************************************************************)
(* HyperLogLog: registers only grow, and a growth is shipped when it gains *)
(* enough.  flush ships every register that is not empty.                  *)
(***************************************************************************)
NoRegisters == [r \in Registers |-> 0]

Gains(old, new) == PowerOfTwo[new] - PowerOfTwo[old] >= PowerOfTwo[HllTau]

Raised(regs, r, v) == [regs EXCEPT ![r] = Max({@, v})]

RegisterDelta(r, v) == [kind |-> "register", cell |-> r, value |-> v]

HllInsert(regs, k) ==
  LET r == Register[k]
      grows == Rank[k] > regs[r]
  IN [held |-> Raised(regs, r, Rank[k]),
      out  |-> IF grows /\ Gains(regs[r], Rank[k])
               THEN <<RegisterDelta(r, Rank[k])>> ELSE <<>>]

HllFlush(regs) ==
  LET full == InOrder(RegisterOrder, {r \in Registers : regs[r] # 0})
  IN [held |-> regs,
      out  |-> [i \in DOMAIN full |-> RegisterDelta(full[i], regs[full[i]])]]

===============================================================================
