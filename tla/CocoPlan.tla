------------------------------- MODULE CocoPlan -------------------------------
(***************************************************************************)
(* CocoSketch as an Octo plan: the worker's table of keys and one-byte     *)
(* counters (src/src/sketch_framework/octo.rs 509 to 612) and the parent,  *)
(* whose insert it mirrors (src/src/sketches/coco.rs).  Which of several   *)
(* smallest cells is the victim, and whether the arrival is elected, is    *)
(* chance: both outcomes are possible whatever the counts.                 *)
(***************************************************************************)
EXTENDS CellPlans

CONSTANTS
  CocoOrder,  \* the cells of all arrays, in the order of a flush
  CocoRows,   \* key -> its cell in every array, by array
  NoHolder    \* no key

CocoCells == ToSet(CocoOrder)

\* Without an array nothing is kept: insert returns at once.
ASSUME CocoAssumption ==
  /\ CocoOrder \in Seq(CocoCells) /\ Visits(CocoOrder)
  /\ \A k \in DOMAIN CocoRows : CocoRows[k] \in Seq(CocoCells) /\ CocoRows[k] # <<>>
  /\ NoHolder \notin DOMAIN CocoRows

NoCoco == [c \in CocoCells |-> [key |-> NoHolder, val |-> 0]]

\* Where a key is found, by array.
Found(table, k) ==
  {i \in DOMAIN CocoRows[k] : table[CocoRows[k][i]].key = k}

Lightest(table, k) ==
  {c \in ToSet(CocoRows[k]) :
     \A d \in ToSet(CocoRows[k]) : table[c].val <= table[d].val}

\* The keys a cell may hold once k has drawn for it.
Elected(table, c, k) ==
  IF table[c].key = NoHolder THEN {k} ELSE {k, table[c].key}

\* The cell that takes the weight, and the table as it may then be.
CocoTakes(table, k, v) ==
  IF Found(table, k) # {}
  THEN LET c == CocoRows[k][Min(Found(table, k))]
       IN {[cell |-> c, table |-> [table EXCEPT ![c].val = @ + v]]}
  ELSE UNION {{[cell  |-> c,
                table |-> [table EXCEPT ![c] =
                             [key |-> who, val |-> @.val + v]]] :
                 who \in Elected(table, c, k)} : c \in Lightest(table, k)}

CocoDelta(cell) == [kind |-> "coco", key |-> cell.key, value |-> cell.val]

\* A worker's insert ships and clears the cell it touched at the threshold.
CocoInsert(table, k, tau) ==
  {LET due == r.table[r.cell].val >= tau
   IN [held |-> IF due THEN [r.table EXCEPT ![r.cell].val = 0] ELSE r.table,
       out  |-> IF due THEN <<CocoDelta(r.table[r.cell])>> ELSE <<>>] :
     r \in CocoTakes(table, k, 1)}

CocoFlush(table) ==
  LET full == InOrder(CocoOrder, {c \in CocoCells : table[c].val # 0})
  IN [held |-> [c \in CocoCells |-> [table[c] EXCEPT !.val = 0]],
      out  |-> [i \in DOMAIN full |-> CocoDelta(table[full[i]])]]

CocoApplied(table, d) == {r.table : r \in CocoTakes(table, d.key, d.value)}

===============================================================================
