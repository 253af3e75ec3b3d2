--------------------------- MODULE FoldedSketchProofs ---------------------------
(***************************************************************************)
(* Theorems about FoldedSketch for any keys, hashes, signs, weights, rows, *)
(* fold levels, heap capacities and numbers of sketches and calls.         *)
(***************************************************************************)
EXTENDS FoldedSketch, RowLemmas, TLAPS

(***************************************************************************)
(* Cells.                                                                  *)
(***************************************************************************)
Tags == 0..(FullCols - 1)
Cell == UNION {[T -> Int] : T \in SUBSET Tags}

LEMMA ColFacts ==
  /\ \A level \in Levels : level \in Nat /\ FoldCols(level) \in 1..FullCols /\ FullCols \in Nat
  /\ IsFiniteSet(Tags)
<1>1. ASSUME NEW n \in 0..FullCols, FullCols = 2^n, Levels \subseteq 0..n
      PROVE  FullCols \in Int /\ \A level \in Levels : level \in Nat
  BY <1>1
<1>2. FullCols \in Int /\ \A level \in Levels : level \in Nat /\ FoldCols(level) \in 1..FullCols
  BY <1>1, FoldAssumption
<1>3. IsFiniteSet(Tags)
  BY <1>2, FS_Interval DEF Tags
<1> QED
  BY <1>2, <1>3

\* What is in a column belongs there.
InPlace(row, cols) == \A c \in DOMAIN row : \A t \in DOMAIN row[c] : t % cols = c

LEMMA CellFacts ==
  ASSUME NEW cell \in Cell
  PROVE  /\ DOMAIN cell \in SUBSET Tags
         /\ \A t : CellQuery(cell, t) \in Int
         /\ \A t \in DOMAIN cell : cell[t] \in Int
<1>1. PICK T \in SUBSET Tags : cell \in [T -> Int]
  BY DEF Cell
<1> QED
  BY <1>1 DEF CellQuery

LEMMA CellInsertFacts ==
  ASSUME NEW cell \in Cell, NEW tag \in Tags, NEW delta \in Int
  PROVE  /\ CellInsert(cell, tag, delta) \in Cell
         /\ DOMAIN CellInsert(cell, tag, delta) = DOMAIN cell \cup {tag}
         /\ \A t : CellQuery(CellInsert(cell, tag, delta), t)
                     = CellQuery(cell, t) + IF t = tag THEN delta ELSE 0
<1>1. DOMAIN cell \in SUBSET Tags /\ CellQuery(cell, tag) \in Int
  BY CellFacts
<1>2. \A t \in DOMAIN cell : cell[t] \in Int
  BY CellFacts
<1>3. PICK T \in SUBSET Tags : T = DOMAIN cell \cup {tag}
  BY <1>1
<1>4. PICK new : new = CellInsert(cell, tag, delta)
  OBVIOUS
<1>5. new = [t \in T |-> IF t = tag THEN CellQuery(cell, tag) + delta ELSE cell[t]]
  BY <1>3, <1>4 DEF CellInsert
<1>6. new \in [T -> Int]
  BY <1>1, <1>2, <1>3, <1>5
<1>7. new \in Cell
  BY <1>6 DEF Cell
<1>8. ASSUME NEW t
      PROVE  CellQuery(new, t) = CellQuery(cell, t) + IF t = tag THEN delta ELSE 0
  <2>1. CellQuery(cell, t) \in Int
    BY CellFacts
  <2>2. CASE t = tag
    BY <1>1, <1>3, <1>5, <2>2 DEF CellQuery
  <2>3. CASE t # tag
    BY <1>2, <1>3, <1>5, <2>1, <2>3 DEF CellQuery
  <2> QED
    BY <2>2, <2>3
<1> QED
  BY <1>3, <1>4, <1>5, <1>7, <1>8

LEMMA EmptyCellFacts ==
  /\ EmptyCell \in Cell
  /\ DOMAIN EmptyCell = {}
  /\ \A t : CellQuery(EmptyCell, t) = 0
<1>1. DOMAIN EmptyCell = {} /\ EmptyCell \in [{} -> Int]
  BY DEF EmptyCell
<1>2. {} \in SUBSET Tags
  OBVIOUS
<1> QED
  BY <1>1, <1>2 DEF Cell, CellQuery

(***************************************************************************)
(* scatter_into.                                                           *)
(***************************************************************************)
\* One cell poured into another, as far as its entries belong there.
Due(part, c, cols) == {t \in DOMAIN part : t % cols = c}

PourOne(part, cell, c, cols) ==
  FoldSet(LAMBDA t, into : CellInsert(into, t, part[t]), cell,
          {t \in DOMAIN part : t % cols = c})

PourTurns(part, cell, c, cols, g) ==
  g = [s \in SUBSET Due(part, c, cols) |->
         IF s = {} THEN cell ELSE CellInsert(g[s \ {Part(s)}], Part(s), part[Part(s)])]

PourFold(part, cell, c, cols) == CHOOSE g : PourTurns(part, cell, c, cols, g)

LEMMA PourOneIs ==
  ASSUME NEW part, NEW cell, NEW c, NEW cols
  PROVE  PourOne(part, cell, c, cols)
           = PourFold(part, cell, c, cols)[Due(part, c, cols)]
<1> DEFINE S == {t \in DOMAIN part : t % cols = c}
           iter == CHOOSE iter : iter =
             [s \in SUBSET S |->
                IF s = {} THEN cell
                ELSE LET x == CHOOSE x \in s : TRUE
                     IN  CellInsert(iter[s \ {x}], x, part[x])]
<1>1. PourOne(part, cell, c, cols) = iter[S]
  BY Zenon DEF FoldSet, MapThenFoldSet, PourOne
<1>2. iter = PourFold(part, cell, c, cols)
  BY Zenon DEF PourFold, PourTurns, Part, Due
<1>3. S = Due(part, c, cols)
  BY Zenon DEF Due
<1> QED
  BY <1>1, <1>2, <1>3, Zenon

\* What a pour of the entries s has done to a cell.
Poured1(part, cell, s, out) ==
  /\ out \in Cell
  /\ DOMAIN out = DOMAIN cell \cup s
  /\ \A t : CellQuery(out, t) = CellQuery(cell, t) + IF t \in s THEN part[t] ELSE 0

LEMMA PourOneFacts ==
  ASSUME NEW part \in Cell, NEW cell \in Cell, NEW c, NEW cols
  PROVE  Poured1(part, cell, Due(part, c, cols), PourOne(part, cell, c, cols))
<1>1. PICK S : S = Due(part, c, cols)
  OBVIOUS
<1>2. S \in SUBSET Tags /\ S \subseteq DOMAIN part /\ \A t \in S : part[t] \in Int
  BY <1>1, CellFacts DEF Due
<1>3. IsFiniteSet(S)
  BY <1>2, ColFacts, FS_Subset
<1>4. PICK turn : turn = [p \in S \X Cell |-> CellInsert(p[2], p[1], part[p[1]])]
  OBVIOUS
<1>5. PICK pick : pick = [s \in SUBSET S |-> Part(s)]
  OBVIOUS
<1>6. \A x \in S, v \in Cell : turn[<<x, v>>] = CellInsert(v, x, part[x])
  BY <1>4
<1>7. \A x \in S, v \in Cell : CellInsert(v, x, part[x]) \in Cell
  BY <1>2, CellInsertFacts
<1>8. \A s \in SUBSET S : s # {} => Part(s) \in s /\ pick[s] = Part(s)
  BY <1>3, <1>5, PartFacts
<1>9. Foldable(S, Cell, turn, pick)
  BY <1>6, <1>7, <1>8 DEF Foldable
<1>10. PICK g \in [SUBSET S -> Cell] : \A s \in SUBSET S : Defined(S, turn, pick, cell, g, s)
  BY <1>3, <1>9, FoldExists
<1>11. ASSUME NEW s \in SUBSET S
       PROVE  g[s] = IF s = {} THEN cell
                     ELSE CellInsert(g[s \ {Part(s)}], Part(s), part[Part(s)])
  <2>1. CASE s = {}
    BY <1>10, <2>1 DEF Defined
  <2>2. CASE s # {}
    <3>1. g[s] = turn[<<Part(s), g[s \ {Part(s)}]>>] /\ Part(s) \in S
      BY <1>8, <1>10, <2>2 DEF Defined
    <3>2. g[s \ {Part(s)}] \in Cell
      OBVIOUS
    <3> QED
      BY <1>6, <2>2, <3>1, <3>2
  <2> QED
    BY <2>1, <2>2
<1>12. PourTurns(part, cell, c, cols, g)
  BY <1>1, <1>11 DEF PourTurns
<1>13. PICK a : a = PourFold(part, cell, c, cols)
  OBVIOUS
<1>14. PourTurns(part, cell, c, cols, a)
  BY <1>12, <1>13 DEF PourFold
<1>15. \A s \in SUBSET S : a[s] = IF s = {} THEN cell
                     ELSE CellInsert(a[s \ {Part(s)}], Part(s), part[Part(s)])
  BY <1>1, <1>14 DEF PourTurns
<1>16. PICK W : W = {s \in SUBSET S : Poured1(part, cell, s, a[s])}
  OBVIOUS
<1>17. ASSUME NEW s \in SUBSET S, \A x \in s : s \ {x} \in W
       PROVE  Poured1(part, cell, s, a[s])
  <2>1. CASE s = {}
    <3>1. a[s] = cell
      BY <1>15, <2>1
    <3>2. \A t : CellQuery(cell, t) \in Int
      BY CellFacts
    <3> QED
      BY <2>1, <3>1, <3>2 DEF Poured1
  <2>2. CASE s # {}
    <3>1. PICK x \in s : x = Part(s)
      BY <1>8, <2>2
    <3>2. PICK b : b = a[s \ {x}]
      OBVIOUS
    <3>3. Poured1(part, cell, s \ {x}, b)
      BY <1>16, <1>17, <3>2
    <3>4. a[s] = CellInsert(b, x, part[x])
      BY <1>15, <2>2, <3>1, <3>2
    <3>5. x \in Tags /\ part[x] \in Int /\ b \in Cell
      BY <1>2, <3>3 DEF Poured1
    <3>6. /\ a[s] \in Cell /\ DOMAIN a[s] = DOMAIN b \cup {x}
          /\ \A t : CellQuery(a[s], t) = CellQuery(b, t) + IF t = x THEN part[x] ELSE 0
      <4>1. PICK d \in Int : d = part[x]
        BY <3>5
      <4>2. /\ CellInsert(b, x, d) \in Cell /\ DOMAIN CellInsert(b, x, d) = DOMAIN b \cup {x}
            /\ \A t : CellQuery(CellInsert(b, x, d), t) = CellQuery(b, t) + IF t = x THEN d ELSE 0
        BY <3>5, CellInsertFacts
      <4> QED
        BY <3>4, <4>1, <4>2
    <3>7. ASSUME NEW t
          PROVE  CellQuery(a[s], t) = CellQuery(cell, t) + IF t \in s THEN part[t] ELSE 0
      <4>1. CellQuery(cell, t) \in Int
        BY CellFacts
      <4>2. CellQuery(b, t) = CellQuery(cell, t) + IF t \in s \ {x} THEN part[t] ELSE 0
        BY <3>3 DEF Poured1
      <4>3. CellQuery(a[s], t) = CellQuery(b, t) + IF t = x THEN part[x] ELSE 0
        BY <3>6
      <4>4. CASE t = x
        BY <3>5, <4>1, <4>2, <4>3, <4>4
      <4>5. CASE t # x /\ t \in s
        <5>1. part[t] \in Int
          BY <1>2, <4>5
        <5> QED
          BY <4>1, <4>2, <4>3, <4>5, <5>1
      <4>6. CASE t # x /\ t \notin s
        BY <4>1, <4>2, <4>3, <4>6
      <4> QED
        BY <4>4, <4>5, <4>6
    <3>8. DOMAIN a[s] = DOMAIN cell \cup s
      BY <3>3, <3>6 DEF Poured1
    <3> QED
      BY <3>6, <3>7, <3>8 DEF Poured1
  <2> QED
    BY <2>1, <2>2
<1>18. Inductive(S, W)
  BY <1>16, <1>17 DEF Inductive
<1>19. S \in W
  BY <1>3, <1>18, PartInduction
<1>20. PourOne(part, cell, c, cols) = a[S]
  BY <1>1, <1>13, PourOneIs
<1> QED
  BY <1>1, <1>16, <1>19, <1>20

\* A row poured into one cell.
RowTurns(row, cell, c, cols, g) ==
  g = [s \in SUBSET DOMAIN row |->
         IF s = {} THEN cell ELSE PourOne(row[Part(s)], g[s \ {Part(s)}], c, cols)]

RowFold(row, cell, c, cols) == CHOOSE g : RowTurns(row, cell, c, cols, g)

LEMMA PouredIs ==
  ASSUME NEW row, NEW cell, NEW c, NEW cols
  PROVE  Poured(row, cell, c, cols) = RowFold(row, cell, c, cols)[DOMAIN row]
<1> DEFINE iter == CHOOSE iter : iter =
             [s \in SUBSET DOMAIN row |->
                IF s = {} THEN cell
                ELSE LET x == CHOOSE x \in s : TRUE
                     IN  FoldSet(LAMBDA t, into : CellInsert(into, t, row[x][t]),
                                 iter[s \ {x}], {t \in DOMAIN row[x] : t % cols = c})]
<1>1. Poured(row, cell, c, cols) = iter[DOMAIN row]
  BY Zenon DEF FoldSet, MapThenFoldSet, Poured
<1>2. iter = RowFold(row, cell, c, cols)
  BY Zenon DEF RowFold, RowTurns, Part, PourOne
<1> QED
  BY <1>1, <1>2, Zenon

\* What a pour of the columns s of a row of src columns has done to a cell.
PouredRow(row, src, cell, c, cols, s, out) ==
  /\ out \in Cell
  /\ \A t \in DOMAIN out : t % cols = c
  /\ \A t \in Tags : CellQuery(out, t) = CellQuery(cell, t)
       + IF t % cols = c /\ t % src \in s THEN CellQuery(row[t % src], t) ELSE 0

LEMMA PouredFacts ==
  ASSUME NEW src \in Nat \ {0}, NEW row \in [0..(src - 1) -> Cell], InPlace(row, src),
         NEW cols, NEW c, NEW cell \in Cell, \A t \in DOMAIN cell : t % cols = c
  PROVE  PouredRow(row, src, cell, c, cols, 0..(src - 1), Poured(row, cell, c, cols))
<1>1. PICK S : S = 0..(src - 1)
  OBVIOUS
<1>2. IsFiniteSet(S) /\ DOMAIN row = S /\ \A x \in S : row[x] \in Cell
  BY <1>1, FS_Interval
<1>3. PICK turn : turn = [p \in S \X Cell |-> PourOne(row[p[1]], p[2], c, cols)]
  OBVIOUS
<1>4. PICK pick : pick = [s \in SUBSET S |-> Part(s)]
  OBVIOUS
<1>5. \A x \in S, v \in Cell : turn[<<x, v>>] = PourOne(row[x], v, c, cols)
  BY <1>3
<1>6. \A x \in S, v \in Cell :
         Poured1(row[x], v, Due(row[x], c, cols), PourOne(row[x], v, c, cols))
  BY <1>2, PourOneFacts
<1>7. \A x \in S, v \in Cell : PourOne(row[x], v, c, cols) \in Cell
  BY <1>6 DEF Poured1
<1>8. \A s \in SUBSET S : s # {} => Part(s) \in s /\ pick[s] = Part(s)
  BY <1>2, <1>4, PartFacts
<1>9. Foldable(S, Cell, turn, pick)
  BY <1>5, <1>7, <1>8 DEF Foldable
<1>10. PICK g \in [SUBSET S -> Cell] : \A s \in SUBSET S : Defined(S, turn, pick, cell, g, s)
  BY <1>2, <1>9, FoldExists
<1>11. ASSUME NEW s \in SUBSET S
       PROVE  g[s] = IF s = {} THEN cell
                     ELSE PourOne(row[Part(s)], g[s \ {Part(s)}], c, cols)
  <2>1. CASE s = {}
    BY <1>10, <2>1 DEF Defined
  <2>2. CASE s # {}
    <3>1. g[s] = turn[<<Part(s), g[s \ {Part(s)}]>>] /\ Part(s) \in S
      BY <1>8, <1>10, <2>2 DEF Defined
    <3>2. g[s \ {Part(s)}] \in Cell
      OBVIOUS
    <3> QED
      BY <1>5, <2>2, <3>1, <3>2
  <2> QED
    BY <2>1, <2>2
<1>12. RowTurns(row, cell, c, cols, g)
  BY <1>2, <1>11 DEF RowTurns
<1>13. PICK a : a = RowFold(row, cell, c, cols)
  OBVIOUS
<1>14. RowTurns(row, cell, c, cols, a)
  BY <1>12, <1>13 DEF RowFold
<1>15. \A s \in SUBSET S : a[s] = IF s = {} THEN cell
                     ELSE PourOne(row[Part(s)], a[s \ {Part(s)}], c, cols)
  BY <1>2, <1>14 DEF RowTurns
<1>16. PICK W : W = {s \in SUBSET S : PouredRow(row, src, cell, c, cols, s, a[s])}
  OBVIOUS
<1>17. \A x \in S : \A t \in DOMAIN row[x] : t % src = x
  BY <1>2 DEF InPlace
<1>18. ASSUME NEW s \in SUBSET S, \A x \in s : s \ {x} \in W
       PROVE  PouredRow(row, src, cell, c, cols, s, a[s])
  <2>1. CASE s = {}
    <3>1. a[s] = cell
      BY <1>15, <2>1
    <3>2. \A t : CellQuery(cell, t) \in Int
      BY CellFacts
    <3> QED
      BY <2>1, <3>1, <3>2 DEF PouredRow
  <2>2. CASE s # {}
    <3>1. PICK x \in s : x = Part(s)
      BY <1>8, <2>2
    <3>2. PICK b : b = a[s \ {x}]
      OBVIOUS
    <3>3. PouredRow(row, src, cell, c, cols, s \ {x}, b)
      BY <1>16, <1>18, <3>2
    <3>4. a[s] = PourOne(row[x], b, c, cols)
      BY <1>15, <2>2, <3>1, <3>2
    <3>5. PICK part \in Cell : part = row[x]
      BY <1>2
    <3>6. b \in Cell
      BY <3>3 DEF PouredRow
    <3>7. PICK due : due = Due(part, c, cols)
      OBVIOUS
    <3>8. Poured1(part, b, due, a[s])
      BY <1>6, <3>4, <3>5, <3>6, <3>7
    <3>9. \A t \in due : t \in DOMAIN part /\ t % cols = c
      BY <3>7 DEF Due
    <3>10. \A t \in DOMAIN a[s] : t % cols = c
      BY <3>3, <3>8, <3>9 DEF Poured1, PouredRow
    <3>11. ASSUME NEW t \in Tags
           PROVE  CellQuery(a[s], t) = CellQuery(cell, t)
                    + IF t % cols = c /\ t % src \in s THEN CellQuery(row[t % src], t) ELSE 0
      <4>1. CellQuery(cell, t) \in Int /\ CellQuery(part, t) \in Int
        BY CellFacts
      <4>2. CellQuery(b, t) = CellQuery(cell, t)
              + IF t % cols = c /\ t % src \in s \ {x} THEN CellQuery(row[t % src], t) ELSE 0
        BY <3>3 DEF PouredRow
      <4>3. CellQuery(a[s], t) = CellQuery(b, t) + IF t \in due THEN part[t] ELSE 0
        BY <3>8 DEF Poured1
      <4>4. CASE t \in due
        <5>1. t % src = x /\ t % cols = c /\ CellQuery(part, t) = part[t]
          BY <1>17, <3>5, <3>9, <4>4 DEF CellQuery
        <5> QED
          BY <3>5, <4>1, <4>2, <4>3, <4>4, <5>1
      <4>5. CASE t \notin due
        <5>1. CASE t % cols = c /\ t % src = x
          <6>1. t \notin DOMAIN part
            BY <3>7, <4>5, <5>1 DEF Due
          <6>2. CellQuery(part, t) = 0
            BY <6>1 DEF CellQuery
          <6> QED
            BY <3>5, <4>1, <4>2, <4>3, <4>5, <5>1, <6>2
        <5>2. CASE ~ (t % cols = c /\ t % src = x)
          <6>1. PICK y : y = t % src
            OBVIOUS
          <6>2. CASE t % cols = c /\ y \in s
            <7>1. y \in S /\ row[y] \in Cell
              BY <1>2, <6>2
            <7>2. CellQuery(row[y], t) \in Int
              BY <7>1, CellFacts
            <7> QED
              BY <4>1, <4>2, <4>3, <4>5, <5>2, <6>1, <6>2, <7>2
          <6>3. CASE ~ (t % cols = c /\ y \in s)
            BY <4>1, <4>2, <4>3, <4>5, <6>1, <6>3
          <6> QED
            BY <6>2, <6>3
        <5> QED
          BY <5>1, <5>2
      <4> QED
        BY <4>4, <4>5
    <3> QED
      BY <3>8, <3>10, <3>11 DEF Poured1, PouredRow
  <2> QED
    BY <2>1, <2>2
<1>19. Inductive(S, W)
  BY <1>16, <1>18 DEF Inductive
<1>20. S \in W
  BY <1>2, <1>19, PartInduction
<1>21. Poured(row, cell, c, cols) = a[S]
  BY <1>2, <1>13, PouredIs
<1> QED
  BY <1>1, <1>16, <1>20, <1>21

(***************************************************************************)
(* What a sketch of full width would hold.  x is the shape of a sketch.    *)
(* A counter is named by its tag: a column, as far as no tag is cut.       *)
(***************************************************************************)
RowsOf(x) == 1..x.rows
SignAs(x, k, r) == IF x.way = "min" THEN 1 ELSE Sign[k][r]

Weightings == [Keys -> Int]
NoWeight == [k \in Keys |-> 0]

Sharing(r, col) == {k \in Keys : FullCol(k, r) = col}
WideOf(x, w, r, col) == SumOf([k \in Sharing(r, col) |-> SignAs(x, k, r) * w[k]])

\* No tag is cut: full_cols is at most the range of a tag, which is 2^16.
TagsFit == FullCols <= TagRange

LEMMA ShapeFacts ==
  ASSUME NEW x \in Shapes
  PROVE  /\ x.rows \in Nat \ {0} /\ x.way \in {"min", "median"}
         /\ \A k \in Keys, r \in RowsOf(x) :
              SignAs(x, k, r) \in {-1, 1} /\ Hash[k][r] \in Nat
BY HashAssumption DEF RowsOf, SignAs

LEMMA ColumnFacts ==
  ASSUME NEW x \in Shapes, NEW k \in Keys, NEW r \in RowsOf(x), Levels # {}
  PROVE  /\ FullCol(k, r) \in Tags
         /\ TagsFit => FullCol(k, r) = WideCol(k, r)
<1>1. FullCols \in Nat \ {0} /\ TagRange \in Nat \ {0}
  <2>1. PICK level \in Levels : TRUE
    OBVIOUS
  <2>2. FoldCols(level) \in 1..FullCols /\ FullCols \in Nat
    BY ColFacts
  <2> QED
    BY <2>2, FoldAssumption
<1>2. PICK h \in Nat : h = Hash[k][r]
  BY ShapeFacts
<1>3. PICK c : c = h % FullCols
  OBVIOUS
<1>4. c \in 0..(FullCols - 1)
  BY <1>1, <1>3
<1>5. CASE c < TagRange
  <2>1. c % TagRange = c
    BY <1>1, <1>4, <1>5
  <2> QED
    BY <1>2, <1>3, <1>4, <2>1 DEF WideCol, FullCol, Tags
<1>6. CASE ~ (c < TagRange)
  <2>1. c % TagRange \in 0..(TagRange - 1)
    BY <1>1, <1>4
  <2>2. c % TagRange \in 0..(FullCols - 1)
    BY <1>1, <1>4, <1>6, <2>1
  <2>3. ~ TagsFit
    BY <1>1, <1>4, <1>6 DEF TagsFit
  <2> QED
    BY <1>2, <1>3, <2>2, <2>3 DEF FullCol, Tags
<1> QED
  BY <1>4, <1>5, <1>6, <1>1

LEMMA SharingFacts ==
  ASSUME NEW x \in Shapes, NEW r \in RowsOf(x), NEW col, NEW w \in Weightings
  PROVE  /\ IsFiniteSet(Sharing(r, col))
         /\ [k \in Sharing(r, col) |-> SignAs(x, k, r) * w[k]] \in [Sharing(r, col) -> Int]
         /\ WideOf(x, w, r, col) \in Int
<1>1. PICK S \in SUBSET Keys : S = Sharing(r, col)
  BY DEF Sharing
<1>2. IsFiniteSet(S)
  BY FoldAssumption, FS_Subset
<1>3. \A k \in S : SignAs(x, k, r) \in {-1, 1} /\ w[k] \in Int
  BY ShapeFacts DEF Weightings
<1>4. \A k \in S : SignAs(x, k, r) * w[k] \in Int
  BY <1>3
<1>5. PICK f \in [S -> Int] : f = [k \in S |-> SignAs(x, k, r) * w[k]]
  BY <1>4
<1>6. SumOf(f) \in Int
  BY <1>2, IntSumFacts
<1> QED
  BY <1>1, <1>2, <1>5, <1>6 DEF WideOf

LEMMA WideAdds ==
  ASSUME NEW x \in Shapes, NEW r \in RowsOf(x), NEW col,
         NEW u \in Weightings, NEW v \in Weightings, NEW w \in Weightings,
         \A k \in Keys : w[k] = u[k] + v[k]
  PROVE  WideOf(x, w, r, col) = WideOf(x, u, r, col) + WideOf(x, v, r, col)
<1>1. PICK S \in SUBSET Keys : S = Sharing(r, col)
  BY DEF Sharing
<1>2. IsFiniteSet(S)
  BY FoldAssumption, FS_Subset
<1>3. PICK f, g, h : /\ f = [k \in S |-> SignAs(x, k, r) * u[k]]
                     /\ g = [k \in S |-> SignAs(x, k, r) * v[k]]
                     /\ h = [k \in S |-> SignAs(x, k, r) * w[k]]
  OBVIOUS
<1>4. f \in [S -> Int] /\ g \in [S -> Int] /\ h \in [S -> Int]
  BY <1>1, <1>3, SharingFacts
<1>5. ASSUME NEW k \in S
      PROVE  h[k] = f[k] + g[k]
  <2>1. SignAs(x, k, r) \in {-1, 1}
    BY ShapeFacts
  <2>2. u[k] \in Int /\ v[k] \in Int /\ w[k] = u[k] + v[k]
    BY DEF Weightings
  <2> QED
    BY <1>3, <2>1, <2>2
<1>6. SumOf(h) = SumOf(f) + SumOf(g)
  BY <1>2, <1>4, <1>5, IntSumAdds
<1> QED
  BY <1>1, <1>3, <1>6 DEF WideOf

LEMMA WideOfNothing ==
  ASSUME NEW x \in Shapes, NEW r \in RowsOf(x), NEW col
  PROVE  WideOf(x, NoWeight, r, col) = 0
<1>1. PICK S \in SUBSET Keys : S = Sharing(r, col)
  BY DEF Sharing
<1>2. IsFiniteSet(S)
  BY FoldAssumption, FS_Subset
<1>3. PICK f : f = [k \in S |-> SignAs(x, k, r) * NoWeight[k]]
  OBVIOUS
<1>4. ASSUME NEW k \in S
      PROVE  f[k] = 0
  <2>1. SignAs(x, k, r) \in {-1, 1}
    BY ShapeFacts
  <2>2. NoWeight[k] = 0
    BY DEF NoWeight
  <2> QED
    BY <1>3, <2>1, <2>2
<1>5. f \in [S -> Int]
  BY <1>3, <1>4
<1>6. SumOf(f) = 0
  BY <1>2, <1>4, <1>5, IntSumOfNothing
<1> QED
  BY <1>1, <1>3, <1>6 DEF WideOf

\* One insert adds to the counter of its key's column and to no other.
LEMMA WideBumps ==
  ASSUME NEW x \in Shapes, NEW r \in RowsOf(x), NEW col, NEW w \in Weightings,
         NEW e \in Keys, NEW delta \in Int
  PROVE  /\ [w EXCEPT ![e] = @ + delta] \in Weightings
         /\ WideOf(x, [w EXCEPT ![e] = @ + delta], r, col)
              = WideOf(x, w, r, col) + IF FullCol(e, r) = col THEN SignAs(x, e, r) * delta ELSE 0
<1>1. PICK u : u = [w EXCEPT ![e] = @ + delta]
  OBVIOUS
<1>2. PICK v : v = [k \in Keys |-> IF k = e THEN delta ELSE 0]
  OBVIOUS
<1>3. u \in Weightings /\ v \in Weightings /\ \A k \in Keys : u[k] = w[k] + v[k]
  BY <1>1, <1>2 DEF Weightings
<1>4. WideOf(x, u, r, col) = WideOf(x, w, r, col) + WideOf(x, v, r, col)
  BY <1>3, WideAdds
<1>5. PICK S \in SUBSET Keys : S = Sharing(r, col)
  BY DEF Sharing
<1>6. IsFiniteSet(S)
  BY FoldAssumption, FS_Subset
<1>7. PICK f : f = [k \in S |-> SignAs(x, k, r) * v[k]]
  OBVIOUS
<1>8. f \in [S -> Int] /\ WideOf(x, v, r, col) = SumOf(f)
  BY <1>3, <1>5, <1>7, SharingFacts DEF WideOf
<1>9. \A k \in S : k # e => f[k] = 0
  <2>1. ASSUME NEW k \in S, k # e
        PROVE  f[k] = 0
    <3>1. SignAs(x, k, r) \in {-1, 1} /\ v[k] = 0
      BY <1>2, <2>1, ShapeFacts
    <3> QED
      BY <1>7, <3>1
  <2> QED
    BY <2>1
<1>10. CASE e \in S
  <2>1. SumOf(f) = f[e]
    BY <1>6, <1>8, <1>9, <1>10, IntSumOfOne
  <2>2. f[e] = SignAs(x, e, r) * delta /\ FullCol(e, r) = col
    BY <1>2, <1>5, <1>7, <1>10 DEF Sharing
  <2> QED
    BY <1>1, <1>3, <1>4, <1>8, <2>1, <2>2
<1>11. CASE e \notin S
  <2>1. SumOf(f) = 0
    BY <1>6, <1>8, <1>9, <1>11, IntSumOfNothing
  <2>2. FullCol(e, r) # col
    BY <1>5, <1>11 DEF Sharing
  <2> QED
    BY <1>1, <1>3, <1>4, <1>8, <2>1, <2>2
<1> QED
  BY <1>10, <1>11

(***************************************************************************)
(* The cells that hold, tag by tag, the counters of the sketch of full     *)
(* width that was given the weights w, each in the column of its tag.      *)
(***************************************************************************)
ExactRow(x, level, row, w, r) ==
  /\ row \in [0..(FoldCols(level) - 1) -> Cell]
  /\ InPlace(row, FoldCols(level))
  /\ \A t \in Tags : CellQuery(row[t % FoldCols(level)], t) = WideOf(x, w, r, t)

Exact(x, level, cells, w) ==
  /\ level \in Levels
  /\ w \in Weightings
  /\ cells = [r \in RowsOf(x) |-> cells[r]]
  /\ \A r \in RowsOf(x) : ExactRow(x, level, cells[r], w, r)

LEMMA FoldColFacts ==
  ASSUME NEW level \in Levels, NEW t \in Tags
  PROVE  /\ FoldCols(level) \in Nat \ {0}
         /\ t % FoldCols(level) \in 0..(FoldCols(level) - 1)
<1>1. PICK n \in Nat \ {0} : n = FoldCols(level)
  BY ColFacts
<1>2. t \in Nat
  BY ColFacts DEF Tags
<1>3. t % n \in 0..(n - 1)
  BY <1>1, <1>2
<1> QED
  BY <1>1, <1>3

LEMMA EmptyExact ==
  ASSUME shape \in Shapes, NEW level \in Levels
  PROVE  Exact(shape, level, EmptyCells(level), NoWeight)
<1>1. PICK row : row = [c \in 0..(FoldCols(level) - 1) |-> EmptyCell]
  OBVIOUS
<1>2. ASSUME NEW r \in RowsOf(shape)
      PROVE  ExactRow(shape, level, row, NoWeight, r)
  <2>1. row \in [0..(FoldCols(level) - 1) -> Cell]
    BY <1>1, EmptyCellFacts
  <2>2. InPlace(row, FoldCols(level))
    BY <1>1, EmptyCellFacts DEF InPlace
  <2>3. ASSUME NEW t \in Tags
        PROVE  CellQuery(row[t % FoldCols(level)], t) = WideOf(shape, NoWeight, r, t)
    <3>1. row[t % FoldCols(level)] = EmptyCell
      BY <1>1, FoldColFacts
    <3> QED
      BY <3>1, EmptyCellFacts, WideOfNothing
  <2> QED
    BY <2>1, <2>2, <2>3 DEF ExactRow
<1>3. EmptyCells(level) = [r \in RowsOf(shape) |-> row]
  BY <1>1 DEF EmptyCells, Rows, RowsOf
<1>4. NoWeight \in Weightings
  BY DEF NoWeight, Weightings
<1> QED
  BY <1>2, <1>3, <1>4 DEF Exact

LEMMA InsertedExact ==
  ASSUME shape \in Shapes, NEW level, NEW cells, NEW w,
         Exact(shape, level, cells, w), NEW k \in Keys, NEW delta \in Int
  PROVE  Exact(shape, level, Inserted(level, cells, k, delta), [w EXCEPT ![k] = @ + delta])
<1>1. level \in Levels /\ w \in Weightings
  BY DEF Exact
<1>2. PICK v \in Weightings : v = [w EXCEPT ![k] = @ + delta]
  <2>1. w \in [Keys -> Int] /\ w[k] \in Int
    BY <1>1 DEF Weightings
  <2>2. [w EXCEPT ![k] = w[k] + delta] \in [Keys -> Int]
    BY <2>1
  <2> QED
    BY <2>2 DEF Weightings
<1>3. ASSUME NEW r \in RowsOf(shape),
             NEW row, row = [cells[r] EXCEPT ![FoldCol(level, FullCol(k, r))] =
                               CellInsert(@, FullCol(k, r), SignOf(k, r) * delta)]
      PROVE  ExactRow(shape, level, row, v, r)
  <2>1. PICK n \in Nat \ {0} : n = FoldCols(level)
    BY <1>1, ColFacts
  <2>2. PICK old : old = cells[r]
    OBVIOUS
  <2>3. /\ old \in [0..(n - 1) -> Cell]
        /\ InPlace(old, n)
        /\ \A t \in Tags : CellQuery(old[t % n], t) = WideOf(shape, w, r, t)
    BY <2>1, <2>2 DEF Exact, ExactRow
  <2>4. PICK tag \in Tags : tag = FullCol(k, r)
    BY <1>1, ColumnFacts
  <2>5. PICK c \in 0..(n - 1) : c = tag % n
    BY <1>1, <2>1, FoldColFacts
  <2>6. PICK d : d = SignOf(k, r) * delta
    OBVIOUS
  <2>7. d \in Int /\ d = SignAs(shape, k, r) * delta
    <3>1. SignAs(shape, k, r) \in {-1, 1} /\ SignAs(shape, k, r) = SignOf(k, r)
      BY ShapeFacts DEF SignAs, SignOf
    <3> QED
      BY <2>6, <3>1
  <2>8. row = [old EXCEPT ![c] = CellInsert(old[c], tag, d)]
    BY <1>3, <2>1, <2>2, <2>4, <2>5, <2>6 DEF FoldCol
  <2>9. PICK new : new = CellInsert(old[c], tag, d)
    OBVIOUS
  <2>10. PICK part \in Cell : part = old[c]
    BY <2>3
  <2>11. /\ new \in Cell
         /\ DOMAIN new = DOMAIN part \cup {tag}
         /\ \A t : CellQuery(new, t) = CellQuery(part, t) + IF t = tag THEN d ELSE 0
    <3>1. /\ CellInsert(part, tag, d) \in Cell
          /\ DOMAIN CellInsert(part, tag, d) = DOMAIN part \cup {tag}
          /\ \A t : CellQuery(CellInsert(part, tag, d), t)
                      = CellQuery(part, t) + IF t = tag THEN d ELSE 0
      BY <2>7, CellInsertFacts
    <3> QED
      BY <2>9, <2>10, <3>1
  <2>12. row \in [0..(n - 1) -> Cell]
    BY <2>3, <2>8, <2>9, <2>11
  <2>13. InPlace(row, n)
    BY <2>3, <2>5, <2>8, <2>9, <2>10, <2>11, <2>12 DEF InPlace
  <2>14. ASSUME NEW t \in Tags
         PROVE  CellQuery(row[t % n], t) = WideOf(shape, v, r, t)
    <3>1. PICK y \in 0..(n - 1) : y = t % n
      BY <1>1, <2>1, FoldColFacts
    <3>2. WideOf(shape, v, r, t)
            = WideOf(shape, w, r, t) + IF tag = t THEN d ELSE 0
      <4>1. WideOf(shape, [w EXCEPT ![k] = @ + delta], r, t)
              = WideOf(shape, w, r, t)
                  + IF FullCol(k, r) = t THEN SignAs(shape, k, r) * delta ELSE 0
        BY <1>1, WideBumps
      <4> QED
        BY <1>2, <2>4, <2>7, <4>1
    <3>3. CellQuery(old[y], t) = WideOf(shape, w, r, t) /\ WideOf(shape, w, r, t) \in Int
      BY <1>1, <2>3, <3>1, SharingFacts
    <3>4. CASE y = c
      <4>1. row[y] = new /\ part = old[y]
        BY <2>3, <2>8, <2>9, <2>10, <3>4
      <4>2. CellQuery(row[y], t) = CellQuery(old[y], t) + IF t = tag THEN d ELSE 0
        BY <2>11, <4>1
      <4> QED
        BY <3>1, <3>2, <3>3, <4>2
    <3>5. CASE y # c
      <4>1. row[y] = old[y]
        BY <2>3, <2>8, <3>5
      <4>2. t # tag
        BY <2>5, <3>1, <3>5
      <4> QED
        BY <3>1, <3>2, <3>3, <4>1, <4>2
    <3> QED
      BY <3>4, <3>5
  <2> QED
    BY <2>1, <2>12, <2>13, <2>14 DEF ExactRow
<1>4. PICK out : out = Inserted(level, cells, k, delta)
  OBVIOUS
<1>5. out = [r \in RowsOf(shape) |->
               [cells[r] EXCEPT ![FoldCol(level, FullCol(k, r))] =
                  CellInsert(@, FullCol(k, r), SignOf(k, r) * delta)]]
  BY <1>4 DEF Inserted, Rows, RowsOf
<1>6. \A r \in RowsOf(shape) : ExactRow(shape, level, out[r], v, r)
  BY <1>3, <1>5
<1>7. out = [r \in RowsOf(shape) |-> out[r]]
  BY <1>5
<1> QED
  BY <1>1, <1>2, <1>4, <1>6, <1>7 DEF Exact

LEMMA ScatteredExact ==
  ASSUME shape \in Shapes, NEW from, NEW v, Exact(shape, from.level, from.cells, v),
         NEW level, NEW cells, NEW w, Exact(shape, level, cells, w)
  PROVE  Exact(shape, level, Scattered(from, level, cells), [k \in Keys |-> w[k] + v[k]])
<1>1. level \in Levels /\ w \in Weightings /\ from.level \in Levels /\ v \in Weightings
  BY DEF Exact
<1>2. PICK u : u = [k \in Keys |-> w[k] + v[k]]
  OBVIOUS
<1>3. u \in Weightings /\ \A k \in Keys : u[k] = w[k] + v[k]
  BY <1>1, <1>2 DEF Weightings
<1>4. PICK n \in Nat \ {0} : n = FoldCols(level)
  BY <1>1, ColFacts
<1>5. PICK src \in Nat \ {0} : src = FoldCols(from.level)
  BY <1>1, ColFacts
<1>6. ASSUME NEW r \in RowsOf(shape),
             NEW row, row = [c \in DOMAIN cells[r] |-> Poured(from.cells[r], cells[r][c], c, n)]
      PROVE  ExactRow(shape, level, row, u, r)
  <2>1. PICK old : old = cells[r]
    OBVIOUS
  <2>2. /\ old \in [0..(n - 1) -> Cell]
        /\ InPlace(old, n)
        /\ \A t \in Tags : CellQuery(old[t % n], t) = WideOf(shape, w, r, t)
    BY <1>4, <2>1 DEF Exact, ExactRow
  <2>3. PICK more : more = from.cells[r]
    OBVIOUS
  <2>4. /\ more \in [0..(src - 1) -> Cell]
        /\ InPlace(more, src)
        /\ \A t \in Tags : CellQuery(more[t % src], t) = WideOf(shape, v, r, t)
    BY <1>5, <2>3 DEF Exact, ExactRow
  <2>5. ASSUME NEW c \in 0..(n - 1)
        PROVE  PouredRow(more, src, old[c], c, n, 0..(src - 1), row[c])
    <3>1. row[c] = Poured(more, old[c], c, n)
      BY <1>6, <2>1, <2>2, <2>3
    <3>2. old[c] \in Cell /\ \A t \in DOMAIN old[c] : t % n = c
      BY <2>2 DEF InPlace
    <3> QED
      BY <2>4, <3>1, <3>2, PouredFacts
  <2>6. \A c \in 0..(n - 1) : row[c] \in Cell /\ \A t \in DOMAIN row[c] : t % n = c
    BY <2>5 DEF PouredRow
  <2>7. DOMAIN row = 0..(n - 1) /\ row = [c \in 0..(n - 1) |-> row[c]]
    BY <1>6, <2>1, <2>2
  <2>8. row \in [0..(n - 1) -> Cell] /\ InPlace(row, n)
    BY <2>6, <2>7 DEF InPlace
  <2>9. ASSUME NEW t \in Tags
        PROVE  CellQuery(row[t % n], t) = WideOf(shape, u, r, t)
    <3>1. PICK c \in 0..(n - 1) : c = t % n
      BY <1>1, <1>4, FoldColFacts
    <3>2. t % src \in 0..(src - 1)
      BY <1>1, <1>5, FoldColFacts
    <3>3. CellQuery(row[c], t) = CellQuery(old[c], t) + CellQuery(more[t % src], t)
      BY <2>5, <3>1, <3>2 DEF PouredRow
    <3>4. WideOf(shape, u, r, t) = WideOf(shape, w, r, t) + WideOf(shape, v, r, t)
      BY <1>1, <1>3, WideAdds
    <3> QED
      BY <2>2, <2>4, <3>1, <3>3, <3>4
  <2> QED
    BY <1>4, <2>8, <2>9 DEF ExactRow
<1>7. PICK out : out = Scattered(from, level, cells)
  OBVIOUS
<1>8. out = [r \in RowsOf(shape) |->
               [c \in DOMAIN cells[r] |-> Poured(from.cells[r], cells[r][c], c, n)]]
  BY <1>4, <1>7 DEF Scattered, Rows, RowsOf
<1>9. \A r \in RowsOf(shape) : ExactRow(shape, level, out[r], u, r)
  BY <1>6, <1>8
<1>10. out = [r \in RowsOf(shape) |-> out[r]]
  BY <1>8
<1> QED
  BY <1>1, <1>2, <1>3, <1>7, <1>9, <1>10 DEF Exact

(***************************************************************************)
(* Numbers in order.                                                       *)
(***************************************************************************)
Under(v, x) == {i \in DOMAIN v : v[i] < x}
UpTo(v, x)  == {i \in DOMAIN v : v[i] <= x}

\* x is at this place of v in order.
IsAt(v, place, x) ==
  /\ x \in {v[i] : i \in DOMAIN v}
  /\ Cardinality(Under(v, x)) < place
  /\ place <= Cardinality(UpTo(v, x))

LEMMA UnderFacts ==
  ASSUME NEW n \in Nat, NEW v \in [1..n -> Int], NEW x
  PROVE  /\ Under(v, x) \in SUBSET (1..n) /\ UpTo(v, x) \in SUBSET (1..n)
         /\ IsFiniteSet(Under(v, x)) /\ IsFiniteSet(UpTo(v, x)) /\ IsFiniteSet(1..n)
         /\ Cardinality(Under(v, x)) \in Nat /\ Cardinality(UpTo(v, x)) \in 0..n
<1>1. IsFiniteSet(1..n) /\ Cardinality(1..n) = n
  BY FS_Interval
<1>2. Under(v, x) \in SUBSET (1..n) /\ UpTo(v, x) \in SUBSET (1..n)
  BY DEF Under, UpTo
<1>3. IsFiniteSet(Under(v, x)) /\ IsFiniteSet(UpTo(v, x)) /\ Cardinality(UpTo(v, x)) <= n
  BY <1>1, <1>2, FS_Subset
<1>4. Cardinality(Under(v, x)) \in Nat /\ Cardinality(UpTo(v, x)) \in Nat
  BY <1>3, FS_CardinalityType
<1> QED
  BY <1>1, <1>2, <1>3, <1>4

LEMMA PlacesApart ==
  ASSUME NEW n \in Nat, NEW v \in [1..n -> Int], NEW place \in Int, NEW x, NEW y,
         IsAt(v, place, x), IsAt(v, place, y)
  PROVE  ~ (x < y)
<1>1. x \in Int /\ y \in Int
  BY DEF IsAt
<1>2. SUFFICES ASSUME x < y
               PROVE  FALSE
  OBVIOUS
<1>3. UpTo(v, x) \subseteq Under(v, y)
  BY <1>1, <1>2 DEF UpTo, Under
<1>4. Cardinality(UpTo(v, x)) <= Cardinality(Under(v, y))
  BY <1>3, UnderFacts, FS_Subset
<1>5. Cardinality(UpTo(v, x)) \in Nat /\ Cardinality(Under(v, y)) \in Nat
  BY UnderFacts
<1> QED
  BY <1>4, <1>5 DEF IsAt

LEMMA OrderedIsAt ==
  ASSUME NEW n \in Nat, NEW v \in [1..n -> Int], NEW place \in Int, NEW x, IsAt(v, place, x)
  PROVE  Ordered(v, place) = x
<1>1. x \in {v[i] : i \in DOMAIN v} /\ Cardinality(Under(v, x)) < place
      /\ place <= Cardinality(UpTo(v, x))
  BY DEF IsAt
<1>2. PICK y : y = Ordered(v, place)
  OBVIOUS
<1>3. /\ y \in {v[i] : i \in DOMAIN v}
      /\ Cardinality(Under(v, y)) < place /\ place <= Cardinality(UpTo(v, y))
  <2>1. y = CHOOSE z \in {v[i] : i \in DOMAIN v} :
               /\ Cardinality(Under(v, z)) < place
               /\ place <= Cardinality(UpTo(v, z))
    BY <1>2, Zenon DEF Ordered, Under, UpTo
  <2> QED
    BY <1>1, <2>1
<1>4. IsAt(v, place, y)
  BY <1>3 DEF IsAt
<1>5. ~ (x < y) /\ ~ (y < x)
  BY <1>4, PlacesApart
<1>6. x \in Int /\ y \in Int
  BY <1>1, <1>3
<1> QED
  BY <1>2, <1>5, <1>6

\* With place - 1 others that are at most v[i], and no other that is less.
LEMMA OrderedIs ==
  ASSUME NEW n \in Nat, NEW v \in [1..n -> Int], NEW i \in 1..n,
         NEW L \in SUBSET (1..n), i \notin L,
         \A l \in L : v[l] <= v[i], \A u \in (1..n) \ L : v[i] <= v[u]
  PROVE  Ordered(v, Cardinality(L) + 1) = v[i]
<1>1. PICK x \in Int : x = v[i]
  OBVIOUS
<1>2. IsFiniteSet(1..n) /\ IsFiniteSet(L)
  BY UnderFacts, FS_Subset
<1>3. Cardinality(L) \in Nat /\ IsFiniteSet(L \cup {i}) /\ Cardinality(L \cup {i}) = Cardinality(L) + 1
  BY <1>2, FS_CardinalityType, FS_AddElement
<1>4. Under(v, x) \subseteq L /\ L \cup {i} \subseteq UpTo(v, x)
  BY <1>1 DEF Under, UpTo
<1>5. Cardinality(Under(v, x)) <= Cardinality(L)
  BY <1>2, <1>4, FS_Subset
<1>6. Cardinality(L) + 1 <= Cardinality(UpTo(v, x))
  <2>1. PICK U : U = UpTo(v, x)
    OBVIOUS
  <2>2. IsFiniteSet(U) /\ L \cup {i} \in SUBSET U
    BY <1>4, <2>1, UnderFacts
  <2>3. Cardinality(L \cup {i}) <= Cardinality(U)
    BY <2>2, FS_Subset
  <2> QED
    BY <1>3, <2>1, <2>3
<1>7. Cardinality(Under(v, x)) \in Nat
  BY UnderFacts
<1>8. IsAt(v, Cardinality(L) + 1, x)
  BY <1>1, <1>3, <1>5, <1>6, <1>7 DEF IsAt
<1> QED
  BY <1>1, <1>3, <1>8, OrderedIsAt

\* Every place of a row of numbers is taken.
LEMMA OrderedExists ==
  ASSUME NEW n \in Nat, NEW v \in [1..n -> Int], NEW place \in 1..n
  PROVE  Ordered(v, place) \in Int
<1> DEFINE Count(i) == Cardinality(UpTo(v, v[i]))
           Enough == {c \in Nat : \E i \in 1..n : c = Count(i) /\ place <= c}
<1>1. ASSUME NEW i \in 1..n
      PROVE  Count(i) \in 1..n
  <2>1. PICK U : U = UpTo(v, v[i])
    OBVIOUS
  <2>2. IsFiniteSet(U) /\ Cardinality(U) \in 0..n
    BY <2>1, UnderFacts
  <2>3. i \in U
    BY <2>1 DEF UpTo
  <2>4. Cardinality(U) # 0
    BY <2>2, <2>3, FS_EmptySet
  <2> QED
    BY <2>1, <2>2, <2>4
<1>2. \A i, j \in 1..n : v[i] < v[j] => Count(i) < Count(j)
  <2>1. ASSUME NEW i \in 1..n, NEW j \in 1..n, v[i] < v[j]
        PROVE  Count(i) < Count(j)
    <3>1. UpTo(v, v[i]) \subseteq UpTo(v, v[j]) /\ j \in UpTo(v, v[j]) /\ j \notin UpTo(v, v[i])
      BY <2>1 DEF UpTo
    <3>2. UpTo(v, v[i]) # UpTo(v, v[j])
      BY <3>1
    <3>3. Count(i) <= Count(j) /\ Count(i) # Count(j)
      BY <3>1, <3>2, UnderFacts, FS_Subset
    <3> QED
      BY <1>1, <3>3
  <2> QED
    BY <2>1
<1>3. PICK top \in 1..n : \A j \in 1..n : v[j] <= v[top]
  <2>1. PICK T : T = {Count(i) : i \in 1..n}
    OBVIOUS
  <2>3. T \in SUBSET (1..n) /\ T # {} /\ \A i \in 1..n : Count(i) \in T
    BY <1>1, <2>1
  <2> HIDE DEF Count
  <2>4. PICK c \in T : \A d \in T : d <= c
    BY <2>3, GreatestNumber
  <2>5. PICK i \in 1..n : Count(i) = c
    BY <2>1
  <2>6. ASSUME NEW j \in 1..n
        PROVE  v[j] <= v[i]
    <3>1. Count(j) <= Count(i)
      BY <2>3, <2>4, <2>5
    <3>2. ~ (v[i] < v[j])
      BY <1>1, <1>2, <3>1
    <3> QED
      BY <3>2
  <2> QED
    BY <2>6
<1>4. Count(top) = n
  <2>1. UpTo(v, v[top]) = 1..n
    BY <1>3 DEF UpTo
  <2> QED
    BY <2>1, FS_Interval
<1>5. Enough \in SUBSET Nat /\ Enough # {}
  <2>1. n \in Enough
    BY <1>4
  <2> QED
    BY <2>1
<1>6. PICK c \in Enough : \A d \in Enough : c <= d
  <2> HIDE DEF Enough
  <2> QED
    BY <1>5, LeastNumber
<1>7. PICK i \in 1..n : c = Count(i) /\ place <= c
  OBVIOUS
<1>8. Cardinality(Under(v, v[i])) < place
  <2>1. SUFFICES ASSUME ~ (Cardinality(Under(v, v[i])) < place)
                 PROVE  FALSE
    OBVIOUS
  <2>2. PICK low \in SUBSET (1..n) : low = Under(v, v[i])
    BY UnderFacts
  <2>3. IsFiniteSet(low) /\ Cardinality(low) \in Nat /\ place <= Cardinality(low)
    BY <2>1, <2>2, UnderFacts
  <2>4. low # {}
    BY <2>3, FS_EmptySet
  <2>5. PICK T : T = {Count(j) : j \in low}
    OBVIOUS
  <2>7. T \in SUBSET (1..n) /\ T # {} /\ \A j \in low : Count(j) \in T
    BY <1>1, <2>4, <2>5
  <2>8. PICK d \in T : \A e \in T : e <= d
    BY <2>7, GreatestNumber
  <2>9. PICK j \in low : Count(j) = d
    BY <2>5
  <2>10. ASSUME NEW l \in low
         PROVE  v[l] <= v[j]
    <3>1. Count(l) <= Count(j)
      BY <2>7, <2>8, <2>9
    <3>2. ~ (v[j] < v[l])
      BY <1>1, <1>2, <3>1
    <3> QED
      BY <3>2
  <2>11. low \subseteq UpTo(v, v[j])
    BY <2>10 DEF UpTo
  <2>12. Cardinality(low) <= Count(j)
    BY <2>11, UnderFacts, FS_Subset
  <2>13. Count(j) \in Enough
    <3>1. j \in 1..n /\ Count(j) \in Nat
      BY <1>1
    <3> HIDE DEF Count
    <3>2. place <= Count(j)
      BY <2>3, <2>12, <3>1
    <3> QED
      BY <3>1, <3>2
  <2>14. v[j] < v[i]
    BY <2>2 DEF Under
  <2>15. Count(j) < Count(i) /\ Count(i) <= Count(j)
    <3>1. Count(j) < Count(i)
      BY <1>2, <2>14
    <3> HIDE DEF Enough
    <3> QED
      BY <1>6, <1>7, <2>13, <3>1
  <2> QED
    BY <1>1, <2>15
<1>9. IsAt(v, place, v[i])
  BY <1>7, <1>8 DEF IsAt
<1>10. Ordered(v, place) = v[i]
  BY <1>9, OrderedIsAt
<1> QED
  BY <1>10

(***************************************************************************)
(* The medians of up to five rows.                                         *)
(***************************************************************************)
\* i comes after those of L and before all others.
After(v, n, L, i) ==
  /\ L \in SUBSET (1..n) /\ i \in 1..n /\ i \notin L
  /\ \A l \in L : v[l] <= v[i]
  /\ \A u \in (1..n) \ L : v[i] <= v[u]

AfterTwo(v, n, b, l, i) == b # l /\ After(v, n, {b, l}, i)

\* What is at the first places of a row, by who is before it.
LEMMA ThirdPlace ==
  ASSUME NEW n \in Nat, NEW v \in [1..n -> Int],
         NEW b, NEW l, NEW i, AfterTwo(v, n, b, l, i)
  PROVE  Ordered(v, 3) = v[i]
<1> USE DEF AfterTwo
<1>1. Cardinality({b, l}) = 2
  <2>1. IsFiniteSet({b}) /\ Cardinality({b}) = 1 /\ l \notin {b}
    BY FS_Singleton
  <2>2. Cardinality({b} \cup {l}) = Cardinality({b}) + 1
    BY <2>1, FS_AddElement
  <2>3. {b} \cup {l} = {b, l}
    OBVIOUS
  <2> QED
    BY <2>1, <2>2, <2>3
<1>2. PICK L : L = {b, l}
  OBVIOUS
<1>3. Ordered(v, Cardinality(L) + 1) = v[i]
  BY <1>2, OrderedIs DEF After
<1> QED
  BY <1>1, <1>2, <1>3

LEMMA SecondPlace ==
  ASSUME NEW n \in Nat, NEW v \in [1..n -> Int],
         NEW l, NEW i, After(v, n, {l}, i)
  PROVE  Ordered(v, 2) = v[i]
<1>1. Cardinality({l}) = 1
  BY FS_Singleton
<1>2. PICK L : L = {l}
  OBVIOUS
<1>3. Ordered(v, Cardinality(L) + 1) = v[i]
  BY <1>2, OrderedIs DEF After
<1> QED
  BY <1>1, <1>2, <1>3

LEMMA FirstPlace ==
  ASSUME NEW n \in Nat, NEW v \in [1..n -> Int], NEW i, After(v, n, {}, i)
  PROVE  Ordered(v, 1) = v[i]
<1>1. Cardinality({}) = 0
  BY FS_EmptySet
<1>2. PICK L : L = {}
  OBVIOUS
<1>3. Ordered(v, Cardinality(L) + 1) = v[i]
  BY <1>2, OrderedIs DEF After
<1> QED
  BY <1>1, <1>2, <1>3

LEMMA MedianOfThree ==
  ASSUME NEW v \in [1..3 -> Int]
  PROVE  Ordered(v, 2) = MidOfThree(v[1], v[2], v[3])
<1>1. \E l, i, u \in 1..3 : /\ l # i /\ l # u /\ i # u
                            /\ v[l] <= v[i] /\ v[i] <= v[u]
                            /\ MidOfThree(v[1], v[2], v[3]) = v[i]
  <2>1. PICK a \in Int, b \in Int, c \in Int : a = v[1] /\ b = v[2] /\ c = v[3]
    OBVIOUS
  <2>2. MidOfThree(a, b, c) \in {a, b, c}
    BY DEF MidOfThree, Larger, Smaller
  <2>3. \/ MidOfThree(a, b, c) = a /\ ((b <= a /\ a <= c) \/ (c <= a /\ a <= b))
        \/ MidOfThree(a, b, c) = b /\ ((a <= b /\ b <= c) \/ (c <= b /\ b <= a))
        \/ MidOfThree(a, b, c) = c /\ ((a <= c /\ c <= b) \/ (b <= c /\ c <= a))
    BY DEF MidOfThree, Larger, Smaller
  <2> QED
    BY <2>1, <2>3
<1>2. PICK l, i, u \in 1..3 : /\ l # i /\ l # u /\ i # u
                              /\ v[l] <= v[i] /\ v[i] <= v[u]
                              /\ MidOfThree(v[1], v[2], v[3]) = v[i]
  BY <1>1
<1>3. \A x \in (1..3) \ {l} : v[i] <= v[x]
  <2>1. \A x \in (1..3) \ {l} : x = i \/ x = u
    BY <1>2
  <2> QED
    BY <1>2, <2>1
<1>4. After(v, 3, {l}, i)
  BY <1>2, <1>3 DEF After
<1>5. Ordered(v, 2) = v[i]
  BY <1>4, SecondPlace
<1> QED
  BY <1>2, <1>5

\* Two pairs, the heads of both pairs and the tails of both compared.
Network(v, b, c, d, a) ==
  /\ v[b] <= v[c] /\ v[b] <= v[d] /\ v[c] <= v[a] /\ v[d] <= v[a]
  /\ b # c /\ b # d /\ b # a /\ c # d /\ c # a /\ d # a

FourNumbers(v, p, q, r, s) ==
  /\ p # q /\ p # r /\ p # s /\ q # r /\ q # s /\ r # s
  /\ v[p] \in Int /\ v[q] \in Int /\ v[r] \in Int /\ v[s] \in Int

Networked(v, p, q, r, s, b, c, d, a) ==
  /\ Network(v, b, c, d, a)
  /\ Smaller(Larger(v[p], v[q]), Larger(v[r], v[s])) = v[c]
  /\ Larger(Smaller(v[p], v[q]), Smaller(v[r], v[s])) = v[d]

LEMMA NetworkOf ==
  ASSUME NEW v, NEW p, NEW q, NEW r, NEW s, FourNumbers(v, p, q, r, s)
  PROVE  \E b, c, d, a \in {p, q, r, s} : Networked(v, p, q, r, s, b, c, d, a)
<1> USE DEF FourNumbers
<1>1. PICK i, j \in {p, q} : /\ i # j /\ v[i] <= v[j]
                             /\ Smaller(v[p], v[q]) = v[i] /\ Larger(v[p], v[q]) = v[j]
  <2>1. CASE v[p] <= v[q]
    <3>1. Smaller(v[p], v[q]) = v[p] /\ Larger(v[p], v[q]) = v[q]
      BY <2>1 DEF Smaller, Larger
    <3> QED
      BY <2>1, <3>1
  <2>2. CASE ~ (v[p] <= v[q])
    <3>1. Smaller(v[p], v[q]) = v[q] /\ Larger(v[p], v[q]) = v[p] /\ v[q] <= v[p]
      BY <2>2 DEF Smaller, Larger
    <3> QED
      BY <3>1
  <2> QED
    BY <2>1, <2>2
<1>2. PICK k, l \in {r, s} : /\ k # l /\ v[k] <= v[l]
                             /\ Smaller(v[r], v[s]) = v[k] /\ Larger(v[r], v[s]) = v[l]
  <2>1. CASE v[r] <= v[s]
    <3>1. Smaller(v[r], v[s]) = v[r] /\ Larger(v[r], v[s]) = v[s]
      BY <2>1 DEF Smaller, Larger
    <3> QED
      BY <2>1, <3>1
  <2>2. CASE ~ (v[r] <= v[s])
    <3>1. Smaller(v[r], v[s]) = v[s] /\ Larger(v[r], v[s]) = v[r] /\ v[s] <= v[r]
      BY <2>2 DEF Smaller, Larger
    <3> QED
      BY <3>1
  <2> QED
    BY <2>1, <2>2
<1>3. v[i] \in Int /\ v[j] \in Int /\ v[k] \in Int /\ v[l] \in Int
  OBVIOUS
<1>4. PICK c, a \in {j, l} : c # a /\ v[c] <= v[a] /\ Smaller(v[j], v[l]) = v[c]
  <2>1. j # l
    OBVIOUS
  <2>2. CASE v[j] <= v[l]
    <3>1. Smaller(v[j], v[l]) = v[j]
      BY <2>2, <1>3 DEF Smaller
    <3> QED
      BY <2>1, <2>2, <3>1
  <2>3. CASE ~ (v[j] <= v[l])
    <3>1. Smaller(v[j], v[l]) = v[l] /\ v[l] <= v[j]
      BY <2>3, <1>3 DEF Smaller
    <3> QED
      BY <2>1, <3>1
  <2> QED
    BY <2>2, <2>3
<1>5. PICK b, d \in {i, k} : b # d /\ v[b] <= v[d] /\ Larger(v[i], v[k]) = v[d]
  <2>1. i # k
    OBVIOUS
  <2>2. CASE v[i] <= v[k]
    <3>1. Larger(v[i], v[k]) = v[k]
      BY <2>2, <1>3 DEF Larger
    <3> QED
      BY <2>1, <2>2, <3>1
  <2>3. CASE ~ (v[i] <= v[k])
    <3>1. Larger(v[i], v[k]) = v[i] /\ v[k] <= v[i]
      BY <2>3, <1>3 DEF Larger
    <3> QED
      BY <2>1, <3>1
  <2> QED
    BY <2>2, <2>3
<1>6. v[b] <= v[c] /\ v[d] <= v[a]
  BY <1>1, <1>2, <1>3, <1>4, <1>5
<1>7. i # l /\ k # j
  OBVIOUS
<1>8. b # c /\ b # a /\ c # d /\ d # a
  BY <1>1, <1>2, <1>4, <1>5, <1>7
<1>9. Network(v, b, c, d, a)
  BY <1>4, <1>5, <1>6, <1>8 DEF Network
<1>10. b \in {p, q, r, s} /\ c \in {p, q, r, s} /\ d \in {p, q, r, s} /\ a \in {p, q, r, s}
  OBVIOUS
<1>11. Networked(v, p, q, r, s, b, c, d, a)
  BY <1>1, <1>2, <1>4, <1>5, <1>9 DEF Networked
<1> QED
  BY <1>10, <1>11

\* compute_median_inline_f64 takes what a sort would put in the middle.
LEMMA MedianIsMiddle ==
  ASSUME NEW n \in Nat \ {0}, NEW v \in [1..n -> Int]
  PROVE  Median(v) = Middle(v)
<1>1. Len(v) = n
  <2>1. v \in Seq(Int)
    OBVIOUS
  <2>2. DOMAIN v = 1..Len(v) /\ DOMAIN v = 1..n /\ Len(v) \in Nat
    BY <2>1
  <2> QED
    BY <2>2
<1>2. CASE n = 1
  <2>1. Ordered(v, 1) = v[1]
    <3>1. After(v, n, {}, 1)
      BY <1>2 DEF After
    <3> QED
      BY <3>1, FirstPlace
  <2>2. Median(v) = v[1]
    BY <1>1, <1>2 DEF Median
  <2>3. Middle(v) = Ordered(v, 1)
    <3>1. Len(v) \div 2 = 0 /\ Len(v) % 2 = 1
      BY <1>1, <1>2
    <3> QED
      BY <3>1 DEF Middle
  <2> QED
    BY <2>1, <2>2, <2>3
<1>3. CASE n = 2
  <2>1. Median(v) = Halved(v[1] + v[2])
    BY <1>1, <1>3 DEF Median
  <2>2. Middle(v) = Halved(Ordered(v, 1) + Ordered(v, 2))
    <3>1. Len(v) \div 2 = 1 /\ Len(v) % 2 = 0
      BY <1>1, <1>3
    <3> QED
      BY <3>1 DEF Middle
  <2>3. PICK a, b \in 1..2 : a # b /\ v[a] <= v[b] /\ v[a] + v[b] = v[1] + v[2]
    <3>1. v[1] \in Int /\ v[2] \in Int
      BY <1>3
    <3> QED
      BY <3>1
  <2>4. \A u \in 1..2 : u = a \/ u = b
    BY <2>3
  <2>5. v[a] \in Int /\ v[b] \in Int
    BY <1>3
  <2>6. Ordered(v, 1) = v[a]
    <3>1. After(v, n, {}, a)
      BY <1>3, <2>3, <2>4, <2>5 DEF After
    <3> QED
      BY <3>1, FirstPlace
  <2>7. Ordered(v, 2) = v[b]
    <3>1. After(v, n, {a}, b)
      BY <1>3, <2>3, <2>4, <2>5 DEF After
    <3> QED
      BY <3>1, SecondPlace
  <2> QED
    BY <2>1, <2>2, <2>3, <2>6, <2>7
<1>4. CASE n = 3
  <2>1. Median(v) = MidOfThree(v[1], v[2], v[3])
    BY <1>1, <1>4 DEF Median
  <2>2. Middle(v) = Ordered(v, 2)
    <3>1. Len(v) \div 2 = 1 /\ Len(v) % 2 = 1
      BY <1>1, <1>4
    <3> QED
      BY <3>1 DEF Middle
  <2> QED
    BY <1>4, <2>1, <2>2, MedianOfThree
<1>5. CASE n = 4
  <2>1. Median(v) = Halved(Larger(Smaller(v[1], v[2]), Smaller(v[3], v[4]))
                             + Smaller(Larger(v[1], v[2]), Larger(v[3], v[4])))
    BY <1>1, <1>5 DEF Median
  <2>2. Middle(v) = Halved(Ordered(v, 2) + Ordered(v, 3))
    <3>1. Len(v) \div 2 = 2 /\ Len(v) % 2 = 0
      BY <1>1, <1>5
    <3> QED
      BY <3>1 DEF Middle
  <2>3. PICK b, c, d, a \in {1, 2, 3, 4} :
           /\ Network(v, b, c, d, a)
           /\ Smaller(Larger(v[1], v[2]), Larger(v[3], v[4])) = v[c]
           /\ Larger(Smaller(v[1], v[2]), Smaller(v[3], v[4])) = v[d]
    <3>1. FourNumbers(v, 1, 2, 3, 4)
      BY <1>5 DEF FourNumbers
    <3>2. \E b, c, d, a \in {1, 2, 3, 4} : Networked(v, 1, 2, 3, 4, b, c, d, a)
      BY <3>1, NetworkOf
    <3> QED
      BY <3>2 DEF Networked
  <2>4. b \in 1..n /\ c \in 1..n /\ d \in 1..n /\ a \in 1..n
    BY <1>5
  <2>5. /\ v[b] <= v[c] /\ v[b] <= v[d] /\ v[c] <= v[a] /\ v[d] <= v[a]
        /\ b # c /\ b # d /\ b # a /\ c # d /\ c # a /\ d # a
    BY <2>3 DEF Network
  <2>6. \A u \in 1..n : u \in {a, b, c, d}
    BY <1>5, <2>5
  <2>7. v[a] \in Int /\ v[b] \in Int /\ v[c] \in Int /\ v[d] \in Int
    BY <2>4
  <2>8. ASSUME NEW i \in {c, d}, NEW j \in {c, d}, i # j, v[i] <= v[j]
        PROVE  Ordered(v, 2) = v[i] /\ Ordered(v, 3) = v[j]
    <3>1. i \in 1..n /\ j \in 1..n /\ b # i /\ b # j
      BY <2>4, <2>5
    <3>2. v[b] <= v[i] /\ v[b] <= v[j] /\ v[i] <= v[a] /\ v[j] <= v[a]
      BY <2>5
    <3>3. v[i] \in Int /\ v[j] \in Int
      BY <2>7
    <3>4. \A u \in (1..n) \ {b} : u = a \/ u = i \/ u = j
      BY <2>6, <2>8
    <3>5. After(v, n, {b}, i)
      <4>1. \A u \in (1..n) \ {b} : v[i] <= v[u]
        <5>1. ASSUME NEW u \in (1..n) \ {b}
              PROVE  v[i] <= v[u]
          <6>1. CASE u = a
            BY <3>2, <6>1
          <6>2. CASE u = i
            BY <3>3, <6>2
          <6>3. CASE u = j
            BY <2>8, <6>3
          <6> QED
            BY <3>4, <6>1, <6>2, <6>3
        <5> QED
          BY <5>1
      <4> QED
        BY <2>4, <3>1, <3>2, <4>1 DEF After
    <3>6. After(v, n, {b, i}, j)
      <4>1. \A u \in (1..n) \ {b, i} : v[j] <= v[u]
        <5>1. ASSUME NEW u \in (1..n) \ {b, i}
              PROVE  v[j] <= v[u]
          <6>1. CASE u = a
            BY <3>2, <6>1
          <6>2. CASE u = j
            BY <3>3, <6>2
          <6> QED
            BY <3>4, <6>1, <6>2
        <5> QED
          BY <5>1
      <4>2. v[b] <= v[j] /\ v[i] <= v[j]
        BY <2>8, <3>2
      <4> QED
        <5>1. {b, i} \in SUBSET (1..n) /\ j \in 1..n /\ j \notin {b, i}
          BY <2>4, <2>8, <3>1
        <5>2. \A x \in {b, i} : v[x] <= v[j]
          BY <4>2
        <5> QED
          BY <4>1, <5>1, <5>2 DEF After
    <3>7. Ordered(v, 2) = v[i]
      BY <3>5, SecondPlace, ZenonT(30)
    <3>8. Ordered(v, 3) = v[j]
      <4>1. AfterTwo(v, n, b, i, j)
        BY <3>1, <3>6 DEF AfterTwo
      <4> QED
        BY <4>1, ThirdPlace
    <3> QED
      BY <3>7, <3>8
  <2>9. v[d] + v[c] = v[c] + v[d]
    BY <2>7
  <2>10. CASE v[c] <= v[d]
    <3>1. Ordered(v, 2) = v[c] /\ Ordered(v, 3) = v[d]
      BY <2>5, <2>8, <2>10
    <3> QED
      BY <2>1, <2>2, <2>3, <2>9, <3>1
  <2>11. CASE ~ (v[c] <= v[d])
    <3>1. v[d] <= v[c]
      BY <2>7, <2>11
    <3>2. Ordered(v, 2) = v[d] /\ Ordered(v, 3) = v[c]
      BY <2>5, <2>8, <3>1
    <3> QED
      BY <2>1, <2>2, <2>3, <3>2
  <2> QED
    BY <2>10, <2>11
<1>6. CASE n = 5
  <2>1. Median(v) = MidOfThree(Smaller(Larger(v[1], v[2]), Larger(v[4], v[5])), v[3],
                               Larger(Smaller(v[1], v[2]), Smaller(v[4], v[5])))
    BY <1>1, <1>6 DEF Median
  <2>2. Middle(v) = Ordered(v, 3)
    <3>1. Len(v) \div 2 = 2 /\ Len(v) % 2 = 1
      BY <1>1, <1>6
    <3> QED
      BY <3>1 DEF Middle
  <2>3. PICK b, c, d, a \in {1, 2, 4, 5} :
           /\ Network(v, b, c, d, a)
           /\ Smaller(Larger(v[1], v[2]), Larger(v[4], v[5])) = v[c]
           /\ Larger(Smaller(v[1], v[2]), Smaller(v[4], v[5])) = v[d]
    <3>1. FourNumbers(v, 1, 2, 4, 5)
      BY <1>6 DEF FourNumbers
    <3>2. \E b, c, d, a \in {1, 2, 4, 5} : Networked(v, 1, 2, 4, 5, b, c, d, a)
      BY <3>1, NetworkOf
    <3> QED
      BY <3>2 DEF Networked
  <2>4. b \in 1..n /\ c \in 1..n /\ d \in 1..n /\ a \in 1..n /\ 3 \in 1..n
    BY <1>6
  <2>5. /\ v[b] <= v[c] /\ v[b] <= v[d] /\ v[c] <= v[a] /\ v[d] <= v[a]
        /\ b # c /\ b # d /\ b # a /\ c # d /\ c # a /\ d # a
        /\ b # 3 /\ c # 3 /\ d # 3 /\ a # 3
    BY <2>3 DEF Network
  <2>6. \A u \in 1..n : u \in {a, b, c, d, 3}
    BY <1>6, <2>5
  <2>7. v[a] \in Int /\ v[b] \in Int /\ v[c] \in Int /\ v[d] \in Int /\ v[3] \in Int
    BY <2>4
  <2>8. ASSUME NEW l \in {c, d, 3}, NEW i \in {c, d, 3}, NEW u \in {c, d, 3},
               l # i, l # u, i # u, v[l] <= v[i], v[i] <= v[u],
               MidOfThree(v[c], v[3], v[d]) = v[i]
        PROVE  Ordered(v, 3) = MidOfThree(v[c], v[3], v[d])
    <3>1. /\ l \in 1..n /\ i \in 1..n /\ u \in 1..n /\ b # i /\ b # l /\ b # u
          /\ v[l] \in Int /\ v[i] \in Int /\ v[u] \in Int
      BY <2>4, <2>5, <2>7
    <3>2. v[b] <= v[i] /\ v[i] <= v[a]
      <4>1. CASE i # 3
        BY <2>5, <4>1
      <4>2. CASE i = 3
        <5>1. l # 3 /\ u # 3
          BY <2>8, <4>2
        <5>2. v[b] <= v[l] /\ v[u] <= v[a]
          BY <2>5, <5>1
        <5>3. v[b] \in Int /\ v[l] \in Int /\ v[i] \in Int /\ v[u] \in Int /\ v[a] \in Int
          BY <2>7, <3>1
        <5> QED
          BY ONLY <2>8, <5>2, <5>3, SMTT(20)
      <4> QED
        BY <4>1, <4>2
    <3>3. After(v, n, {b, l}, i)
      <4>1. \A y \in (1..n) \ {b, l} : y = a \/ y = i \/ y = u
        BY <2>5, <2>6, <2>8
      <4>2. \A y \in (1..n) \ {b, l} : v[i] <= v[y]
        <5>1. ASSUME NEW y \in (1..n) \ {b, l}
              PROVE  v[i] <= v[y]
          <6>1. CASE y = a
            BY <3>2, <6>1
          <6>2. CASE y = i
            BY <3>1, <6>2
          <6>3. CASE y = u
            BY <2>8, <6>3
          <6> QED
            BY <4>1, <6>1, <6>2, <6>3
        <5> QED
          BY <5>1
      <4> QED
        <5>1. {b, l} \in SUBSET (1..n) /\ i \in 1..n /\ i \notin {b, l}
          BY <2>4, <2>8, <3>1
        <5>2. \A x \in {b, l} : v[x] <= v[i]
          BY <2>8, <3>2
        <5> QED
          BY <4>2, <5>1, <5>2 DEF After
    <3>4. Ordered(v, 3) = v[i]
      <4>1. AfterTwo(v, n, b, l, i)
        BY <3>1, <3>3 DEF AfterTwo
      <4> QED
        BY <4>1, ThirdPlace
    <3> QED
      BY <2>8, <3>4
  <2>9. PICK p \in Int, q \in Int, r \in Int : p = v[c] /\ q = v[3] /\ r = v[d]
    BY <2>7
  <2>10. \/ MidOfThree(p, q, r) = p /\ ((q <= p /\ p <= r) \/ (r <= p /\ p <= q))
         \/ MidOfThree(p, q, r) = q /\ ((p <= q /\ q <= r) \/ (r <= q /\ q <= p))
         \/ MidOfThree(p, q, r) = r /\ ((p <= r /\ r <= q) \/ (q <= r /\ r <= p))
    BY DEF MidOfThree, Larger, Smaller
  <2>11. \E l, i, u \in {c, d, 3} :
            /\ l # i /\ l # u /\ i # u /\ v[l] <= v[i] /\ v[i] <= v[u]
            /\ MidOfThree(v[c], v[3], v[d]) = v[i]
    BY <2>5, <2>9, <2>10
  <2>12. Ordered(v, 3) = MidOfThree(v[c], v[3], v[d])
    BY <2>8, <2>11
  <2> QED
    BY <2>1, <2>2, <2>3, <2>12
<1>7. CASE n \notin 1..5
  <2>1. Len(v) # 1 /\ Len(v) # 2 /\ Len(v) # 3 /\ Len(v) # 4 /\ Len(v) # 5
    BY <1>1, <1>7
  <2> QED
    BY <2>1 DEF Median
<1>8. n \in 1..5 => n = 1 \/ n = 2 \/ n = 3 \/ n = 4 \/ n = 5
  OBVIOUS
<1> QED
  BY <1>2, <1>3, <1>4, <1>5, <1>6, <1>7, <1>8

(***************************************************************************)
(* The folds of the calls run along sequences, the last place first.       *)
(***************************************************************************)
Turned(turn, base, g, s) ==
  g[s] = IF s = {} THEN base ELSE turn[<<Max(s), g[s \ {Max(s)}]>>]

LEMMA LeftFoldExists ==
  ASSUME NEW n \in Nat, NEW V, NEW base \in V, NEW turn,
         \A i \in 1..n, v \in V : turn[<<i, v>>] \in V
  PROVE  \E g \in [SUBSET (1..n) -> V] : \A s \in SUBSET (1..n) : Turned(turn, base, g, s)
<1>1. PICK S : S = 1..n
  OBVIOUS
<1>2. IsFiniteSet(S)
  BY <1>1, FS_Interval
<1>3. PICK pick : pick = [s \in SUBSET S |-> Max(s)]
  OBVIOUS
<1>4. \A s \in SUBSET S : s # {} => Max(s) \in s /\ pick[s] = Max(s)
  BY <1>1, <1>3, MaxOf
<1>5. Foldable(S, V, turn, pick)
  <2>1. \A x \in S, v \in V : turn[<<x, v>>] \in V
    BY <1>1
  <2>2. \A s \in SUBSET S : s # {} => pick[s] \in s
    BY <1>4
  <2> QED
    BY <2>1, <2>2 DEF Foldable
<1>6. PICK g \in [SUBSET S -> V] : \A s \in SUBSET S : Defined(S, turn, pick, base, g, s)
  BY <1>2, <1>5, FoldExists
<1>7. \A s \in SUBSET S : Turned(turn, base, g, s)
  BY <1>4, <1>6 DEF Turned, Defined
<1> QED
  BY <1>1, <1>7

LeastTurns(told, g) ==
  g = [s \in SUBSET DOMAIN told |->
         IF s = {} THEN told[1] ELSE Smaller(g[s \ {Max(s)}], told[Max(s)])]

LeastFold(told) == CHOOSE g : LeastTurns(told, g)

LEMMA LeastIs ==
  ASSUME NEW told
  PROVE  FoldLeft(Smaller, told[1], told) = LeastFold(told)[DOMAIN told]
<1> DEFINE iter == CHOOSE iter : iter =
             [s \in SUBSET DOMAIN told |->
                IF s = {} THEN told[1]
                ELSE LET x == Max(s)
                     IN  Smaller(iter[s \ {x}], told[x])]
<1>1. FoldLeft(Smaller, told[1], told) = iter[DOMAIN told]
  BY Zenon DEF FoldLeft, MapThenFoldSet
<1>2. iter = LeastFold(told)
  BY Zenon DEF LeastFold, LeastTurns
<1> QED
  BY <1>1, <1>2, Zenon

\* query of FoldCMS takes the least of the rows.
LEMMA LeastIsFirst ==
  ASSUME NEW n \in Nat \ {0}, NEW told \in [1..n -> Int]
  PROVE  FoldLeft(Smaller, told[1], told) = Ordered(told, 1)
<1>1. PICK S : S = 1..n
  OBVIOUS
<1>2. IsFiniteSet(S) /\ DOMAIN told = S /\ 1 \in S /\ \A i \in S : told[i] \in Int
  BY <1>1, FS_Interval
<1>3. PICK turn : turn = [p \in S \X Int |-> Smaller(p[2], told[p[1]])]
  OBVIOUS
<1>4. \A i \in S, v \in Int : turn[<<i, v>>] = Smaller(v, told[i]) /\ turn[<<i, v>>] \in Int
  BY <1>2, <1>3 DEF Smaller
<1>5. \A s \in SUBSET S : s # {} => Max(s) \in s
  BY <1>1, MaxOf
<1>6. PICK g \in [SUBSET S -> Int] : \A s \in SUBSET S : Turned(turn, told[1], g, s)
  <2>1. \A i \in 1..n, v \in Int : turn[<<i, v>>] \in Int
    BY <1>1, <1>4
  <2> QED
    BY <1>1, <1>2, <2>1, LeftFoldExists
<1>7. ASSUME NEW s \in SUBSET S
      PROVE  g[s] = IF s = {} THEN told[1] ELSE Smaller(g[s \ {Max(s)}], told[Max(s)])
  <2>1. CASE s = {}
    BY <1>6, <2>1 DEF Turned
  <2>2. CASE s # {}
    <3>1. g[s] = turn[<<Max(s), g[s \ {Max(s)}]>>] /\ Max(s) \in S
      BY <1>5, <1>6, <2>2 DEF Turned
    <3>2. g[s \ {Max(s)}] \in Int
      OBVIOUS
    <3> QED
      BY <1>4, <2>2, <3>1, <3>2
  <2> QED
    BY <2>1, <2>2
<1>8. LeastTurns(told, g)
  BY <1>2, <1>7 DEF LeastTurns
<1>9. PICK a : a = LeastFold(told)
  OBVIOUS
<1>10. LeastTurns(told, a)
  BY <1>8, <1>9 DEF LeastFold
<1>11. \A s \in SUBSET S : a[s] = IF s = {} THEN told[1]
                                  ELSE Smaller(a[s \ {Max(s)}], told[Max(s)])
  BY <1>2, <1>10 DEF LeastTurns
<1> DEFINE Least(s) == /\ a[s] <= told[1] /\ \A i \in s : a[s] <= told[i]
                       /\ \E i \in S : a[s] = told[i]
<1>12. PICK W : W = {s \in SUBSET S : Least(s)}
  OBVIOUS
<1>13. ASSUME NEW s \in SUBSET S, \A x \in s : s \ {x} \in W
       PROVE  Least(s)
  <2>1. CASE s = {}
    <3>1. a[s] = told[1] /\ told[1] \in Int
      BY <1>2, <1>11, <2>1
    <3> QED
      BY <1>2, <2>1, <3>1
  <2>2. CASE s # {}
    <3>1. PICK x \in s : x = Max(s)
      BY <1>5, <2>2
    <3>2. PICK r \in SUBSET S : r = s \ {x}
      OBVIOUS
    <3>3. Least(r)
      BY <1>12, <1>13, <3>2
    <3>4. a[s] = Smaller(a[r], told[x])
      BY <1>11, <2>2, <3>1, <3>2
    <3>5. a[r] \in Int /\ told[x] \in Int /\ told[1] \in Int /\ x \in S
      BY <1>2, <3>3
    <3>6. a[s] <= a[r] /\ a[s] <= told[x] /\ a[s] \in {a[r], told[x]}
      BY <3>4, <3>5 DEF Smaller
    <3>7. \A i \in s : i = x \/ i \in r
      BY <3>2
    <3>8. \A i \in s : a[s] <= told[i]
      BY <1>2, <3>3, <3>5, <3>6, <3>7, SMTT(20)
    <3>9. a[s] <= told[1]
      BY <3>3, <3>5, <3>6
    <3> QED
      BY <3>3, <3>5, <3>6, <3>8, <3>9
  <2> QED
    BY <2>1, <2>2
<1>14. Inductive(S, W)
  BY <1>12, <1>13 DEF Inductive
<1>15. Least(S)
  <2>1. S \in W
    BY <1>2, <1>14, PartInduction
  <2> HIDE DEF Least
  <2> QED
    BY <1>12, <2>1
<1>16. PICK i \in S : a[S] = told[i]
  BY <1>15
<1>17. After(told, n, {}, i)
  <2>1. \A u \in 1..n : told[i] <= told[u]
    BY <1>1, <1>15, <1>16
  <2>2. i \in 1..n
    BY <1>1
  <2> QED
    BY <2>1, <2>2 DEF After
<1>18. Ordered(told, 1) = told[i]
  BY <1>17, FirstPlace
<1> QED
  BY <1>2, <1>9, <1>16, <1>18, LeastIs

(***************************************************************************)
(* What the sketch of full width would answer.                             *)
(***************************************************************************)
Told(x, w, k) ==
  [r \in RowsOf(x) |-> SignAs(x, k, r) * WideOf(x, w, r, FullCol(k, r))]

EstOf(x, w, k) ==
  IF x.way = "min" THEN Ordered(Told(x, w, k), 1) ELSE Middle(Told(x, w, k))

LEMMA ToldFacts ==
  ASSUME NEW x \in Shapes, NEW w \in Weightings, NEW k \in Keys
  PROVE  Told(x, w, k) \in [1..x.rows -> Int]
<1>1. ASSUME NEW r \in RowsOf(x)
      PROVE  SignAs(x, k, r) * WideOf(x, w, r, FullCol(k, r)) \in Int
  <2>1. SignAs(x, k, r) \in {-1, 1}
    BY ShapeFacts
  <2>2. WideOf(x, w, r, FullCol(k, r)) \in Int
    BY SharingFacts
  <2> QED
    BY <2>1, <2>2
<1> QED
  BY <1>1 DEF Told, RowsOf

LEMMA LenOfRow ==
  ASSUME NEW n \in Nat, NEW v \in [1..n -> Int]
  PROVE  Len(v) = n
<1>1. v \in Seq(Int)
  OBVIOUS
<1>2. DOMAIN v = 1..Len(v) /\ DOMAIN v = 1..n /\ Len(v) \in Nat
  BY <1>1
<1> QED
  BY <1>2

LEMMA MiddleFacts ==
  ASSUME NEW n \in Nat \ {0}, NEW v \in [1..n -> Int]
  PROVE  Middle(v) \in Int
<1>1. PICK mid \in Nat : mid = n \div 2
  OBVIOUS
<1>2. Len(v) = n
  BY LenOfRow
<1>3. CASE n % 2 = 1
  <2>1. mid + 1 \in 1..n
    BY <1>1, <1>3
  <2>2. Middle(v) = Ordered(v, mid + 1)
    BY <1>1, <1>2, <1>3 DEF Middle
  <2> QED
    BY <2>1, <2>2, OrderedExists
<1>4. CASE n % 2 # 1
  <2>1. mid \in 1..n /\ mid + 1 \in 1..n
    BY <1>1, <1>4
  <2>2. Middle(v) = Halved(Ordered(v, mid) + Ordered(v, mid + 1))
    BY <1>1, <1>2, <1>4 DEF Middle
  <2>3. PICK a \in Int, b \in Int : a = Ordered(v, mid) /\ b = Ordered(v, mid + 1)
    <3>1. Ordered(v, mid) \in Int
      BY <2>1, OrderedExists
    <3>2. Ordered(v, mid + 1) \in Int
      BY <2>1, OrderedExists
    <3> QED
      BY <3>1, <3>2
  <2>4. Halved(a + b) \in Int
    BY DEF Halved
  <2> QED
    BY <2>2, <2>3, <2>4
<1> QED
  BY <1>3, <1>4

LEMMA EstFacts ==
  ASSUME NEW x \in Shapes, NEW w \in Weightings, NEW k \in Keys
  PROVE  EstOf(x, w, k) \in Int
<1>1. PICK n \in Nat \ {0} : n = x.rows
  BY ShapeFacts
<1>2. PICK v \in [1..n -> Int] : v = Told(x, w, k)
  BY <1>1, ToldFacts
<1>3. Ordered(v, 1) \in Int
  <2>1. 1 \in 1..n
    OBVIOUS
  <2> QED
    BY <2>1, OrderedExists
<1>4. Middle(v) \in Int
  BY MiddleFacts
<1> QED
  BY <1>2, <1>3, <1>4 DEF EstOf

LEMMA EstimateIs ==
  ASSUME shape \in Shapes, NEW level, NEW cells, NEW w,
         Exact(shape, level, cells, w), NEW k \in Keys
  PROVE  Estimate(level, cells, k) = EstOf(shape, w, k)
<1>1. level \in Levels /\ w \in Weightings
  BY DEF Exact
<1>2. PICK told : told = [r \in Rows |-> RowEstimate(level, cells, k, r)]
  OBVIOUS
<1>3. ASSUME NEW r \in RowsOf(shape)
      PROVE  RowEstimate(level, cells, k, r)
               = SignAs(shape, k, r) * WideOf(shape, w, r, FullCol(k, r))
  <2>1. ExactRow(shape, level, cells[r], w, r)
    BY DEF Exact
  <2>2. FullCol(k, r) \in Tags
    BY <1>1, ColumnFacts
  <2>3. CellQuery(cells[r][FullCol(k, r) % FoldCols(level)], FullCol(k, r))
          = WideOf(shape, w, r, FullCol(k, r))
    BY <2>1, <2>2 DEF ExactRow
  <2> QED
    BY <2>2, <2>3 DEF RowEstimate, FoldCol, SignOf, SignAs
<1>4. told = Told(shape, w, k)
  BY <1>2, <1>3 DEF Told, Rows, RowsOf
<1>5. PICK n \in Nat \ {0} : n = shape.rows
  BY ShapeFacts
<1>6. told \in [1..n -> Int]
  BY <1>1, <1>4, <1>5, ToldFacts
<1>7. Estimate(level, cells, k)
        = IF shape.way = "min" THEN FoldLeft(Smaller, told[1], told) ELSE Median(told)
  BY <1>2 DEF Estimate
<1>8. FoldLeft(Smaller, told[1], told) = Ordered(told, 1)
  BY <1>6, LeastIsFirst
<1>9. Median(told) = Middle(told)
  BY <1>6, MedianIsMiddle
<1> QED
  BY <1>4, <1>7, <1>8, <1>9 DEF EstOf

(***************************************************************************)
(* The counters of the two.                                                *)
(***************************************************************************)
LEMMA WideCounterIs ==
  ASSUME shape \in Shapes, TagsFit, Levels # {}, NEW s, NEW r \in RowsOf(shape), NEW col
  PROVE  WideCounter(s, r, col) = WideOf(shape, weight[s], r, col)
<1> DEFINE S    == {k \in Keys : WideCol(k, r) = col}
           f    == [k \in S |-> SignOf(k, r) * weight[s][k]]
           iter == CHOOSE iter : iter =
             [t \in SUBSET S |->
                IF t = {} THEN 0
                ELSE LET x == CHOOSE x \in t : TRUE
                     IN  SignOf(x, r) * weight[s][x] + iter[t \ {x}]]
<1>1. WideCounter(s, r, col) = iter[S]
  BY Zenon DEF WideCounter, MapThenSumSet, MapThenFoldSet
<1>2. DOMAIN f = S /\ \A x \in S : f[x] = SignOf(x, r) * weight[s][x]
  OBVIOUS
<1>3. f = [k \in Sharing(r, col) |-> SignAs(shape, k, r) * weight[s][k]]
  <2>1. S = Sharing(r, col)
    BY ColumnFacts DEF Sharing
  <2>2. \A k \in S : SignOf(k, r) = SignAs(shape, k, r)
    BY DEF SignAs, SignOf
  <2> QED
    BY <2>1, <2>2
<1> HIDE DEF f
<1>4. \A g : g = [t \in SUBSET S |->
                    IF t = {} THEN 0
                    ELSE LET x == CHOOSE x \in t : TRUE
                         IN  SignOf(x, r) * weight[s][x] + g[t \ {x}]]
             <=> Summed(f, g)
  <2>1. \A t \in SUBSET S : t # {} => (CHOOSE x \in t : TRUE) \in S
    OBVIOUS
  <2> QED
    BY <1>2, <2>1 DEF Summed, Part
<1>5. iter = SumsOf(f)
  BY <1>4, ZenonT(60) DEF SumsOf
<1>6. SumOf(f) = SumsOf(f)[S]
  BY <1>2, SumOfIs
<1>7. WideCounter(s, r, col) = SumOf(f)
  BY <1>1, <1>5, <1>6, Zenon
<1> QED
  BY <1>3, <1>7, Zenon DEF WideOf

\* The counters of a row, one for each column.
FlatOf(row, col) == SumOf([c \in DOMAIN row |-> CellQuery(row[c], col)])

LEMMA FlatCounterIs ==
  ASSUME NEW row, NEW col
  PROVE  MapThenSumSet(LAMBDA c : CellQuery(row[c], col), DOMAIN row) = FlatOf(row, col)
<1> DEFINE S    == DOMAIN row
           f    == [c \in S |-> CellQuery(row[c], col)]
           iter == CHOOSE iter : iter =
             [t \in SUBSET S |->
                IF t = {} THEN 0
                ELSE LET x == CHOOSE x \in t : TRUE
                     IN  CellQuery(row[x], col) + iter[t \ {x}]]
<1>1. MapThenSumSet(LAMBDA c : CellQuery(row[c], col), DOMAIN row) = iter[S]
  BY Zenon DEF MapThenSumSet, MapThenFoldSet
<1>2. DOMAIN f = S /\ \A x \in S : f[x] = CellQuery(row[x], col)
  OBVIOUS
<1> HIDE DEF f
<1>3. \A g : g = [t \in SUBSET S |->
                    IF t = {} THEN 0
                    ELSE LET x == CHOOSE x \in t : TRUE
                         IN  CellQuery(row[x], col) + g[t \ {x}]]
             <=> Summed(f, g)
  <2>1. \A t \in SUBSET S : t # {} => (CHOOSE x \in t : TRUE) \in S
    OBVIOUS
  <2> QED
    BY <1>2, <2>1 DEF Summed, Part
<1>4. iter = SumsOf(f)
  BY <1>3, ZenonT(60) DEF SumsOf
<1>5. SumOf(f) = SumsOf(f)[S]
  BY <1>2, SumOfIs
<1> QED
  BY <1>1, <1>4, <1>5, Zenon DEF f, FlatOf

\* Of the cells of a row one alone holds the counter of a full column.
LEMMA FlatIsWide ==
  ASSUME NEW x \in Shapes, NEW level \in Levels, NEW row, NEW w \in Weightings,
         NEW r \in RowsOf(x), ExactRow(x, level, row, w, r), NEW col \in Tags
  PROVE  FlatOf(row, col) = WideOf(x, w, r, col)
<1>1. PICK n \in Nat \ {0} : n = FoldCols(level)
  BY ColFacts
<1>2. PICK S : S = 0..(n - 1)
  OBVIOUS
<1>3. /\ IsFiniteSet(S) /\ row \in [S -> Cell] /\ InPlace(row, n)
      /\ CellQuery(row[col % n], col) = WideOf(x, w, r, col)
  BY <1>1, <1>2, FS_Interval DEF ExactRow
<1>4. PICK e \in S : e = col % n
  BY <1>1, <1>2, FoldColFacts
<1>5. PICK f : f = [c \in S |-> CellQuery(row[c], col)]
  OBVIOUS
<1>6. f \in [S -> Int]
  <2>1. \A c \in S : row[c] \in Cell
    BY <1>3
  <2>2. \A c \in S : CellQuery(row[c], col) \in Int
    BY <2>1, CellFacts
  <2> QED
    BY <1>5, <2>2
<1>7. ASSUME NEW c \in S, c # e
      PROVE  f[c] = 0
  <2>1. col \notin DOMAIN row[c]
    BY <1>3, <1>4, <1>7 DEF InPlace
  <2> QED
    BY <1>5, <2>1 DEF CellQuery
<1>8. SumOf(f) = f[e]
  BY <1>3, <1>6, <1>7, IntSumOfOne
<1>9. FlatOf(row, col) = SumOf(f)
  BY <1>3, <1>5 DEF FlatOf
<1> QED
  BY <1>3, <1>4, <1>5, <1>8, <1>9

(***************************************************************************)
(* What is scattered into a new sketch, and what it weighs.                *)
(***************************************************************************)
WeightTurns(parts, k, g) ==
  g = [p \in SUBSET DOMAIN parts |->
         IF p = {} THEN 0 ELSE g[p \ {Max(p)}] + weight[parts[Max(p)]][k]]

WeightFold(parts, k) == CHOOSE g : WeightTurns(parts, k, g)

LEMMA WeightOfIs ==
  ASSUME NEW parts, NEW k
  PROVE  FoldLeft(LAMBDA n, s : n + weight[s][k], 0, parts)
           = WeightFold(parts, k)[DOMAIN parts]
<1> DEFINE iter == CHOOSE iter : iter =
             [p \in SUBSET DOMAIN parts |->
                IF p = {} THEN 0
                ELSE LET x == Max(p)
                     IN  iter[p \ {x}] + weight[parts[x]][k]]
<1>1. FoldLeft(LAMBDA n, s : n + weight[s][k], 0, parts) = iter[DOMAIN parts]
  BY Zenon DEF FoldLeft, MapThenFoldSet
<1>2. iter = WeightFold(parts, k)
  BY Zenon DEF WeightFold, WeightTurns
<1> QED
  BY <1>1, <1>2, Zenon

\* Weights of a key taken up part by part.
TakenUp(parts, k, b) ==
  /\ b[{}] = 0
  /\ \A p \in SUBSET DOMAIN parts : p # {} =>
       b[p] = b[p \ {Max(p)}] + weight[parts[Max(p)]][k]

Parts == UNION {[1..n -> Sketches] : n \in Nat}

LEMMA PartsFacts ==
  ASSUME NEW parts \in Parts
  PROVE  \E n \in Nat : /\ DOMAIN parts = 1..n /\ IsFiniteSet(1..n)
                        /\ \A i \in 1..n : parts[i] \in Sketches
<1>1. PICK n \in Nat : parts \in [1..n -> Sketches]
  BY DEF Parts
<1> QED
  BY <1>1, FS_Interval

LEMMA WeightFoldFacts ==
  ASSUME NEW parts \in Parts, NEW k \in Keys, \A s \in Sketches : weight[s] \in Weightings
  PROVE  /\ TakenUp(parts, k, WeightFold(parts, k))
         /\ \A p \in SUBSET DOMAIN parts : WeightFold(parts, k)[p] \in Int
<1>1. PICK n \in Nat : /\ DOMAIN parts = 1..n /\ IsFiniteSet(1..n)
                       /\ \A i \in 1..n : parts[i] \in Sketches
  BY PartsFacts
<1>2. PICK S : S = 1..n
  OBVIOUS
<1>3. \A i \in S : weight[parts[i]][k] \in Int
  BY <1>1, <1>2 DEF Weightings
<1>4. PICK turn : turn = [p \in S \X Int |-> p[2] + weight[parts[p[1]]][k]]
  OBVIOUS
<1>5. \A i \in S, v \in Int :
         turn[<<i, v>>] = v + weight[parts[i]][k] /\ turn[<<i, v>>] \in Int
  BY <1>3, <1>4
<1>6. \A p \in SUBSET S : p # {} => Max(p) \in p
  BY <1>2, MaxOf
<1>7. PICK g \in [SUBSET S -> Int] : \A p \in SUBSET S : Turned(turn, 0, g, p)
  <2>1. (\A i \in 1..n, v \in Int : turn[<<i, v>>] \in Int) /\ 0 \in Int
    BY <1>2, <1>5
  <2> QED
    BY <1>2, <2>1, LeftFoldExists
<1>8. ASSUME NEW p \in SUBSET S
      PROVE  g[p] = IF p = {} THEN 0 ELSE g[p \ {Max(p)}] + weight[parts[Max(p)]][k]
  <2>1. CASE p = {}
    BY <1>7, <2>1 DEF Turned
  <2>2. CASE p # {}
    <3>1. g[p] = turn[<<Max(p), g[p \ {Max(p)}]>>] /\ Max(p) \in S
      BY <1>6, <1>7, <2>2 DEF Turned
    <3>2. g[p \ {Max(p)}] \in Int
      OBVIOUS
    <3> QED
      BY <1>5, <2>2, <3>1, <3>2
  <2> QED
    BY <2>1, <2>2
<1>9. WeightTurns(parts, k, g)
  BY <1>1, <1>2, <1>8 DEF WeightTurns
<1>10. PICK b : b = WeightFold(parts, k)
  OBVIOUS
<1>11. WeightTurns(parts, k, b)
  BY <1>9, <1>10 DEF WeightFold
<1>12. \A p \in SUBSET S : b[p] = IF p = {} THEN 0
                                  ELSE b[p \ {Max(p)}] + weight[parts[Max(p)]][k]
  BY <1>1, <1>2, <1>11 DEF WeightTurns
<1>13. b[{}] = 0
  BY <1>12
<1>14. TakenUp(parts, k, b)
  BY <1>1, <1>2, <1>12, <1>13 DEF TakenUp
<1>15. PICK W : W = {p \in SUBSET S : b[p] \in Int}
  OBVIOUS
<1>16. ASSUME NEW p \in SUBSET S, \A x \in p : p \ {x} \in W
       PROVE  b[p] \in Int
  <2>1. CASE p = {}
    BY <1>13, <2>1
  <2>2. CASE p # {}
    <3>1. PICK x \in p : x = Max(p)
      BY <1>6, <2>2
    <3>2. b[p \ {x}] \in Int /\ weight[parts[x]][k] \in Int
      BY <1>3, <1>15, <1>16
    <3> QED
      BY <1>12, <2>2, <3>1, <3>2
  <2> QED
    BY <2>1, <2>2
<1>17. Inductive(S, W)
  BY <1>15, <1>16 DEF Inductive
<1>18. SUBSET S \subseteq W
  BY <1>1, <1>2, <1>17, PartInduction
<1> QED
  BY <1>1, <1>2, <1>10, <1>14, <1>15, <1>18

LEMMA WeightOfFacts ==
  ASSUME NEW parts \in Parts, \A s \in Sketches : weight[s] \in Weightings
  PROVE  /\ WeightOf(parts) = [k \in Keys |-> WeightFold(parts, k)[DOMAIN parts]]
         /\ WeightOf(parts) \in Weightings
<1>1. WeightOf(parts) = [k \in Keys |-> WeightFold(parts, k)[DOMAIN parts]]
  BY WeightOfIs DEF WeightOf
<1>2. \A k \in Keys : WeightFold(parts, k)[DOMAIN parts] \in Int
  BY WeightFoldFacts
<1> QED
  BY <1>1, <1>2 DEF Weightings

CellsTurns(parts, level, g) ==
  g = [p \in SUBSET DOMAIN parts |->
         IF p = {} THEN EmptyCells(level)
         ELSE Scattered(sketch[parts[Max(p)]], level, g[p \ {Max(p)}])]

CellsFold(parts, level) == CHOOSE g : CellsTurns(parts, level, g)

LEMMA ScatteredAllIs ==
  ASSUME NEW parts, NEW level
  PROVE  ScatteredAll(parts, level) = CellsFold(parts, level)[DOMAIN parts]
<1> DEFINE iter == CHOOSE iter : iter =
             [p \in SUBSET DOMAIN parts |->
                IF p = {} THEN EmptyCells(level)
                ELSE LET x == Max(p)
                     IN  Scattered(sketch[parts[x]], level, iter[p \ {x}])]
<1>1. ScatteredAll(parts, level) = iter[DOMAIN parts]
  BY Zenon DEF ScatteredAll, FoldLeft, MapThenFoldSet
<1>2. iter = CellsFold(parts, level)
  BY Zenon DEF CellsFold, CellsTurns
<1> QED
  BY <1>1, <1>2, Zenon

\* Every sketch holds the counters of the sketch of full width.
AllExact(x, all, w) ==
  \A s \in Sketches : Exact(x, all[s].level, all[s].cells, w[s])

LEMMA ScatteredAllExact ==
  ASSUME shape \in Shapes, AllExact(shape, sketch, weight),
         NEW parts \in Parts, NEW level \in Levels
  PROVE  Exact(shape, level, ScatteredAll(parts, level), WeightOf(parts))
<1>1. PICK n \in Nat : /\ DOMAIN parts = 1..n /\ IsFiniteSet(1..n)
                       /\ \A i \in 1..n : parts[i] \in Sketches
  BY PartsFacts
<1>2. PICK S : S = 1..n
  OBVIOUS
<1>3. \A i \in S : Exact(shape, sketch[parts[i]].level, sketch[parts[i]].cells, weight[parts[i]])
  BY <1>1, <1>2 DEF AllExact
<1>4. \A s \in Sketches : weight[s] \in Weightings
  BY DEF AllExact, Exact
<1>5. PICK cols : cols = 0..(FoldCols(level) - 1)
  OBVIOUS
<1>6. PICK V : V = {cells \in [RowsOf(shape) -> [cols -> Cell]] :
                      \E w \in Weightings : Exact(shape, level, cells, w)}
  OBVIOUS
<1>7. ASSUME NEW cells, NEW w, Exact(shape, level, cells, w)
      PROVE  cells \in V
  <2>1. w \in Weightings /\ cells = [r \in RowsOf(shape) |-> cells[r]]
    BY <1>7 DEF Exact
  <2>2. \A r \in RowsOf(shape) : cells[r] \in [cols -> Cell]
    BY <1>5, <1>7 DEF Exact, ExactRow
  <2>3. cells \in [RowsOf(shape) -> [cols -> Cell]]
    BY <2>1, <2>2
  <2> QED
    BY <1>6, <1>7, <2>1, <2>3
<1>8. PICK turn : turn = [p \in S \X V |-> Scattered(sketch[parts[p[1]]], level, p[2])]
  OBVIOUS
<1>9. ASSUME NEW i \in S, NEW cells \in V
      PROVE  /\ turn[<<i, cells>>] = Scattered(sketch[parts[i]], level, cells)
             /\ turn[<<i, cells>>] \in V
  <2>1. PICK w \in Weightings : Exact(shape, level, cells, w)
    BY <1>6
  <2>2. PICK from : from = sketch[parts[i]]
    OBVIOUS
  <2>3. PICK v : v = weight[parts[i]]
    OBVIOUS
  <2>4. Exact(shape, from.level, from.cells, v)
    BY <1>3, <2>2, <2>3
  <2>5. Exact(shape, level, Scattered(from, level, cells), [k \in Keys |-> w[k] + v[k]])
    BY <2>1, <2>4, ScatteredExact
  <2>6. turn[<<i, cells>>] = Scattered(from, level, cells)
    BY <1>8, <2>2
  <2> QED
    BY <1>7, <2>2, <2>5, <2>6
<1>10. EmptyCells(level) \in V
  BY <1>7, EmptyExact
<1>11. \A p \in SUBSET S : p # {} => Max(p) \in p
  BY <1>2, MaxOf
<1>12. PICK g \in [SUBSET S -> V] : \A p \in SUBSET S : Turned(turn, EmptyCells(level), g, p)
  <2>1. \A i \in 1..n, v \in V : turn[<<i, v>>] \in V
    BY <1>2, <1>9
  <2> QED
    BY <1>2, <1>10, <2>1, LeftFoldExists
<1>13. ASSUME NEW p \in SUBSET S
       PROVE  g[p] = IF p = {} THEN EmptyCells(level)
                     ELSE Scattered(sketch[parts[Max(p)]], level, g[p \ {Max(p)}])
  <2>1. CASE p = {}
    BY <1>12, <2>1 DEF Turned
  <2>2. CASE p # {}
    <3>1. g[p] = turn[<<Max(p), g[p \ {Max(p)}]>>] /\ Max(p) \in S
      BY <1>11, <1>12, <2>2 DEF Turned
    <3>2. g[p \ {Max(p)}] \in V
      OBVIOUS
    <3> QED
      BY <1>9, <2>2, <3>1, <3>2
  <2> QED
    BY <2>1, <2>2
<1>14. CellsTurns(parts, level, g)
  BY <1>1, <1>2, <1>13 DEF CellsTurns
<1>15. PICK a : a = CellsFold(parts, level)
  OBVIOUS
<1>16. CellsTurns(parts, level, a)
  BY <1>14, <1>15 DEF CellsFold
<1>17. \A p \in SUBSET S : a[p] = IF p = {} THEN EmptyCells(level)
                     ELSE Scattered(sketch[parts[Max(p)]], level, a[p \ {Max(p)}])
  BY <1>1, <1>2, <1>16 DEF CellsTurns
<1>18. PICK up : up = [p \in SUBSET S |-> [k \in Keys |-> WeightFold(parts, k)[p]]]
  OBVIOUS
<1>19. up[{}] = NoWeight
  <2>1. \A k \in Keys : WeightFold(parts, k)[{}] = 0
    BY <1>4, WeightFoldFacts DEF TakenUp
  <2>2. up[{}] = [k \in Keys |-> WeightFold(parts, k)[{}]]
    BY <1>18
  <2> QED
    BY <2>1, <2>2 DEF NoWeight
<1>20. ASSUME NEW p \in SUBSET S, p # {}
       PROVE  up[p] = [k \in Keys |-> up[p \ {Max(p)}][k] + weight[parts[Max(p)]][k]]
  <2>1. \A k \in Keys : WeightFold(parts, k)[p]
          = WeightFold(parts, k)[p \ {Max(p)}] + weight[parts[Max(p)]][k]
    BY <1>1, <1>2, <1>4, <1>20, WeightFoldFacts DEF TakenUp
  <2>2. PICK q \in SUBSET S : q = p \ {Max(p)}
    OBVIOUS
  <2>3. \A k \in Keys : up[q][k] = WeightFold(parts, k)[q]
    BY <1>18
  <2>4. up[p] = [k \in Keys |-> WeightFold(parts, k)[p]]
    BY <1>18
  <2> QED
    BY <2>1, <2>2, <2>3, <2>4
<1>21. PICK W : W = {p \in SUBSET S : Exact(shape, level, a[p], up[p])}
  OBVIOUS
<1>22. ASSUME NEW p \in SUBSET S, \A x \in p : p \ {x} \in W
       PROVE  Exact(shape, level, a[p], up[p])
  <2>1. CASE p = {}
    <3>1. a[p] = EmptyCells(level) /\ up[p] = NoWeight
      BY <1>17, <1>19, <2>1
    <3> QED
      BY <3>1, EmptyExact
  <2>2. CASE p # {}
    <3>1. PICK x \in p : x = Max(p)
      BY <1>11, <2>2
    <3>2. PICK from : from = sketch[parts[x]]
      OBVIOUS
    <3>3. PICK v : v = weight[parts[x]]
      OBVIOUS
    <3>4. Exact(shape, from.level, from.cells, v)
      BY <1>3, <3>2, <3>3
    <3>5. PICK cells, w : cells = a[p \ {x}] /\ w = up[p \ {x}]
      OBVIOUS
    <3>6. Exact(shape, level, cells, w)
      BY <1>21, <1>22, <3>5
    <3>7. Exact(shape, level, Scattered(from, level, cells), [k \in Keys |-> w[k] + v[k]])
      BY <3>4, <3>6, ScatteredExact
    <3>8. a[p] = Scattered(from, level, cells)
      BY <1>17, <2>2, <3>1, <3>2, <3>5
    <3>9. up[p] = [k \in Keys |-> w[k] + v[k]]
      BY <1>20, <2>2, <3>1, <3>3, <3>5
    <3> QED
      BY <3>7, <3>8, <3>9
  <2> QED
    BY <2>1, <2>2
<1>23. Inductive(S, W)
  BY <1>21, <1>22 DEF Inductive
<1>24. S \in W
  BY <1>1, <1>2, <1>23, PartInduction
<1>25. Exact(shape, level, a[S], up[S])
  BY <1>21, <1>24
<1>26. ScatteredAll(parts, level) = a[S]
  BY <1>1, <1>2, <1>15, ScatteredAllIs
<1>27. WeightOf(parts) = up[S]
  <2>1. up[S] = [k \in Keys |-> WeightFold(parts, k)[S]]
    BY <1>18
  <2>2. WeightOf(parts) = [k \in Keys |-> WeightFold(parts, k)[DOMAIN parts]]
    BY <1>4, WeightOfFacts
  <2> QED
    BY <1>1, <1>2, <2>1, <2>2
<1> QED
  BY <1>25, <1>26, <1>27

(***************************************************************************)
(* Heaps.                                                                  *)
(***************************************************************************)
Heaps == UNION {[K -> Int] : K \in SUBSET Keys}

LEMMA HeapFacts ==
  ASSUME NEW heap \in Heaps
  PROVE  /\ DOMAIN heap \in SUBSET Keys
         /\ heap \in [DOMAIN heap -> Int]
         /\ IsFiniteSet(DOMAIN heap)
         /\ Cardinality(DOMAIN heap) \in Nat
<1>1. PICK K \in SUBSET Keys : heap \in [K -> Int]
  BY DEF Heaps
<1>2. IsFiniteSet(K)
  BY FoldAssumption, FS_Subset
<1> QED
  BY <1>1, <1>2, FS_CardinalityType

\* h is the heap with k at n.
HasAt(heap, k, n, h) ==
  /\ h \in Heaps
  /\ DOMAIN h = DOMAIN heap \cup {k}
  /\ \A e \in DOMAIN h : h[e] = IF e = k THEN n ELSE heap[e]

LEMMA WithFacts ==
  ASSUME NEW heap \in Heaps, NEW k \in Keys, NEW n \in Int
  PROVE  HasAt(heap, k, n, With(heap, k, n))
<1>1. heap \in [DOMAIN heap -> Int] /\ DOMAIN heap \in SUBSET Keys
  BY HeapFacts
<1>2. PICK K \in SUBSET Keys : K = DOMAIN heap \cup {k}
  BY <1>1
<1>3. PICK h : h = With(heap, k, n)
  OBVIOUS
<1>4. h = [e \in K |-> IF e = k THEN n ELSE heap[e]]
  BY <1>2, <1>3 DEF With
<1>5. h \in [K -> Int]
  BY <1>1, <1>2, <1>4
<1>6. HasAt(heap, k, n, h)
  BY <1>2, <1>4, <1>5 DEF HasAt, Heaps
<1> QED
  BY <1>3, <1>6

LEMMA WithoutFacts ==
  ASSUME NEW heap \in Heaps, NEW k
  PROVE  /\ Without(heap, k) \in Heaps
         /\ DOMAIN Without(heap, k) = DOMAIN heap \ {k}
         /\ \A e \in DOMAIN heap \ {k} : Without(heap, k)[e] = heap[e]
<1>1. heap \in [DOMAIN heap -> Int] /\ DOMAIN heap \in SUBSET Keys
  BY HeapFacts
<1>2. PICK K \in SUBSET Keys : K = DOMAIN heap \ {k}
  BY <1>1
<1>3. PICK h : h = Without(heap, k)
  OBVIOUS
<1>4. h = [e \in K |-> heap[e]]
  BY <1>2, <1>3 DEF Without
<1>5. h \in [K -> Int]
  BY <1>1, <1>2, <1>4
<1> QED
  BY <1>2, <1>3, <1>4, <1>5 DEF Heaps

LEMMA LightestExists ==
  ASSUME NEW heap \in Heaps, DOMAIN heap # {}
  PROVE  \E e \in DOMAIN heap : \A x \in DOMAIN heap : heap[e] <= heap[x]
<1>1. PICK D : D = DOMAIN heap
  OBVIOUS
<1>2. IsFiniteSet(D) /\ heap \in [D -> Int] /\ D # {}
  BY <1>1, HeapFacts
<1>3. \E e \in D : \A x \in D : heap[e] <= heap[x]
  BY <1>2, LeastMember
<1> QED
  BY <1>1, <1>3

\* What an update of k to n does to a heap.
Stays(heap, cap, k, n, h) ==
  /\ h = heap
  /\ k \notin DOMAIN heap
  /\ Cardinality(DOMAIN heap) >= cap
  /\ \A e \in DOMAIN heap : heap[e] >= n

Enters(heap, cap, k, n, h) ==
  /\ k \in DOMAIN heap \/ Cardinality(DOMAIN heap) < cap
  /\ DOMAIN h = DOMAIN heap \cup {k}
  /\ \A e \in DOMAIN h : h[e] = IF e = k THEN n ELSE heap[e]

Replaces(heap, cap, k, n, h) ==
  /\ k \notin DOMAIN heap
  /\ Cardinality(DOMAIN heap) >= cap
  /\ \E out \in DOMAIN heap :
       /\ n > heap[out]
       /\ \A e \in DOMAIN heap : heap[out] <= heap[e]
       /\ DOMAIN h = (DOMAIN heap \ {out}) \cup {k}
       /\ \A e \in DOMAIN h : h[e] = IF e = k THEN n ELSE heap[e]

LEMMA UpdatesFacts ==
  ASSUME NEW heap \in Heaps, NEW cap \in Nat, NEW k \in Keys, NEW n \in Int,
         NEW h \in Updates(heap, cap, k, n)
  PROVE  /\ h \in Heaps
         /\ \/ Stays(heap, cap, k, n, h)
            \/ Enters(heap, cap, k, n, h)
            \/ Replaces(heap, cap, k, n, h)
<1>1. PICK D : D = DOMAIN heap
  OBVIOUS
<1>2. /\ D \in SUBSET Keys /\ Cardinality(D) \in Nat
      /\ \A e \in D : heap[e] \in Int
  BY <1>1, HeapFacts
<1>3. PICK gone : gone = {e \in Lightest(heap) : n > heap[e]}
  OBVIOUS
<1>4. h \in IF k \in D \/ Cardinality(D) < cap THEN {With(heap, k, n)}
            ELSE IF gone = {} THEN {heap}
            ELSE {With(Without(heap, e), k, n) : e \in gone}
  BY <1>1, <1>3 DEF Updates
<1>5. CASE k \in D \/ Cardinality(D) < cap
  <2>1. h = With(heap, k, n)
    BY <1>4, <1>5
  <2> QED
    <3>1. HasAt(heap, k, n, With(heap, k, n))
      BY WithFacts
    <3> QED
      BY <1>1, <1>5, <2>1, <3>1 DEF Enters, HasAt
<1>6. CASE ~ (k \in D \/ Cardinality(D) < cap) /\ gone = {}
  <2>1. h = heap
    BY <1>4, <1>6
  <2>2. ASSUME NEW e \in D
        PROVE  heap[e] >= n
    <3>1. PICK low \in D : \A x \in D : heap[low] <= heap[x]
      BY <1>1, <2>2, LightestExists
    <3>2. low \in Lightest(heap)
      BY <1>1, <3>1 DEF Lightest
    <3>3. ~ (n > heap[low])
      BY <1>3, <1>6, <3>2
    <3>4. heap[low] <= heap[e] /\ heap[low] \in Int /\ heap[e] \in Int
      BY <1>2, <3>1
    <3> QED
      BY <3>3, <3>4
  <2> QED
    BY <1>1, <1>2, <1>6, <2>1, <2>2 DEF Stays
<1>7. CASE ~ (k \in D \/ Cardinality(D) < cap) /\ gone # {}
  <2>1. PICK out \in gone : h = With(Without(heap, out), k, n)
    BY <1>4, <1>7
  <2>2. out \in D /\ n > heap[out] /\ \A e \in D : heap[out] <= heap[e]
    BY <1>1, <1>3 DEF Lightest
  <2>3. PICK less \in Heaps : less = Without(heap, out)
    BY WithoutFacts
  <2>4. DOMAIN less = D \ {out} /\ \A e \in D \ {out} : less[e] = heap[e]
    BY <1>1, <2>3, WithoutFacts, ZenonT(30)
  <2>5. HasAt(less, k, n, h)
    BY <2>1, <2>3, WithFacts
  <2>6. \A e \in DOMAIN h : h[e] = IF e = k THEN n ELSE heap[e]
    BY <2>4, <2>5 DEF HasAt
  <2>7. DOMAIN h = (DOMAIN heap \ {out}) \cup {k}
    BY <1>1, <2>4, <2>5 DEF HasAt
  <2>8. k \notin DOMAIN heap /\ Cardinality(DOMAIN heap) >= cap
    BY <1>1, <1>2, <1>7
  <2>9. out \in DOMAIN heap /\ \A e \in DOMAIN heap : heap[out] <= heap[e]
    BY <1>1, <2>2
  <2>10. Replaces(heap, cap, k, n, h)
    BY <2>2, <2>6, <2>7, <2>8, <2>9 DEF Replaces
  <2> QED
    BY <2>5, <2>10 DEF HasAt
<1> QED
  BY <1>5, <1>6, <1>7

\* A heap keeps to its capacity.
Fits(heap, cap) == heap \in Heaps /\ Cardinality(DOMAIN heap) <= cap

LEMMA UpdatesFit ==
  ASSUME NEW heap, NEW cap \in Nat, Fits(heap, cap), NEW k \in Keys, NEW n \in Int,
         NEW h \in Updates(heap, cap, k, n)
  PROVE  Fits(h, cap)
<1>1. heap \in Heaps /\ Cardinality(DOMAIN heap) <= cap
  BY DEF Fits
<1>2. PICK D : D = DOMAIN heap
  OBVIOUS
<1>3. IsFiniteSet(D) /\ Cardinality(D) \in Nat /\ Cardinality(D) <= cap
  BY <1>1, <1>2, HeapFacts
<1>4. h \in Heaps /\ (\/ Stays(heap, cap, k, n, h) \/ Enters(heap, cap, k, n, h)
                      \/ Replaces(heap, cap, k, n, h))
  BY <1>1, UpdatesFacts
<1>5. CASE Stays(heap, cap, k, n, h)
  <2>1. h = heap
    BY <1>5 DEF Stays
  <2> QED
    BY <2>1
<1>6. CASE Enters(heap, cap, k, n, h)
  <2>1. DOMAIN h = D \cup {k} /\ (k \in D \/ Cardinality(D) < cap)
    BY <1>2, <1>6 DEF Enters
  <2>2. CASE k \in D
    <3>1. DOMAIN h = D
      BY <2>1, <2>2
    <3> QED
      BY <1>3, <1>4, <3>1 DEF Fits
  <2>3. CASE k \notin D
    <3>1. Cardinality(D \cup {k}) = Cardinality(D) + 1
      BY <1>3, <2>3, FS_AddElement
    <3> QED
      BY <1>3, <1>4, <2>1, <2>3, <3>1 DEF Fits
  <2> QED
    BY <2>2, <2>3
<1>7. CASE Replaces(heap, cap, k, n, h)
  <2>1. PICK out \in D : DOMAIN h = (D \ {out}) \cup {k}
    BY <1>2, <1>7 DEF Replaces
  <2>2. k \notin D
    BY <1>2, <1>7 DEF Replaces
  <2>3. PICK r : r = D \ {out}
    OBVIOUS
  <2>4. IsFiniteSet(r) /\ Cardinality(r) = Cardinality(D) - 1
    BY <1>3, <2>3, FS_RemoveElement
  <2>5. Cardinality(r \cup {k}) = Cardinality(r) + 1
    BY <2>2, <2>3, <2>4, FS_AddElement
  <2>6. Cardinality(DOMAIN h) = Cardinality(D)
    BY <1>3, <2>1, <2>3, <2>4, <2>5
  <2> QED
    BY <1>3, <1>4, <2>6 DEF Fits
<1> QED
  BY <1>4, <1>5, <1>6, <1>7

(***************************************************************************)
(* Keys scored one after the other, in any order.                          *)
(***************************************************************************)
UpdatesOf(heaps, cap, k, n) == UNION {Updates(h, cap, k, n) : h \in heaps}

AfterOne(heaps, cap, s, score, g) ==
  IF s = {} THEN heaps ELSE UNION {UpdatesOf(g[s \ {k}], cap, k, score[k]) : k \in s}

AfterTurns(heaps, cap, keys, score, g) ==
  g = [done \in SUBSET keys |-> AfterOne(heaps, cap, done, score, g)]

AfterAll(heaps, cap, keys, score) == CHOOSE g : AfterTurns(heaps, cap, keys, score, g)

\* The updates of one key, of the heaps that lack it: those of h[k].
LastFor(heaps, cap, s, score, h) ==
  IF s = {} THEN heaps
  ELSE UNION {UpdatesOf(h[k], cap, k, score[k]) : k \in s}

IsLast(heaps, cap, s, score, g, new) ==
  IF s = {} THEN new \in heaps
  ELSE \E k \in s : \E e \in g[s \ {k}] : new \in Updates(e, cap, k, score[k])

LEMMA LastFacts ==
  ASSUME NEW heaps, NEW cap, NEW s, NEW score, NEW g, NEW h,
         h = [k \in s |-> g[s \ {k}]]
  PROVE  LastFor(heaps, cap, s, score, h) = AfterOne(heaps, cap, s, score, g)
<1>1. \A k \in s : h[k] = g[s \ {k}]
  OBVIOUS
<1>2. {UpdatesOf(h[k], cap, k, score[k]) : k \in s}
        = {UpdatesOf(g[s \ {k}], cap, k, score[k]) : k \in s}
  BY <1>1
<1>3. UNION {UpdatesOf(h[k], cap, k, score[k]) : k \in s}
        = UNION {UpdatesOf(g[s \ {k}], cap, k, score[k]) : k \in s}
  BY <1>2, Zenon
<1> QED
  BY <1>3, Zenon DEF LastFor, AfterOne

LEMMA RescoresIs ==
  ASSUME NEW heaps, NEW cap, NEW keys, NEW score
  PROVE  Rescores(heaps, cap, keys, score) = AfterAll(heaps, cap, keys, score)[keys]
BY Zenon DEF Rescores, AfterAll, AfterTurns, AfterOne, UpdatesOf

\* What is said of a heap and of the keys scored so far, update by update.
Carried(heaps, cap, keys, score, P) ==
  /\ \A h \in heaps : <<{}, h>> \in P
  /\ \A s \in SUBSET keys : \A k \in s : \A h \in Heaps : <<s \ {k}, h>> \in P =>
       \A new \in Updates(h, cap, k, score[k]) : <<s, new>> \in P

LEMMA RescoresCarry ==
  ASSUME NEW heaps \in SUBSET Heaps, NEW cap \in Nat, NEW keys \in SUBSET Keys,
         NEW score \in [Keys -> Int], NEW P, Carried(heaps, cap, keys, score, P)
  PROVE  \A h \in Rescores(heaps, cap, keys, score) : h \in Heaps /\ <<keys, h>> \in P
<1>1. IsFiniteSet(keys)
  BY FoldAssumption, FS_Subset
<1>2. PICK V : V = SUBSET Heaps
  OBVIOUS
<1>3. PICK D : D = UNION {{s} \X [s -> V] : s \in SUBSET keys}
  OBVIOUS
<1>4. \A s \in SUBSET keys : \A p \in [s -> V] : <<s, p>> \in D
  BY <1>3
<1>5. PICK turn : turn = [d \in D |-> LastFor(heaps, cap, d[1], score, d[2])]
  OBVIOUS
<1>6. ASSUME NEW s \in SUBSET keys, NEW h \in [s -> V]
      PROVE  /\ turn[<<s, h>>] = LastFor(heaps, cap, s, score, h)
             /\ turn[<<s, h>>] \in V
  <2>1. <<s, h>>[1] = s /\ <<s, h>>[2] = h
    OBVIOUS
  <2>2. turn[<<s, h>>] = LastFor(heaps, cap, s, score, h)
    BY <1>4, <1>5, <2>1
  <2>3. ASSUME NEW k \in s, NEW e \in h[k], NEW new \in Updates(e, cap, k, score[k])
        PROVE  new \in Heaps
    <3>1. e \in Heaps /\ k \in Keys /\ score[k] \in Int
      BY <1>2
    <3> QED
      BY <3>1, UpdatesFacts
  <2>4. LastFor(heaps, cap, s, score, h) \in V
    BY <1>2, <2>3 DEF LastFor, UpdatesOf
  <2> QED
    BY <2>2, <2>4
<1>7. PICK g \in [SUBSET keys -> V] : \A s \in SUBSET keys : Recursive(keys, turn, g, s)
  <2>1. \A s \in SUBSET keys : \A h \in [s -> V] : turn[<<s, h>>] \in V
    BY <1>6
  <2> QED
    BY <1>1, <2>1, PartRecursion
<1>8. ASSUME NEW s \in SUBSET keys
      PROVE  g[s] = AfterOne(heaps, cap, s, score, g)
  <2>1. PICK h : h = [k \in s |-> g[s \ {k}]]
    OBVIOUS
  <2>2. h \in [s -> V]
    BY <2>1
  <2>3. g[s] = LastFor(heaps, cap, s, score, h)
    BY <1>6, <1>7, <2>1, <2>2 DEF Recursive
  <2> QED
    BY <2>1, <2>3, LastFacts
<1>9. AfterTurns(heaps, cap, keys, score, g)
  BY <1>8 DEF AfterTurns
<1>10. PICK a : a = AfterAll(heaps, cap, keys, score)
  OBVIOUS
<1>11. AfterTurns(heaps, cap, keys, score, a)
  BY <1>9, <1>10 DEF AfterAll
<1>12. ASSUME NEW s \in SUBSET keys
       PROVE  \A new \in a[s] : IsLast(heaps, cap, s, score, a, new)
  <2>1. a[s] = AfterOne(heaps, cap, s, score, a)
    BY <1>11, Zenon DEF AfterTurns
  <2>2. CASE s = {}
    BY <2>1, <2>2 DEF IsLast, AfterOne
  <2>3. CASE s # {}
    <3>1. a[s] = UNION {UpdatesOf(a[s \ {k}], cap, k, score[k]) : k \in s}
      BY <2>1, <2>3 DEF AfterOne
    <3>2. ASSUME NEW new \in a[s]
          PROVE  \E k \in s : \E e \in a[s \ {k}] : new \in Updates(e, cap, k, score[k])
      <4>1. PICK k \in s : new \in UpdatesOf(a[s \ {k}], cap, k, score[k])
        BY <3>1
      <4> QED
        BY <4>1 DEF UpdatesOf
    <3> QED
      BY <2>3, <3>2 DEF IsLast
  <2> QED
    BY <2>2, <2>3
<1>13. PICK W : W = {s \in SUBSET keys : \A h \in a[s] : h \in Heaps /\ <<s, h>> \in P}
  OBVIOUS
<1>14. ASSUME NEW s \in SUBSET keys, \A x \in s : s \ {x} \in W, NEW new \in a[s]
       PROVE  new \in Heaps /\ <<s, new>> \in P
  <2>1. CASE s = {}
    <3>1. new \in heaps
      BY <1>12, <2>1 DEF IsLast
    <3> QED
      BY <2>1, <3>1 DEF Carried
  <2>2. CASE s # {}
    <3>1. PICK k \in s : \E h \in a[s \ {k}] : new \in Updates(h, cap, k, score[k])
      BY <1>12, <2>2 DEF IsLast
    <3>2. PICK h \in a[s \ {k}] : new \in Updates(h, cap, k, score[k])
      BY <3>1
    <3>3. h \in Heaps /\ <<s \ {k}, h>> \in P /\ k \in Keys /\ score[k] \in Int
      BY <1>13, <1>14
    <3>4. new \in Heaps
      BY <3>2, <3>3, UpdatesFacts
    <3>5. <<s, new>> \in P
      BY <3>2, <3>3 DEF Carried
    <3> QED
      BY <3>4, <3>5
  <2> QED
    BY <2>1, <2>2
<1>15. Inductive(keys, W)
  BY <1>13, <1>14 DEF Inductive
<1>16. keys \in W
  BY <1>1, <1>15, PartInduction
<1>17. Rescores(heaps, cap, keys, score) = a[keys]
  BY <1>10, RescoresIs
<1> QED
  BY <1>13, <1>16, <1>17

LEMMA RescoresFit ==
  ASSUME NEW heaps \in SUBSET Heaps, NEW cap \in Nat, NEW keys \in SUBSET Keys,
         NEW score \in [Keys -> Int], \A h \in heaps : Fits(h, cap)
  PROVE  \A h \in Rescores(heaps, cap, keys, score) : Fits(h, cap)
<1>1. PICK P : P = {p \in (SUBSET keys) \X Heaps : Fits(p[2], cap)}
  OBVIOUS
<1>2. \A s \in SUBSET keys : \A h \in Heaps : <<s, h>> \in P <=> Fits(h, cap)
  BY <1>1
<1>3. \A h \in heaps : <<{}, h>> \in P
  BY <1>2
<1>4. ASSUME NEW s \in SUBSET keys, NEW k \in s, NEW h \in Heaps, <<s \ {k}, h>> \in P,
             NEW new \in Updates(h, cap, k, score[k])
      PROVE  <<s, new>> \in P
  <2>1. Fits(h, cap) /\ k \in Keys /\ score[k] \in Int
    BY <1>2, <1>4
  <2>2. Fits(new, cap)
    BY <2>1, UpdatesFit
  <2>3. new \in Heaps
    BY <2>2 DEF Fits
  <2> QED
    BY <1>2, <2>2, <2>3
<1>5. Carried(heaps, cap, keys, score, P)
  BY <1>3, <1>4 DEF Carried
<1>6. \A h \in Rescores(heaps, cap, keys, score) : h \in Heaps /\ <<keys, h>> \in P
  BY <1>5, RescoresCarry
<1> QED
  BY <1>2, <1>6

\* The heaviest of the keys that were scored, at their scores.
Top(h, cap, done, score) ==
  /\ h \in Heaps
  /\ done \in SUBSET Keys
  /\ DOMAIN h \subseteq done
  /\ Cardinality(DOMAIN h) = Smaller(cap, Cardinality(done))
  /\ \A k \in DOMAIN h : h[k] = score[k]
  /\ \A k \in DOMAIN h : \A other \in done \ DOMAIN h : score[k] >= score[other]

LEMMA TopUpdate ==
  ASSUME NEW cap \in Nat, NEW score \in [Keys -> Int], NEW h, NEW done,
         Top(h, cap, done, score), NEW k \in Keys, NEW new \in Updates(h, cap, k, score[k])
  PROVE  Top(new, cap, done \cup {k}, score)
<1>1. /\ h \in Heaps /\ done \in SUBSET Keys /\ DOMAIN h \subseteq done
      /\ Cardinality(DOMAIN h) = Smaller(cap, Cardinality(done))
      /\ \A e \in DOMAIN h : h[e] = score[e]
      /\ \A e \in DOMAIN h : \A other \in done \ DOMAIN h : score[e] >= score[other]
  BY DEF Top
<1>2. PICK D \in SUBSET Keys : D = DOMAIN h
  BY <1>1
<1>3. PICK n \in Int : n = score[k]
  OBVIOUS
<1>4. /\ IsFiniteSet(done) /\ Cardinality(done) \in Nat
      /\ IsFiniteSet(D) /\ Cardinality(D) \in Nat /\ Cardinality(D) <= Cardinality(done)
  BY <1>1, <1>2, FoldAssumption, FS_Subset, FS_CardinalityType
<1>5. \A e \in Keys : score[e] \in Int
  OBVIOUS
<1>6. new \in Heaps /\ (\/ Stays(h, cap, k, n, new) \/ Enters(h, cap, k, n, new)
                        \/ Replaces(h, cap, k, n, new))
  BY <1>1, <1>3, UpdatesFacts
<1>7. PICK more \in SUBSET Keys : more = done \cup {k}
  BY <1>1
<1>8. k \in done => more = done
  BY <1>7
<1>9. k \notin done => Cardinality(more) = Cardinality(done) + 1
  BY <1>4, <1>7, FS_AddElement
<1>10. Cardinality(D) = IF cap < Cardinality(done) THEN cap ELSE Cardinality(done)
  BY <1>1, <1>2 DEF Smaller
<1>11. CASE Stays(h, cap, k, n, new)
  <2>1. new = h /\ k \notin D /\ Cardinality(D) >= cap /\ \A e \in D : h[e] >= n
    BY <1>2, <1>11 DEF Stays
  <2>2. Cardinality(D) = Smaller(cap, Cardinality(more))
    BY <1>4, <1>8, <1>9, <1>10, <2>1 DEF Smaller
  <2>3. \A e \in D : \A other \in more \ D : score[e] >= score[other]
    BY <1>1, <1>2, <1>3, <1>7, <2>1
  <2>4. D \subseteq more /\ DOMAIN new = D /\ \A e \in D : new[e] = score[e]
    BY <1>1, <1>2, <1>7, <2>1
  <2> QED
    BY <1>6, <1>7, <2>2, <2>3, <2>4 DEF Top
<1>12. CASE Enters(h, cap, k, n, new)
  <2>1. /\ k \in D \/ Cardinality(D) < cap
        /\ DOMAIN new = D \cup {k}
        /\ \A e \in DOMAIN new : new[e] = IF e = k THEN n ELSE h[e]
    BY <1>2, <1>12 DEF Enters
  <2>2. \A e \in DOMAIN new : new[e] = score[e]
    BY <1>1, <1>2, <1>3, <2>1
  <2>3. DOMAIN new \subseteq more
    BY <1>1, <1>2, <1>7, <2>1
  <2>4. CASE k \in D
    <3>1. DOMAIN new = D /\ more = done
      BY <1>1, <1>2, <1>8, <2>1, <2>4
    <3> QED
      BY <1>1, <1>2, <1>6, <1>7, <2>2, <3>1 DEF Top
  <2>5. CASE k \notin D
    <3>1. Cardinality(D) = Cardinality(done)
      BY <1>4, <1>10, <2>1, <2>5
    <3>2. D = done
      BY <1>1, <1>2, <1>4, <3>1, FS_Subset
    <3>3. DOMAIN new = more
      BY <1>7, <2>1, <3>2
    <3>4. Cardinality(more) = Smaller(cap, Cardinality(more))
      BY <1>4, <1>9, <2>1, <2>5, <3>2 DEF Smaller
    <3> QED
      BY <1>6, <1>7, <2>2, <3>3, <3>4 DEF Top
  <2> QED
    BY <2>4, <2>5
<1>13. CASE Replaces(h, cap, k, n, new)
  <2>1. k \notin D /\ Cardinality(D) >= cap
    BY <1>2, <1>13 DEF Replaces
  <2>2. PICK out \in D : /\ n > h[out]
                         /\ \A e \in D : h[out] <= h[e]
                         /\ DOMAIN new = (D \ {out}) \cup {k}
                         /\ \A e \in DOMAIN new : new[e] = IF e = k THEN n ELSE h[e]
    BY <1>2, <1>13 DEF Replaces
  <2>3. \A e \in D : h[e] = score[e] /\ score[e] \in Int
    BY <1>1, <1>2
  <2>4. ASSUME k \in done
        PROVE  FALSE
    <3>1. score[out] >= score[k]
      BY <1>1, <1>2, <2>1, <2>4
    <3> QED
      BY <1>3, <2>2, <2>3, <3>1
  <2>5. \A e \in DOMAIN new : new[e] = score[e]
    BY <1>3, <2>2, <2>3
  <2>6. DOMAIN new \subseteq more
    BY <1>1, <1>2, <1>7, <2>2
  <2>7. Cardinality(DOMAIN new) = Cardinality(D)
    <3>1. PICK r : r = D \ {out}
      OBVIOUS
    <3>2. IsFiniteSet(r) /\ Cardinality(r) = Cardinality(D) - 1
      BY <1>4, <3>1, FS_RemoveElement
    <3>3. Cardinality(r \cup {k}) = Cardinality(r) + 1
      BY <2>1, <3>1, <3>2, FS_AddElement
    <3> QED
      BY <1>4, <2>2, <3>1, <3>2, <3>3
  <2>8. Cardinality(D) = Smaller(cap, Cardinality(more))
    BY <1>4, <1>9, <1>10, <2>1, <2>4 DEF Smaller
  <2>9. ASSUME NEW e \in DOMAIN new, NEW other \in more \ DOMAIN new
        PROVE  score[e] >= score[other]
    <3>1. other = out \/ other \in done \ D
      BY <1>7, <2>2
    <3>2. score[e] >= score[out]
      <4>1. CASE e = k
        BY <1>3, <2>2, <2>3, <4>1
      <4>2. CASE e # k
        BY <2>2, <2>3, <4>2
      <4> QED
        BY <4>1, <4>2
    <3>3. score[out] >= score[other]
      BY <1>1, <1>2, <2>3, <3>1
    <3>4. score[e] \in Int /\ score[out] \in Int /\ score[other] \in Int
      BY <1>5, <1>7, <2>3, <2>6
    <3> QED
      BY <3>2, <3>3, <3>4
  <2> QED
    BY <1>6, <1>7, <2>5, <2>6, <2>7, <2>8, <2>9 DEF Top
<1> QED
  BY <1>6, <1>7, <1>11, <1>12, <1>13

LEMMA RescoresTop ==
  ASSUME NEW heaps \in SUBSET Heaps, NEW cap \in Nat, NEW keys \in SUBSET Keys,
         NEW score \in [Keys -> Int], NEW done, \A h \in heaps : Top(h, cap, done, score)
  PROVE  \A h \in Rescores(heaps, cap, keys, score) : Top(h, cap, done \cup keys, score)
<1>1. PICK P : P = {p \in (SUBSET keys) \X Heaps : Top(p[2], cap, done \cup p[1], score)}
  OBVIOUS
<1>2. \A s \in SUBSET keys : \A h \in Heaps : <<s, h>> \in P <=> Top(h, cap, done \cup s, score)
  BY <1>1
<1>3. \A h \in heaps : <<{}, h>> \in P
  <2>1. done \cup {} = done
    OBVIOUS
  <2> QED
    BY <1>2, <2>1
<1>4. ASSUME NEW s \in SUBSET keys, NEW k \in s, NEW h \in Heaps, <<s \ {k}, h>> \in P,
             NEW new \in Updates(h, cap, k, score[k])
      PROVE  <<s, new>> \in P
  <2>1. PICK so : so = done \cup (s \ {k})
    OBVIOUS
  <2>2. Top(h, cap, so, score) /\ k \in Keys
    BY <1>2, <1>4, <2>1
  <2>3. Top(new, cap, so \cup {k}, score)
    BY <2>2, TopUpdate
  <2>4. so \cup {k} = done \cup s
    BY <2>1
  <2>5. new \in Heaps
    BY <2>3 DEF Top
  <2> QED
    BY <1>2, <2>3, <2>4, <2>5
<1>5. Carried(heaps, cap, keys, score, P)
  BY <1>3, <1>4 DEF Carried
<1>6. \A h \in Rescores(heaps, cap, keys, score) : h \in Heaps /\ <<keys, h>> \in P
  BY <1>5, RescoresCarry
<1> QED
  BY <1>2, <1>6

\* Scored keys are at their scores, all others where they were.
Mixed(before, keys, score, h) ==
  /\ h \in Heaps
  /\ \A e \in DOMAIN h : IF e \in keys THEN h[e] = score[e]
                         ELSE e \in DOMAIN before /\ h[e] = before[e]

LEMMA MixedUpdate ==
  ASSUME NEW before, NEW cap \in Nat, NEW score \in [Keys -> Int], NEW s, NEW k \in s,
         NEW h, Mixed(before, s \ {k}, score, h), k \in Keys,
         NEW new \in Updates(h, cap, k, score[k])
  PROVE  Mixed(before, s, score, new)
<1>1. h \in Heaps /\ \A e \in DOMAIN h : IF e \in s \ {k} THEN h[e] = score[e]
                                       ELSE e \in DOMAIN before /\ h[e] = before[e]
  BY DEF Mixed
<1>2. PICK n \in Int : n = score[k]
  OBVIOUS
<1>3. new \in Heaps /\ (\/ Stays(h, cap, k, n, new) \/ Enters(h, cap, k, n, new)
                        \/ Replaces(h, cap, k, n, new))
  BY <1>1, <1>2, UpdatesFacts
<1>4. /\ DOMAIN new \subseteq DOMAIN h \cup {k}
      /\ \A e \in DOMAIN new : new[e] = IF e = k THEN n ELSE h[e]
  BY <1>3 DEF Stays, Enters, Replaces
<1>5. ASSUME NEW e \in DOMAIN new
      PROVE  IF e \in s THEN new[e] = score[e] ELSE e \in DOMAIN before /\ new[e] = before[e]
  <2>1. CASE e = k
    BY <1>2, <1>4, <2>1
  <2>2. CASE e # k
    <3>1. e \in DOMAIN h /\ new[e] = h[e] /\ (e \in s <=> e \in s \ {k})
      BY <1>4, <2>2
    <3> QED
      BY <1>1, <3>1
  <2> QED
    BY <2>1, <2>2
<1> QED
  BY <1>3, <1>5 DEF Mixed

LEMMA RescoresMixed ==
  ASSUME NEW before \in Heaps, NEW cap \in Nat, NEW keys \in SUBSET Keys,
         NEW score \in [Keys -> Int]
  PROVE  \A h \in Rescores({before}, cap, keys, score) : Mixed(before, keys, score, h)
<1>1. PICK P : P = {p \in (SUBSET keys) \X Heaps : Mixed(before, p[1], score, p[2])}
  OBVIOUS
<1>2. \A s \in SUBSET keys : \A h \in Heaps : <<s, h>> \in P <=> Mixed(before, s, score, h)
  BY <1>1
<1>3. \A h \in {before} : <<{}, h>> \in P
  <2>1. Mixed(before, {}, score, before)
    BY DEF Mixed
  <2> QED
    BY <1>2, <2>1
<1>4. ASSUME NEW s \in SUBSET keys, NEW k \in s, NEW h \in Heaps, <<s \ {k}, h>> \in P,
             NEW new \in Updates(h, cap, k, score[k])
      PROVE  <<s, new>> \in P
  <2>1. Mixed(before, s \ {k}, score, h) /\ k \in Keys
    BY <1>2, <1>4
  <2>2. Mixed(before, s, score, new)
    BY <2>1, MixedUpdate
  <2>3. new \in Heaps
    BY <2>2 DEF Mixed
  <2> QED
    BY <1>2, <2>2, <2>3
<1>5. Carried({before}, cap, keys, score, P)
  BY <1>3, <1>4 DEF Carried
<1>6. \A h \in Rescores({before}, cap, keys, score) : h \in Heaps /\ <<keys, h>> \in P
  BY <1>5, RescoresCarry
<1> QED
  BY <1>2, <1>6

(***************************************************************************)
(* The heaps of a sketch built out of others.                              *)
(***************************************************************************)
CellsOf(x) ==
  [RowsOf(x) -> UNION {[0..(FoldCols(level) - 1) -> Cell] : level \in Levels}]

SketchOf(x) == [level : Levels, cells : CellsOf(x), cap : Nat, heap : Heaps]

LEMMA ExactCells ==
  ASSUME NEW x, NEW level, NEW cells, NEW w, Exact(x, level, cells, w)
  PROVE  cells \in CellsOf(x)
<1>1. level \in Levels /\ cells = [r \in RowsOf(x) |-> cells[r]]
  BY DEF Exact
<1>2. ASSUME NEW r \in RowsOf(x)
      PROVE  cells[r] \in UNION {[0..(FoldCols(l) - 1) -> Cell] : l \in Levels}
  <2>1. cells[r] \in [0..(FoldCols(level) - 1) -> Cell]
    BY DEF Exact, ExactRow
  <2> QED
    BY <1>1, <2>1
<1> QED
  BY <1>1, <1>2 DEF CellsOf

LEMMA CapOfFacts ==
  ASSUME NEW parts \in Parts, DOMAIN parts # {}, \A s \in Sketches : sketch[s].cap \in Nat
  PROVE  CapOf(parts) \in Nat
<1>1. PICK n \in Nat : /\ DOMAIN parts = 1..n /\ IsFiniteSet(1..n)
                       /\ \A i \in 1..n : parts[i] \in Sketches
  BY PartsFacts
<1>2. PICK S : S = 1..n
  OBVIOUS
<1>3. \A i \in S : sketch[parts[i]].cap \in Nat
  BY <1>1, <1>2
<1>4. PICK f : f = [i \in S |-> -(sketch[parts[i]].cap)]
  OBVIOUS
<1>5. f \in [S -> Int]
  BY <1>3, <1>4
<1>6. PICK e \in S : \A i \in S : f[e] <= f[i]
  BY <1>1, <1>2, <1>5, LeastMember
<1>7. PICK T : T = {sketch[parts[i]].cap : i \in DOMAIN parts}
  OBVIOUS
<1>8. sketch[parts[e]].cap \in T /\ \A c \in T : sketch[parts[e]].cap >= c
  <2>1. ASSUME NEW c \in T
        PROVE  sketch[parts[e]].cap >= c
    <3>1. PICK i \in S : c = sketch[parts[i]].cap
      BY <1>1, <1>2, <1>7
    <3>2. f[e] = -(sketch[parts[e]].cap) /\ f[i] = -c /\ f[e] <= f[i]
      BY <1>4, <1>6, <3>1
    <3>3. PICK a \in Nat, b \in Nat : a = sketch[parts[e]].cap /\ b = c
      BY <1>3, <3>1
    <3> QED
      BY <3>2, <3>3
  <2> QED
    BY <1>1, <1>2, <1>7, <2>1
<1>9. Max(T) \in T
  BY <1>8, Zenon DEF Max
<1>10. T \subseteq Nat
  BY <1>1, <1>2, <1>3, <1>7
<1> QED
  BY <1>7, <1>9, <1>10 DEF CapOf

HeapsOf(parts, score) ==
  FoldLeft(LAMBDA hs, p : Rescores(hs, CapOf(parts), Residents(p), score), {EmptyHeap}, parts)

HeapsTurns(parts, score, g) ==
  g = [p \in SUBSET DOMAIN parts |->
         IF p = {} THEN {EmptyHeap}
         ELSE Rescores(g[p \ {Max(p)}], CapOf(parts), Residents(parts[Max(p)]), score)]

HeapsFold(parts, score) == CHOOSE g : HeapsTurns(parts, score, g)

LEMMA HeapsOfIs ==
  ASSUME NEW parts, NEW score
  PROVE  HeapsOf(parts, score) = HeapsFold(parts, score)[DOMAIN parts]
<1> DEFINE iter == CHOOSE iter : iter =
             [p \in SUBSET DOMAIN parts |->
                IF p = {} THEN {EmptyHeap}
                ELSE LET x == Max(p)
                     IN  Rescores(iter[p \ {x}], CapOf(parts), Residents(parts[x]), score)]
<1>1. HeapsOf(parts, score) = iter[DOMAIN parts]
  BY Zenon DEF HeapsOf, FoldLeft, MapThenFoldSet
<1>2. iter = HeapsFold(parts, score)
  BY Zenon DEF HeapsFold, HeapsTurns
<1> QED
  BY <1>1, <1>2, Zenon

LEMMA EmptyHeapFacts ==
  /\ EmptyHeap \in Heaps /\ DOMAIN EmptyHeap = {}
  /\ \A cap \in Nat : \A score : Top(EmptyHeap, cap, {}, score)
<1>1. DOMAIN EmptyHeap = {} /\ EmptyHeap \in [{} -> Int] /\ {} \in SUBSET Keys
  BY DEF EmptyHeap
<1>2. EmptyHeap \in Heaps
  BY <1>1 DEF Heaps
<1>3. Cardinality({}) = 0
  BY FS_EmptySet
<1>4. \A cap \in Nat : Smaller(cap, 0) = 0
  BY DEF Smaller
<1>5. ASSUME NEW cap \in Nat, NEW score
      PROVE  Top(EmptyHeap, cap, {}, score)
  BY <1>1, <1>2, <1>3, <1>4 DEF Top
<1> QED
  BY <1>1, <1>2, <1>5

\* The residents of some of the parts.
From(parts, p) == UNION {Residents(parts[i]) : i \in p}

LEMMA HeapsOfTop ==
  ASSUME NEW parts \in Parts, CapOf(parts) \in Nat,
         \A s \in Sketches : sketch[s].heap \in Heaps, NEW score \in [Keys -> Int]
  PROVE  \A h \in HeapsOf(parts, score) : Top(h, CapOf(parts), From(parts, DOMAIN parts), score)
<1>1. PICK n \in Nat : /\ DOMAIN parts = 1..n /\ IsFiniteSet(1..n)
                       /\ \A i \in 1..n : parts[i] \in Sketches
  BY PartsFacts
<1>2. PICK S : S = 1..n
  OBVIOUS
<1>3. PICK cap \in Nat : cap = CapOf(parts)
  OBVIOUS
<1>4. PICK own : own = [i \in S |-> Residents(parts[i])]
  OBVIOUS
<1>5. \A i \in S : own[i] = Residents(parts[i]) /\ own[i] \in SUBSET Keys
  <2>1. ASSUME NEW i \in S
        PROVE  Residents(parts[i]) \in SUBSET Keys
    <3>1. sketch[parts[i]].heap \in Heaps
      BY <1>1, <1>2
    <3> QED
      BY <3>1, HeapFacts DEF Residents
  <2> QED
    BY <1>4, <2>1
<1>6. PICK V : V = SUBSET Heaps
  OBVIOUS
<1>7. ASSUME NEW hs \in V, NEW i \in S
      PROVE  Rescores(hs, cap, own[i], score) \in V
  <2>1. PICK P : P = (SUBSET own[i]) \X Heaps
    OBVIOUS
  <2>2. \A s \in SUBSET own[i] : \A h \in Heaps : <<s, h>> \in P
    BY <2>1
  <2>3. own[i] \in SUBSET Keys /\ hs \in SUBSET Heaps
    BY <1>5, <1>6
  <2>4. ASSUME NEW s \in SUBSET own[i], NEW k \in s, NEW h \in Heaps,
               NEW new \in Updates(h, cap, k, score[k])
        PROVE  <<s, new>> \in P
    <3>1. k \in Keys /\ score[k] \in Int
      BY <2>3
    <3>2. new \in Heaps
      BY <3>1, UpdatesFacts
    <3> QED
      BY <2>2, <3>2
  <2>5. Carried(hs, cap, own[i], score, P)
    BY <2>2, <2>3, <2>4 DEF Carried
  <2>6. \A h \in Rescores(hs, cap, own[i], score) : h \in Heaps
    BY <2>3, <2>5, RescoresCarry
  <2> QED
    BY <1>6, <2>6
<1>8. PICK turn : turn = [p \in S \X V |-> Rescores(p[2], cap, own[p[1]], score)]
  OBVIOUS
<1>9. \A i \in S, hs \in V :
         turn[<<i, hs>>] = Rescores(hs, cap, own[i], score) /\ turn[<<i, hs>>] \in V
  BY <1>7, <1>8
<1>10. \A p \in SUBSET S : p # {} => Max(p) \in p
  BY <1>2, MaxOf
<1>11. {EmptyHeap} \in V
  BY <1>6, EmptyHeapFacts
<1>12. PICK g \in [SUBSET S -> V] : \A p \in SUBSET S : Turned(turn, {EmptyHeap}, g, p)
  <2>1. \A i \in 1..n, v \in V : turn[<<i, v>>] \in V
    BY <1>2, <1>9
  <2> QED
    BY <1>2, <1>11, <2>1, LeftFoldExists
<1>13. ASSUME NEW p \in SUBSET S
       PROVE  g[p] = IF p = {} THEN {EmptyHeap}
                     ELSE Rescores(g[p \ {Max(p)}], CapOf(parts), Residents(parts[Max(p)]), score)
  <2>1. CASE p = {}
    BY <1>12, <2>1 DEF Turned
  <2>2. CASE p # {}
    <3>1. g[p] = turn[<<Max(p), g[p \ {Max(p)}]>>] /\ Max(p) \in S
      BY <1>10, <1>12, <2>2 DEF Turned
    <3>2. g[p \ {Max(p)}] \in V
      OBVIOUS
    <3> QED
      BY <1>3, <1>5, <1>9, <2>2, <3>1, <3>2
  <2> QED
    BY <2>1, <2>2
<1>14. HeapsTurns(parts, score, g)
  BY <1>1, <1>2, <1>13 DEF HeapsTurns
<1>15. PICK a : a = HeapsFold(parts, score)
  OBVIOUS
<1>16. HeapsTurns(parts, score, a)
  BY <1>14, <1>15 DEF HeapsFold
<1>17. \A p \in SUBSET S : a[p] = IF p = {} THEN {EmptyHeap}
          ELSE Rescores(a[p \ {Max(p)}], CapOf(parts), Residents(parts[Max(p)]), score)
  BY <1>1, <1>2, <1>16 DEF HeapsTurns
<1>18. PICK W : W = {p \in SUBSET S : \A h \in a[p] : Top(h, cap, From(parts, p), score)}
  OBVIOUS
<1>19. ASSUME NEW p \in SUBSET S, \A x \in p : p \ {x} \in W
       PROVE  \A h \in a[p] : Top(h, cap, From(parts, p), score)
  <2>1. CASE p = {}
    <3>1. a[p] = {EmptyHeap} /\ From(parts, p) = {}
      BY <1>17, <2>1 DEF From
    <3> QED
      BY <3>1, EmptyHeapFacts
  <2>2. CASE p # {}
    <3>1. PICK x \in p : x = Max(p)
      BY <1>10, <2>2
    <3>2. PICK hs : hs = a[p \ {x}]
      OBVIOUS
    <3>3. PICK done : done = From(parts, p \ {x})
      OBVIOUS
    <3>4. \A h \in hs : Top(h, cap, done, score)
      BY <1>18, <1>19, <3>2, <3>3
    <3>5. hs \in SUBSET Heaps
      BY <3>4 DEF Top
    <3>6. PICK keys \in SUBSET Keys : keys = Residents(parts[x])
      BY <1>5
    <3>7. \A h \in Rescores(hs, cap, keys, score) : Top(h, cap, done \cup keys, score)
      BY <3>4, <3>5, RescoresTop
    <3>8. a[p] = Rescores(hs, cap, keys, score)
      BY <1>3, <1>17, <2>2, <3>1, <3>2, <3>6
    <3>9. done \cup keys = From(parts, p)
      BY <3>3, <3>6 DEF From
    <3> QED
      BY <3>7, <3>8, <3>9
  <2> QED
    BY <2>1, <2>2
<1>20. Inductive(S, W)
  BY <1>18, <1>19 DEF Inductive
<1>21. S \in W
  BY <1>1, <1>2, <1>20, PartInduction
<1>22. \A h \in a[S] : Top(h, cap, From(parts, S), score)
  BY <1>18, <1>21
<1>23. HeapsOf(parts, score) = a[S]
  BY <1>1, <1>2, <1>15, HeapsOfIs
<1> QED
  BY <1>1, <1>2, <1>3, <1>22, <1>23

(***************************************************************************)
(* The invariant.                                                          *)
(***************************************************************************)
TypeOK ==
  /\ shape \in Shapes
  /\ sketch \in [Sketches -> SketchOf(shape)]
  /\ inserts \in 0..MaxInserts[shape] /\ merges \in 0..MaxMerges
  /\ weight \in [Sketches -> Weightings]
  /\ unscored \in [Sketches -> SUBSET Keys]
  /\ rebuilt \in [at : SUBSET Sketches, from : SUBSET Keys]

\* No heap holds more than its capacity.
HeapsFit == \A s \in Sketches : Fits(sketch[s].heap, sketch[s].cap)

Exactly == AllExact(shape, sketch, weight)

Sound == TypeOK /\ HeapsFit /\ Exactly

EstAll(x, w) == [k \in Keys |-> EstOf(x, w, k)]

LEMMA ScoreFacts ==
  ASSUME shape \in Shapes, NEW level, NEW cells, NEW w, Exact(shape, level, cells, w)
  PROVE  ScoreOf(level, cells) = EstAll(shape, w) /\ EstAll(shape, w) \in [Keys -> Int]
<1>1. w \in Weightings
  BY DEF Exact
<1>2. \A k \in Keys : Estimate(level, cells, k) = EstOf(shape, w, k)
  BY EstimateIs
<1>3. \A k \in Keys : EstOf(shape, w, k) \in Int
  BY <1>1, EstFacts
<1> QED
  BY <1>2, <1>3 DEF ScoreOf, EstAll

LEMMA SketchFacts ==
  ASSUME Sound, NEW s \in Sketches
  PROVE  /\ sketch[s] \in SketchOf(shape)
         /\ sketch[s].level \in Levels /\ sketch[s].cap \in Nat /\ sketch[s].heap \in Heaps
         /\ Fits(sketch[s].heap, sketch[s].cap)
         /\ weight[s] \in Weightings
         /\ Exact(shape, sketch[s].level, sketch[s].cells, weight[s])
BY DEF Sound, TypeOK, HeapsFit, Exactly, AllExact, SketchOf

\* A call leaves one sketch anew and all others as they were.
Leaves(s, sk, w) ==
  /\ s \in Sketches
  /\ sk \in SketchOf(shape)
  /\ Fits(sk.heap, sk.cap)
  /\ Exact(shape, sk.level, sk.cells, w)
  /\ shape' = shape
  /\ sketch' = [sketch EXCEPT ![s] = sk]
  /\ weight' = [weight EXCEPT ![s] = w]

\* The sketch with other cells and another heap.
Renewed(sk, cells, heap) ==
  [level |-> sk.level, cells |-> cells, cap |-> sk.cap, heap |-> heap]

RenewedTo(s, cells, heap, w, new) ==
  /\ new \in SketchOf(shape) /\ Fits(new.heap, new.cap)
  /\ Exact(shape, new.level, new.cells, w)
  /\ [sketch EXCEPT ![s].cells = cells, ![s].heap = heap] = [sketch EXCEPT ![s] = new]

LEMMA RenewedFacts ==
  ASSUME Sound, NEW s \in Sketches, NEW cells, NEW w,
         Exact(shape, sketch[s].level, cells, w), NEW heap, Fits(heap, sketch[s].cap)
  PROVE  RenewedTo(s, cells, heap, w, Renewed(sketch[s], cells, heap))
<1>1. PICK sk : sk = sketch[s]
  OBVIOUS
<1>2. sk \in SketchOf(shape) /\ sk.level \in Levels /\ sk.cap \in Nat
  BY <1>1, SketchFacts
<1>3. cells \in CellsOf(shape) /\ heap \in Heaps
  BY ExactCells DEF Fits
<1>4. PICK new : new = Renewed(sk, cells, heap)
  OBVIOUS
<1>5. /\ new \in SketchOf(shape) /\ new.level = sk.level /\ new.cells = cells
      /\ new.cap = sk.cap /\ new.heap = heap
  BY <1>2, <1>3, <1>4 DEF Renewed, SketchOf
<1>6. [sk EXCEPT !.cells = cells, !.heap = heap] = new
  <2>1. PICK half : half = [sk EXCEPT !.cells = cells]
    OBVIOUS
  <2>2. half = [level |-> sk.level, cells |-> cells, cap |-> sk.cap, heap |-> sk.heap]
    BY <1>2, <2>1 DEF SketchOf
  <2>3. [half EXCEPT !.heap = heap] = new
    BY <1>4, <2>2 DEF Renewed
  <2> QED
    BY <2>1, <2>3
<1>7. sketch \in [Sketches -> SketchOf(shape)]
  BY DEF Sound, TypeOK
<1>8. [sketch EXCEPT ![s].cells = cells, ![s].heap = heap] = [sketch EXCEPT ![s] = new]
  BY <1>1, <1>2, <1>6, <1>7 DEF SketchOf
<1> QED
  BY <1>1, <1>4, <1>5, <1>8 DEF RenewedTo

InsertedWeight(s, k, delta) == [weight[s] EXCEPT ![k] = @ + delta]

LEMMA InsertLeaves ==
  ASSUME Sound, NEW s \in Sketches, NEW k \in Keys, NEW delta \in Deltas, Insert(s, k, delta)
  PROVE  \E h \in Updates(sketch[s].heap, sketch[s].cap, k,
                          EstOf(shape, InsertedWeight(s, k, delta), k)) :
           Leaves(s, Renewed(sketch[s], Inserted(sketch[s].level, sketch[s].cells, k, delta), h),
                  InsertedWeight(s, k, delta))
<1>1. shape \in Shapes /\ delta \in Int /\ weight \in [Sketches -> Weightings]
  BY FoldAssumption DEF Sound, TypeOK
<1>2. PICK level, old, cap, was : /\ level = sketch[s].level /\ old = sketch[s].cells
                                  /\ cap = sketch[s].cap /\ was = weight[s]
  OBVIOUS
<1>3. /\ cap \in Nat /\ was \in Weightings /\ Fits(sketch[s].heap, cap)
      /\ Exact(shape, level, old, was)
  BY <1>2, SketchFacts
<1>4. PICK w : w = [was EXCEPT ![k] = @ + delta]
  OBVIOUS
<1>5. PICK cells : cells = Inserted(level, old, k, delta)
  OBVIOUS
<1>6. Exact(shape, level, cells, w)
  BY <1>1, <1>3, <1>4, <1>5, InsertedExact
<1>7. PICK n : n = EstOf(shape, w, k)
  OBVIOUS
<1>8. n \in Int /\ Estimate(level, cells, k) = n
  <2>1. w \in Weightings
    BY <1>6 DEF Exact
  <2> QED
    BY <1>1, <1>6, <1>7, <2>1, EstFacts, EstimateIs
<1>9. PICK heap \in Updates(sketch[s].heap, cap, k, n) :
         sketch' = [sketch EXCEPT ![s].cells = cells, ![s].heap = heap]
  BY <1>2, <1>5, <1>8 DEF Insert
<1>10. Fits(heap, cap)
  BY <1>3, <1>8, <1>9, UpdatesFit
<1>11. weight' = [weight EXCEPT ![s] = w] /\ shape' = shape
  <2>1. weight' = [weight EXCEPT ![s][k] = @ + delta] /\ shape' = shape
    BY DEF Insert
  <2> QED
    BY <1>1, <1>2, <1>4, <2>1
<1>12. PICK new : new = Renewed(sketch[s], cells, heap)
  OBVIOUS
<1>13. RenewedTo(s, cells, heap, w, new)
  BY <1>2, <1>6, <1>10, <1>12, RenewedFacts
<1>14. Leaves(s, new, w)
  BY <1>9, <1>11, <1>13 DEF Leaves, RenewedTo
<1> QED
  BY <1>2, <1>4, <1>5, <1>7, <1>9, <1>12, <1>14 DEF InsertedWeight

MergedWeight(s, other) == [k \in Keys |-> weight[s][k] + weight[other][k]]

LEMMA WeightOfTwo ==
  ASSUME NEW s \in Sketches, NEW other \in Sketches, \A t \in Sketches : weight[t] \in Weightings
  PROVE  WeightOf(<<s, other>>) = MergedWeight(s, other)
<1>1. PICK parts : parts = <<s, other>>
  OBVIOUS
<1>2. parts \in Parts /\ DOMAIN parts = {1, 2} /\ parts[1] = s /\ parts[2] = other
  <2>1. parts \in [1..2 -> Sketches] /\ DOMAIN parts = {1, 2} /\ parts[1] = s /\ parts[2] = other
    BY <1>1
  <2> QED
    BY <2>1 DEF Parts
<1>3. Max({1, 2}) = 2 /\ Max({1}) = 1
  <2>1. Max({1, 2}) \in {1, 2} /\ \A y \in {1, 2} : Max({1, 2}) >= y
    <3>1. 2 \in {1, 2} /\ \A y \in {1, 2} : 2 >= y
      OBVIOUS
    <3> QED
      BY <3>1, Zenon DEF Max
  <2>2. Max({1}) \in {1}
    <3>1. 1 \in {1} /\ \A y \in {1} : 1 >= y
      OBVIOUS
    <3> QED
      BY <3>1, Zenon DEF Max
  <2> QED
    BY <2>1, <2>2
<1>4. ASSUME NEW k \in Keys
      PROVE  WeightFold(parts, k)[{1, 2}] = weight[s][k] + weight[other][k]
  <2>1. PICK b : b = WeightFold(parts, k)
    OBVIOUS
  <2>2. TakenUp(parts, k, b)
    BY <1>2, <2>1, WeightFoldFacts
  <2>3. {1, 2} \ {2} = {1} /\ {1} \ {1} = {} /\ {1} \in SUBSET {1, 2}
    OBVIOUS
  <2>4. b[{}] = 0 /\ b[{1}] = b[{}] + weight[s][k]
    BY <1>2, <1>3, <2>2, <2>3 DEF TakenUp
  <2>5. b[{1, 2}] = b[{1}] + weight[other][k]
    <3>1. PICK S : S = {1, 2}
      OBVIOUS
    <3>2. S \in SUBSET DOMAIN parts /\ S # {} /\ Max(S) = 2 /\ S \ {2} = {1}
      BY <1>2, <1>3, <2>3, <3>1
    <3>3. b[S] = b[S \ {Max(S)}] + weight[parts[Max(S)]][k]
      BY <2>2, <3>2 DEF TakenUp
    <3> QED
      BY <1>2, <3>1, <3>2, <3>3
  <2>6. weight[s][k] \in Int /\ weight[other][k] \in Int
    BY DEF Weightings
  <2> QED
    BY <2>1, <2>4, <2>5, <2>6
<1>5. WeightOf(parts) = [k \in Keys |-> WeightFold(parts, k)[DOMAIN parts]]
  BY <1>2, WeightOfFacts
<1> QED
  BY <1>1, <1>2, <1>4, <1>5 DEF MergedWeight

LEMMA MergeLeaves ==
  ASSUME Sound, NEW s \in Sketches, NEW other \in Sketches, MergeSameLevel(s, other)
  PROVE  \E cells, h : /\ Mixed(sketch[s].heap, Residents(other),
                                EstAll(shape, MergedWeight(s, other)), h)
                       /\ Leaves(s, Renewed(sketch[s], cells, h), MergedWeight(s, other))
                       /\ unscored' = [unscored EXCEPT ![s] =
                                         (@ \cup Residents(s)) \ Residents(other)]
<1>1. shape \in Shapes
  BY DEF Sound, TypeOK
<1>2. PICK level, from, cap, u, v : /\ level = sketch[s].level /\ from = sketch[other]
                                    /\ cap = sketch[s].cap /\ u = weight[s] /\ v = weight[other]
  OBVIOUS
<1>3. PICK cells : cells = Scattered(from, level, sketch[s].cells)
  OBVIOUS
<1>4. PICK w : w = [k \in Keys |-> u[k] + v[k]]
  OBVIOUS
<1>5. Exact(shape, level, sketch[s].cells, u) /\ Exact(shape, from.level, from.cells, v)
  BY <1>2, SketchFacts
<1>6. Exact(shape, level, cells, w)
  BY <1>1, <1>3, <1>4, <1>5, ScatteredExact
<1>7. PICK score \in [Keys -> Int] : score = EstAll(shape, w) /\ score = ScoreOf(level, cells)
  BY <1>1, <1>6, ScoreFacts
<1>8. PICK heap \in Rescores({sketch[s].heap}, cap, Residents(other), score) :
         /\ sketch' = [sketch EXCEPT ![s].cells = cells, ![s].heap = heap]
         /\ unscored' = [unscored EXCEPT ![s] = (@ \cup Residents(s)) \ Residents(other)]
  BY <1>2, <1>3, <1>7 DEF MergeSameLevel
<1>9. PICK before \in Heaps : before = sketch[s].heap
  BY SketchFacts
<1>10. PICK keys \in SUBSET Keys : keys = Residents(other)
  <2>1. sketch[other].heap \in Heaps
    BY SketchFacts
  <2> QED
    BY <2>1, HeapFacts DEF Residents
<1>11. cap \in Nat /\ Fits(before, cap)
  BY <1>2, <1>9, SketchFacts
<1>12. Fits(heap, cap)
  <2>1. {before} \in SUBSET Heaps /\ \A h \in {before} : Fits(h, cap)
    BY <1>11
  <2> QED
    BY <1>8, <1>9, <1>10, <1>11, <2>1, RescoresFit
<1>13. Mixed(before, keys, score, heap)
  BY <1>8, <1>9, <1>10, <1>11, RescoresMixed
<1>14. w = MergedWeight(s, other)
  BY <1>2, <1>4 DEF MergedWeight
<1>15. weight' = [weight EXCEPT ![s] = w] /\ shape' = shape
  <2>1. WeightOf(<<s, other>>) = w
    <3>1. \A t \in Sketches : weight[t] \in Weightings
      BY SketchFacts
    <3> QED
      BY <1>14, <3>1, WeightOfTwo
  <2> QED
    BY <2>1 DEF MergeSameLevel, Merging
<1>16. PICK new : new = Renewed(sketch[s], cells, heap)
  OBVIOUS
<1>17. RenewedTo(s, cells, heap, w, new)
  BY <1>2, <1>6, <1>12, <1>16, RenewedFacts
<1>18. Leaves(s, new, w)
  BY <1>8, <1>15, <1>17 DEF Leaves, RenewedTo
<1> QED
  BY <1>7, <1>8, <1>9, <1>10, <1>13, <1>14, <1>16, <1>18

LEMMA RebuildLeaves ==
  ASSUME Sound, NEW s \in Sketches, NEW parts \in Parts, DOMAIN parts # {},
         NEW level \in Levels, Rebuild(s, parts, level), shape' = shape
  PROVE  \E sk : /\ Leaves(s, sk, WeightOf(parts))
                 /\ Top(sk.heap, sk.cap, From(parts, DOMAIN parts), EstAll(shape, WeightOf(parts)))
                 /\ rebuilt' = [at |-> {s}, from |-> From(parts, DOMAIN parts)]
                 /\ unscored' = [unscored EXCEPT ![s] = {}]
<1>1. shape \in Shapes
  BY DEF Sound, TypeOK
<1>2. PICK cells : cells = ScatteredAll(parts, level)
  OBVIOUS
<1>3. PICK w : w = WeightOf(parts)
  OBVIOUS
<1>4. Exact(shape, level, cells, w)
  BY <1>1, <1>2, <1>3, ScatteredAllExact DEF Sound, Exactly
<1>5. PICK score \in [Keys -> Int] : score = EstAll(shape, w) /\ score = ScoreOf(level, cells)
  BY <1>1, <1>4, ScoreFacts
<1>6. PICK cap \in Nat : cap = CapOf(parts)
  <2>1. \A t \in Sketches : sketch[t].cap \in Nat
    BY SketchFacts
  <2> QED
    BY <2>1, CapOfFacts
<1>7. PICK heap \in HeapsOf(parts, score) :
         sketch' = [sketch EXCEPT ![s] =
                      [level |-> level, cells |-> cells, cap |-> cap, heap |-> heap]]
  <2>1. \E heap \in HeapsOf(parts, ScoreOf(level, ScatteredAll(parts, level))) :
          sketch' = [sketch EXCEPT ![s] =
                       [level |-> level, cells |-> ScatteredAll(parts, level),
                        cap |-> CapOf(parts), heap |-> heap]]
    BY Zenon DEF Rebuild, HeapsOf
  <2> QED
    BY <1>2, <1>5, <1>6, <2>1
<1>8. Top(heap, cap, From(parts, DOMAIN parts), score)
  <2>1. \A t \in Sketches : sketch[t].heap \in Heaps
    BY SketchFacts
  <2> QED
    BY <1>6, <1>7, <2>1, HeapsOfTop
<1>9. PICK sk : sk = [level |-> level, cells |-> cells, cap |-> cap, heap |-> heap]
  OBVIOUS
<1>10. sk.level = level /\ sk.cells = cells /\ sk.cap = cap /\ sk.heap = heap
  BY <1>9
<1>11. heap \in Heaps /\ Fits(heap, cap)
  <2>1. /\ heap \in Heaps /\ From(parts, DOMAIN parts) \in SUBSET Keys
        /\ Cardinality(DOMAIN heap) = Smaller(cap, Cardinality(From(parts, DOMAIN parts)))
    BY <1>8 DEF Top
  <2>2. Cardinality(From(parts, DOMAIN parts)) \in Nat
    BY <2>1, FoldAssumption, FS_Subset, FS_CardinalityType
  <2>3. Cardinality(DOMAIN heap) <= cap
    BY <2>1, <2>2 DEF Smaller
  <2> QED
    BY <2>1, <2>3 DEF Fits
<1>12. sk \in SketchOf(shape)
  <2>1. cells \in CellsOf(shape)
    BY <1>4, ExactCells
  <2> QED
    BY <1>9, <1>11, <2>1 DEF SketchOf
<1>13. /\ weight' = [weight EXCEPT ![s] = w]
       /\ unscored' = [unscored EXCEPT ![s] = {}]
       /\ rebuilt' = [at |-> {s}, from |-> From(parts, DOMAIN parts)]
  BY <1>3 DEF Rebuild, From
<1>14. Leaves(s, sk, w)
  BY <1>4, <1>7, <1>9, <1>10, <1>11, <1>12, <1>13 DEF Leaves
<1> QED
  BY <1>3, <1>5, <1>8, <1>10, <1>13, <1>14

LEMMA ClearLeaves ==
  ASSUME Sound, NEW s \in Sketches, Clear(s)
  PROVE  \E sk : DOMAIN sk.heap = {} /\ Leaves(s, sk, NoWeight)
<1>1. shape \in Shapes
  BY DEF Sound, TypeOK
<1>2. PICK sk : sk = sketch[s]
  OBVIOUS
<1>3. sk \in SketchOf(shape) /\ sk.level \in Levels /\ sk.cap \in Nat
  BY <1>2, SketchFacts
<1>4. PICK cells : cells = EmptyCells(sk.level)
  OBVIOUS
<1>5. Exact(shape, sk.level, cells, NoWeight)
  BY <1>1, <1>3, <1>4, EmptyExact
<1>6. cells \in CellsOf(shape)
  BY <1>5, ExactCells
<1>7. EmptyHeap \in Heaps /\ DOMAIN EmptyHeap = {}
  BY EmptyHeapFacts
<1>8. Fits(EmptyHeap, sk.cap)
  <2>1. Cardinality({}) = 0
    BY FS_EmptySet
  <2> QED
    BY <1>3, <1>7, <2>1 DEF Fits
<1>9. PICK heap : heap = EmptyHeap
  OBVIOUS
<1>10. PICK new : new = Renewed(sk, cells, heap)
  OBVIOUS
<1>11. /\ new \in SketchOf(shape) /\ new.level = sk.level /\ new.cells = cells
       /\ new.cap = sk.cap /\ new.heap = heap
  BY <1>3, <1>6, <1>7, <1>9, <1>10 DEF Renewed, SketchOf
<1>12. Cleared(sk) = new
  <2>1. PICK half : half = [sk EXCEPT !.cells = cells]
    OBVIOUS
  <2>2. half = [level |-> sk.level, cells |-> cells, cap |-> sk.cap, heap |-> sk.heap]
    BY <1>3, <2>1 DEF SketchOf
  <2>3. [half EXCEPT !.heap = heap] = new
    BY <1>10, <2>2 DEF Renewed
  <2> QED
    BY <1>4, <1>9, <2>1, <2>3 DEF Cleared
<1>13. sketch \in [Sketches -> SketchOf(shape)]
  BY DEF Sound, TypeOK
<1>14. sketch' = [sketch EXCEPT ![s] = new]
  <2>1. sketch' = [sketch EXCEPT ![s] = Cleared(sketch[s])]
    BY DEF Clear
  <2> QED
    BY <1>2, <1>12, <2>1
<1>15. weight' = [weight EXCEPT ![s] = NoWeight] /\ shape' = shape
  BY DEF Clear, Merging, NoWeight
<1>16. Leaves(s, new, NoWeight)
  BY <1>5, <1>8, <1>9, <1>11, <1>14, <1>15 DEF Leaves
<1> QED
  BY <1>7, <1>9, <1>11, <1>16

LEMMA CloneLeaves ==
  ASSUME Sound, NEW s \in Sketches, NEW a \in Sketches, Clone(s, a), shape' = shape
  PROVE  Leaves(s, sketch[a], weight[a])
<1>1. /\ sketch[a] \in SketchOf(shape) /\ Fits(sketch[a].heap, sketch[a].cap)
      /\ Exact(shape, sketch[a].level, sketch[a].cells, weight[a])
  BY SketchFacts
<1> QED
  BY <1>1 DEF Leaves, Clone

\* What unfoldings and merges are given is a row of sketches, and they end at
\* a level there is.
LEMMA PartsOf ==
  /\ \A a, b \in Sketches : <<a, b>> \in Parts /\ DOMAIN <<a, b>> # {}
  /\ \A a \in Sketches : <<a>> \in Parts /\ DOMAIN <<a>> # {}
  /\ \A n \in Nat \ {0, 1} : \A parts \in [1..n -> Sketches] :
       parts \in Parts /\ DOMAIN parts # {}
<1>1. ASSUME NEW a \in Sketches, NEW b \in Sketches
      PROVE  <<a, b>> \in Parts /\ DOMAIN <<a, b>> # {}
  <2>1. <<a, b>> \in [1..2 -> Sketches] /\ 1 \in DOMAIN <<a, b>>
    OBVIOUS
  <2> QED
    BY <2>1 DEF Parts
<1>2. ASSUME NEW a \in Sketches
      PROVE  <<a>> \in Parts /\ DOMAIN <<a>> # {}
  <2>1. <<a>> \in [1..1 -> Sketches] /\ 1 \in DOMAIN <<a>>
    OBVIOUS
  <2> QED
    BY <2>1 DEF Parts
<1>3. ASSUME NEW n \in Nat \ {0, 1}, NEW parts \in [1..n -> Sketches]
      PROVE  parts \in Parts /\ DOMAIN parts # {}
  <2>1. 1 \in DOMAIN parts
    OBVIOUS
  <2> QED
    BY <2>1 DEF Parts
<1> QED
  BY <1>1, <1>2, <1>3

LEMMA LowerLevels ==
  ASSUME NEW level \in Levels
  PROVE  level \in Nat /\ 0 \in Levels /\ (level > 0 => level - 1 \in Levels)
<1>1. level \in Nat /\ 0..level \subseteq Levels
  BY FoldAssumption
<1>2. 0 \in 0..level /\ (level > 0 => level - 1 \in 0..level)
  BY <1>1
<1> QED
  BY <1>1, <1>2

\* A call that builds a sketch out of parts, and what it leaves.
Rebuilds(s, parts) ==
  \E sk : /\ Leaves(s, sk, WeightOf(parts))
          /\ Top(sk.heap, sk.cap, From(parts, DOMAIN parts), EstAll(shape, WeightOf(parts)))
          /\ rebuilt' = [at |-> {s}, from |-> From(parts, DOMAIN parts)]
          /\ unscored' = [unscored EXCEPT ![s] = {}]

\* The steps, by what they leave.
Inserts == \E s \in Sketches, k \in Keys, delta \in Deltas : Insert(s, k, delta)
Merges  == \E s, other \in Sketches : MergeSameLevel(s, other)
Clears  == \E s \in Sketches : Clear(s)
Clones  == \E s, a \in Sketches : Merging /\ Clone(s, a)
Builds  == \E s \in Sketches, parts \in Parts : Merging /\ Rebuilds(s, parts)

LEMMA NextIs ==
  ASSUME Sound, Next
  PROVE  Inserts \/ Merges \/ Clears \/ Clones \/ Builds \/ UNCHANGED vars
<1>1. ASSUME NEW s \in Sketches, NEW parts \in Parts, DOMAIN parts # {},
             NEW level \in Levels, Merging, Rebuild(s, parts, level)
      PROVE  Builds
  <2>1. shape' = shape
    BY <1>1 DEF Merging
  <2>2. Rebuilds(s, parts)
    BY <1>1, <2>1, RebuildLeaves, Zenon DEF Rebuilds
  <2> QED
    BY <1>1, <2>2 DEF Builds
<1>2. ASSUME NEW s \in Sketches, NEW a \in Sketches, NEW b \in Sketches, UnfoldMerge(s, a, b)
      PROVE  Builds
  <2>1. sketch[a].level \in Levels /\ sketch[a].level > 0
    BY <1>2, SketchFacts DEF UnfoldMerge
  <2>2. sketch[a].level - 1 \in Levels
    BY <2>1, LowerLevels
  <2>3. Merging /\ Rebuild(s, <<a, b>>, sketch[a].level - 1)
    BY <1>2 DEF UnfoldMerge
  <2>4. <<a, b>> \in Parts /\ DOMAIN <<a, b>> # {}
    BY PartsOf
  <2> QED
    BY <1>1, <2>2, <2>3, <2>4
<1>3. ASSUME NEW s \in Sketches, NEW a \in Sketches, NEW level \in Levels,
             UnfoldTo(s, a, level)
      PROVE  Builds \/ Clones
  <2>1. CASE level = sketch[a].level
    BY <1>3, <2>1 DEF UnfoldTo, Clones
  <2>2. CASE level # sketch[a].level
    <3>1. Merging /\ Rebuild(s, <<a>>, level)
      BY <1>3, <2>2 DEF UnfoldTo
    <3>2. <<a>> \in Parts /\ DOMAIN <<a>> # {}
      BY PartsOf
    <3> QED
      BY <1>1, <3>1, <3>2
  <2> QED
    BY <2>1, <2>2
<1>4. ASSUME NEW s \in Sketches, NEW n \in 2..Cardinality(Sketches),
             NEW parts \in [1..n -> Sketches], HierarchicalMerge(s, parts)
      PROVE  Builds
  <2>1. n \in Nat \ {0, 1}
    OBVIOUS
  <2>2. parts \in Parts /\ DOMAIN parts # {}
    BY <2>1, PartsOf
  <2>3. sketch[s].level \in Levels
    BY SketchFacts
  <2>4. 0 \in Levels
    BY <2>3, LowerLevels
  <2>5. Merging /\ Rebuild(s, parts, 0)
    BY <1>4 DEF HierarchicalMerge
  <2> QED
    BY <1>1, <2>2, <2>4, <2>5
<1> QED
  BY <1>2, <1>3, <1>4 DEF Next, Inserts, Merges, Clears, Done

LEMMA LeavesFacts ==
  ASSUME Sound, NEW s \in Sketches, NEW sk, NEW w, Leaves(s, sk, w)
  PROVE  /\ shape' = shape
         /\ sketch'[s] = sk /\ weight'[s] = w
         /\ \A t \in Sketches \ {s} : sketch'[t] = sketch[t] /\ weight'[t] = weight[t]
         /\ sketch' \in [Sketches -> SketchOf(shape)]
         /\ weight' \in [Sketches -> Weightings]
         /\ HeapsFit' /\ Exactly'
<1>1. /\ sketch \in [Sketches -> SketchOf(shape)] /\ weight \in [Sketches -> Weightings]
      /\ HeapsFit /\ Exactly
  BY DEF Sound, TypeOK
<1>2. /\ sk \in SketchOf(shape) /\ Fits(sk.heap, sk.cap) /\ Exact(shape, sk.level, sk.cells, w)
      /\ shape' = shape
      /\ sketch' = [sketch EXCEPT ![s] = sk] /\ weight' = [weight EXCEPT ![s] = w]
  BY DEF Leaves
<1>3. w \in Weightings
  BY <1>2 DEF Exact
<1>4. /\ sketch'[s] = sk /\ weight'[s] = w
      /\ \A t \in Sketches \ {s} : sketch'[t] = sketch[t] /\ weight'[t] = weight[t]
      /\ sketch' \in [Sketches -> SketchOf(shape)]
      /\ weight' \in [Sketches -> Weightings]
  BY <1>1, <1>2, <1>3
<1>5. HeapsFit'
  <2>1. ASSUME NEW t \in Sketches
        PROVE  Fits(sketch'[t].heap, sketch'[t].cap)
    BY <1>1, <1>2, <1>4 DEF HeapsFit
  <2> QED
    BY <2>1 DEF HeapsFit
<1>6. Exactly'
  <2>1. ASSUME NEW t \in Sketches
        PROVE  Exact(shape, sketch'[t].level, sketch'[t].cells, weight'[t])
    BY <1>1, <1>2, <1>4 DEF Exactly, AllExact
  <2>2. AllExact(shape, sketch', weight')
    BY <2>1 DEF AllExact
  <2> QED
    BY <1>2, <2>2 DEF Exactly
<1> QED
  BY <1>2, <1>4, <1>5, <1>6

(***************************************************************************)
(* What a sketch that takes no weight away is told of a key: as much as    *)
(* was inserted at least, and more the more was.                           *)
(***************************************************************************)
LEMMA LeastOfRow ==
  ASSUME NEW n \in Nat \ {0}, NEW v \in [1..n -> Int]
  PROVE  \E i \in 1..n : Ordered(v, 1) = v[i] /\ \A u \in 1..n : v[i] <= v[u]
<1>1. PICK S : S = 1..n
  OBVIOUS
<1>2. IsFiniteSet(S) /\ S # {} /\ v \in [S -> Int]
  <2>1. 1 \in S /\ v \in [S -> Int]
    BY <1>1
  <2>2. IsFiniteSet(S)
    BY <1>1, FS_Interval
  <2> QED
    BY <2>1, <2>2
<1>3. PICK i \in S : \A u \in S : v[i] <= v[u]
  BY <1>2, LeastMember
<1>4. After(v, n, {}, i)
  BY <1>1, <1>3 DEF After
<1>5. Ordered(v, 1) = v[i]
  BY <1>4, FirstPlace
<1> QED
  BY <1>1, <1>3, <1>5

Nonnegative(w) == \A k \in Keys : w[k] >= 0

LEMMA WideIsNat ==
  ASSUME NEW x \in Shapes, x.way = "min", NEW r \in RowsOf(x), NEW col,
         NEW w \in Weightings, Nonnegative(w)
  PROVE  WideOf(x, w, r, col) \in Nat
<1>1. PICK S \in SUBSET Keys : S = Sharing(r, col)
  BY DEF Sharing
<1>2. IsFiniteSet(S)
  BY FoldAssumption, FS_Subset
<1>3. \A k \in S : SignAs(x, k, r) * w[k] \in Nat
  <2>1. ASSUME NEW k \in S
        PROVE  SignAs(x, k, r) * w[k] \in Nat
    <3>1. SignAs(x, k, r) = 1
      BY DEF SignAs
    <3>2. w[k] \in Int /\ w[k] >= 0
      BY DEF Weightings, Nonnegative
    <3> QED
      BY <3>1, <3>2
  <2> QED
    BY <2>1
<1>4. PICK f \in [S -> Nat] : f = [k \in S |-> SignAs(x, k, r) * w[k]]
  BY <1>3
<1>5. SumOf(f) \in Nat
  BY <1>2, SumIsNat
<1> QED
  BY <1>1, <1>4, <1>5 DEF WideOf

LEMMA EstIsTold ==
  ASSUME NEW x \in Shapes, x.way = "min", NEW w \in Weightings, NEW k \in Keys
  PROVE  /\ \E r \in RowsOf(x) : EstOf(x, w, k) = WideOf(x, w, r, FullCol(k, r))
         /\ \A r \in RowsOf(x) : EstOf(x, w, k) <= WideOf(x, w, r, FullCol(k, r))
<1>1. PICK n \in Nat \ {0} : n = x.rows
  BY ShapeFacts
<1>2. PICK v \in [1..n -> Int] : v = Told(x, w, k)
  BY <1>1, ToldFacts
<1>3. EstOf(x, w, k) = Ordered(v, 1)
  BY <1>2 DEF EstOf
<1>4. PICK i \in 1..n : Ordered(v, 1) = v[i] /\ \A u \in 1..n : v[i] <= v[u]
  BY LeastOfRow
<1>5. ASSUME NEW r \in RowsOf(x)
      PROVE  v[r] = WideOf(x, w, r, FullCol(k, r))
  <2>1. v[r] = SignAs(x, k, r) * WideOf(x, w, r, FullCol(k, r)) /\ SignAs(x, k, r) = 1
    BY <1>2 DEF Told, SignAs
  <2>2. WideOf(x, w, r, FullCol(k, r)) \in Int
    BY SharingFacts
  <2> QED
    BY <2>1, <2>2
<1>6. RowsOf(x) = 1..n
  BY <1>1 DEF RowsOf
<1> QED
  BY <1>3, <1>4, <1>5, <1>6

LEMMA EstGrows ==
  ASSUME NEW x \in Shapes, x.way = "min", NEW u \in Weightings, NEW w \in Weightings,
         \A k \in Keys : u[k] <= w[k], NEW e \in Keys
  PROVE  EstOf(x, u, e) <= EstOf(x, w, e)
<1>1. PICK v : v = [k \in Keys |-> w[k] - u[k]]
  OBVIOUS
<1>2. v \in Weightings /\ Nonnegative(v) /\ \A k \in Keys : w[k] = u[k] + v[k]
  BY <1>1 DEF Weightings, Nonnegative
<1>3. PICK r \in RowsOf(x) : EstOf(x, w, e) = WideOf(x, w, r, FullCol(e, r))
  BY EstIsTold
<1>4. PICK col : col = FullCol(e, r)
  OBVIOUS
<1>5. WideOf(x, w, r, col) = WideOf(x, u, r, col) + WideOf(x, v, r, col)
  BY <1>2, WideAdds
<1>6. WideOf(x, v, r, col) \in Nat /\ WideOf(x, u, r, col) \in Int
  BY <1>2, WideIsNat, SharingFacts
<1>7. EstOf(x, u, e) <= WideOf(x, u, r, col)
  BY <1>4, EstIsTold
<1>8. EstOf(x, u, e) \in Int
  BY EstFacts
<1> QED
  BY <1>3, <1>4, <1>5, <1>6, <1>7, <1>8

LEMMA WeightUnderEst ==
  ASSUME NEW x \in Shapes, x.way = "min", NEW w \in Weightings, Nonnegative(w), NEW e \in Keys
  PROVE  w[e] <= EstOf(x, w, e)
<1>1. PICK z : z = [w EXCEPT ![e] = 0]
  OBVIOUS
<1>2. PICK delta \in Nat : delta = w[e]
  BY DEF Weightings, Nonnegative
<1>3. z \in Weightings /\ Nonnegative(z) /\ [z EXCEPT ![e] = @ + delta] = w
  <2>1. w \in [Keys -> Int] /\ z \in [Keys -> Int] /\ z[e] + delta = delta
    BY <1>1, <1>2 DEF Weightings
  <2>2. \A k \in Keys : z[k] >= 0
    BY <1>1, <2>1 DEF Nonnegative
  <2>3. PICK y : y = [z EXCEPT ![e] = @ + delta]
    OBVIOUS
  <2>4. y \in [Keys -> Int] /\ \A k \in Keys : y[k] = w[k]
    BY <1>1, <1>2, <2>1, <2>3
  <2>5. y = w
    BY <2>1, <2>4
  <2> QED
    BY <2>1, <2>2, <2>3, <2>5 DEF Weightings, Nonnegative
<1>4. PICK r \in RowsOf(x) : EstOf(x, w, e) = WideOf(x, w, r, FullCol(e, r))
  BY EstIsTold
<1>5. PICK col : col = FullCol(e, r)
  OBVIOUS
<1>6. SignAs(x, e, r) = 1
  BY DEF SignAs
<1>7. WideOf(x, z, r, col) \in Nat
  BY <1>3, WideIsNat
<1>8. WideOf(x, w, r, col) = WideOf(x, z, r, col) + delta
  <2>1. z \in Weightings /\ delta \in Int
    BY <1>3
  <2>2. WideOf(x, [z EXCEPT ![e] = @ + delta], r, col)
          = WideOf(x, z, r, col) + IF FullCol(e, r) = col THEN SignAs(x, e, r) * delta ELSE 0
    BY <1>4, <2>1, WideBumps
  <2>3. WideOf(x, w, r, col)
          = WideOf(x, z, r, col) + IF FullCol(e, r) = col THEN SignAs(x, e, r) * delta ELSE 0
    BY <1>3, <2>2, Zenon
  <2> QED
    BY <1>5, <1>6, <1>7, <2>3
<1> QED
  BY <1>2, <1>4, <1>5, <1>7, <1>8

LEMMA WeightOfGrows ==
  ASSUME NEW parts \in Parts, \A s \in Sketches : weight[s] \in Weightings,
         \A s \in Sketches : Nonnegative(weight[s])
  PROVE  Nonnegative(WeightOf(parts))
<1>1. PICK n \in Nat : /\ DOMAIN parts = 1..n /\ IsFiniteSet(1..n)
                       /\ \A i \in 1..n : parts[i] \in Sketches
  BY PartsFacts
<1>2. PICK S : S = 1..n
  OBVIOUS
<1>3. \A p \in SUBSET S : p # {} => Max(p) \in p
  BY <1>2, MaxOf
<1>4. ASSUME NEW k \in Keys
      PROVE  WeightFold(parts, k)[S] >= 0
  <2>1. PICK b : b = WeightFold(parts, k)
    OBVIOUS
  <2>2. TakenUp(parts, k, b) /\ \A p \in SUBSET S : b[p] \in Int
    BY <1>1, <1>2, <2>1, WeightFoldFacts
  <2>3. PICK W : W = {p \in SUBSET S : b[p] >= 0}
    OBVIOUS
  <2>4. ASSUME NEW p \in SUBSET S, \A x \in p : p \ {x} \in W
        PROVE  b[p] >= 0
    <3>1. CASE p = {}
      BY <2>2, <3>1 DEF TakenUp
    <3>2. CASE p # {}
      <4>1. PICK x \in p : x = Max(p)
        BY <1>3, <3>2
      <4>2. b[p] = b[p \ {x}] + weight[parts[x]][k]
        BY <1>1, <1>2, <2>2, <3>2, <4>1 DEF TakenUp
      <4>3. parts[x] \in Sketches
        BY <1>1, <1>2
      <4>4. weight[parts[x]][k] \in Int /\ weight[parts[x]][k] >= 0
        BY <4>3 DEF Weightings, Nonnegative
      <4>5. b[p \ {x}] \in Int /\ b[p \ {x}] >= 0
        BY <2>2, <2>3, <2>4
      <4> QED
        BY <4>2, <4>4, <4>5
    <3> QED
      BY <3>1, <3>2
  <2>5. Inductive(S, W)
    BY <2>3, <2>4 DEF Inductive
  <2>6. S \in W
    BY <1>1, <1>2, <2>5, PartInduction
  <2> QED
    BY <2>1, <2>3, <2>6
<1>5. WeightOf(parts) = [k \in Keys |-> WeightFold(parts, k)[S]]
  BY <1>1, <1>2, WeightOfFacts
<1> QED
  BY <1>4, <1>5 DEF Nonnegative

(***************************************************************************)
(* The heaps.                                                              *)
(***************************************************************************)
\* The heap of a result is the top of what its sources' heaps held.
RebuiltTop ==
  \A s \in rebuilt.at :
    Top(sketch[s].heap, sketch[s].cap, rebuilt.from, EstAll(shape, weight[s]))

\* A FoldCMS no weight is taken from.
NoneTaken == shape.way = "min" /\ \A delta \in Deltas : delta >= 0

Brackets(x, sk, w, un) ==
  /\ Nonnegative(w)
  /\ \A k \in DOMAIN sk.heap : /\ sk.heap[k] <= EstOf(x, w, k)
                               /\ k \notin un => w[k] <= sk.heap[k]

Bracketed ==
  NoneTaken => \A s \in Sketches : Brackets(shape, sketch[s], weight[s], unscored[s])

Inv == Sound /\ RebuiltTop /\ Bracketed

\* What a call has to leave for the invariant to hold after it.
Left(s, sk, w, un, re) ==
  /\ Leaves(s, sk, w)
  /\ un \in SUBSET Keys /\ unscored' = [unscored EXCEPT ![s] = un]
  /\ re \in [at : SUBSET Sketches, from : SUBSET Keys] /\ rebuilt' = re
  /\ inserts' \in 0..MaxInserts[shape] /\ merges' \in 0..MaxMerges
  /\ \A t \in re.at : t = s /\ Top(sk.heap, sk.cap, re.from, EstAll(shape, w))
  /\ NoneTaken => Brackets(shape, sk, w, un)

LEMMA LeftKeeps ==
  ASSUME Inv, NEW s \in Sketches, NEW sk, NEW w, NEW un, NEW re, Left(s, sk, w, un, re)
  PROVE  Inv'
<1>1. Sound /\ RebuiltTop /\ Bracketed /\ shape \in Shapes
  BY DEF Inv, Sound, TypeOK
<1>2. /\ Leaves(s, sk, w)
      /\ un \in SUBSET Keys /\ unscored' = [unscored EXCEPT ![s] = un]
      /\ re \in [at : SUBSET Sketches, from : SUBSET Keys] /\ rebuilt' = re
      /\ inserts' \in 0..MaxInserts[shape] /\ merges' \in 0..MaxMerges
      /\ \A t \in re.at : t = s /\ Top(sk.heap, sk.cap, re.from, EstAll(shape, w))
      /\ NoneTaken => Brackets(shape, sk, w, un)
  BY DEF Left
<1>3. /\ shape' = shape
      /\ sketch'[s] = sk /\ weight'[s] = w
      /\ \A t \in Sketches \ {s} : sketch'[t] = sketch[t] /\ weight'[t] = weight[t]
      /\ sketch' \in [Sketches -> SketchOf(shape)]
      /\ weight' \in [Sketches -> Weightings]
      /\ HeapsFit' /\ Exactly'
  BY <1>1, <1>2, LeavesFacts
<1>4. /\ unscored' \in [Sketches -> SUBSET Keys]
      /\ unscored'[s] = un
      /\ \A t \in Sketches \ {s} : unscored'[t] = unscored[t]
  <2>1. unscored \in [Sketches -> SUBSET Keys]
    BY <1>1 DEF Sound, TypeOK
  <2> QED
    BY <1>2, <2>1
<1>5. Sound'
  BY <1>1, <1>2, <1>3, <1>4 DEF Sound, TypeOK
<1>6. RebuiltTop'
  <2>1. ASSUME NEW t \in re.at
        PROVE  Top(sketch'[t].heap, sketch'[t].cap, re.from, EstAll(shape, weight'[t]))
    BY <1>2, <1>3
  <2>2. re.at = rebuilt.at' /\ re.from = rebuilt.from'
    BY <1>2
  <2> QED
    BY <1>3, <2>1, <2>2 DEF RebuiltTop
<1>7. Bracketed'
  <2>1. ASSUME NoneTaken, NEW t \in Sketches
        PROVE  Brackets(shape, sketch'[t], weight'[t], unscored'[t])
    <3>1. Brackets(shape, sketch[t], weight[t], unscored[t])
      BY <1>1, <2>1 DEF Bracketed
    <3> QED
      BY <1>2, <1>3, <1>4, <2>1, <3>1
  <2>2. NoneTaken' <=> NoneTaken
    BY <1>3 DEF NoneTaken
  <2> QED
    BY <1>3, <2>1, <2>2 DEF Bracketed
<1> QED
  BY <1>5, <1>6, <1>7 DEF Inv

LEMMA CountsFacts ==
  ASSUME Sound
  PROVE  /\ shape \in Shapes
         /\ inserts \in 0..MaxInserts[shape] /\ merges \in 0..MaxMerges
         /\ Merging => inserts' \in 0..MaxInserts[shape] /\ merges' \in 0..MaxMerges
         /\ unscored \in [Sketches -> SUBSET Keys]
         /\ NotRebuilt \in [at : SUBSET Sketches, from : SUBSET Keys]
         /\ NotRebuilt.at = {}
         /\ \A s \in Sketches : Residents(s) \in SUBSET Keys
<1>1. /\ shape \in Shapes
      /\ inserts \in 0..MaxInserts[shape] /\ merges \in 0..MaxMerges
      /\ unscored \in [Sketches -> SUBSET Keys]
  BY DEF Sound, TypeOK
<1>2. MaxMerges \in Nat
  BY FoldAssumption
<1>3. Merging => inserts' \in 0..MaxInserts[shape] /\ merges' \in 0..MaxMerges
  BY <1>1, <1>2 DEF Merging
<1>4. NotRebuilt \in [at : SUBSET Sketches, from : SUBSET Keys] /\ NotRebuilt.at = {}
  BY DEF NotRebuilt
<1>5. ASSUME NEW s \in Sketches
      PROVE  Residents(s) \in SUBSET Keys
  <2>1. sketch[s].heap \in Heaps
    BY SketchFacts
  <2> QED
    BY <2>1, HeapFacts DEF Residents
<1> QED
  BY <1>1, <1>3, <1>4, <1>5

LEMMA InsertBrackets ==
  ASSUME Sound, Bracketed, NoneTaken, NEW s \in Sketches, NEW k \in Keys, NEW delta \in Deltas,
         NEW heap \in Updates(sketch[s].heap, sketch[s].cap, k,
                              EstOf(shape, InsertedWeight(s, k, delta), k)),
         NEW sk, sk.heap = heap
  PROVE  Brackets(shape, sk, InsertedWeight(s, k, delta), unscored[s] \ {k})
<1>1. shape \in Shapes /\ shape.way = "min" /\ delta \in Int /\ delta >= 0
  BY FoldAssumption DEF Sound, TypeOK, NoneTaken
<1>2. PICK was \in Weightings : was = weight[s]
  BY SketchFacts
<1>3. PICK w : w = [was EXCEPT ![k] = @ + delta]
  OBVIOUS
<1>4. PICK before \in Heaps, cap \in Nat : before = sketch[s].heap /\ cap = sketch[s].cap
  BY SketchFacts
<1>5. PICK un : un = unscored[s]
  OBVIOUS
<1>6. /\ Nonnegative(was)
      /\ \A e \in DOMAIN before : /\ before[e] <= EstOf(shape, was, e)
                                  /\ e \notin un => was[e] <= before[e]
  BY <1>2, <1>4, <1>5 DEF Bracketed, Brackets
<1>7. w \in Weightings /\ Nonnegative(w) /\ \A e \in Keys : was[e] <= w[e] /\ (e # k => w[e] = was[e])
  BY <1>1, <1>2, <1>3, <1>6 DEF Weightings, Nonnegative
<1>8. PICK n \in Int : n = EstOf(shape, w, k)
  BY <1>1, <1>7, EstFacts
<1>9. heap \in Updates(before, cap, k, n)
  BY <1>2, <1>3, <1>4, <1>8 DEF InsertedWeight
<1>10. heap \in Heaps /\ (\/ Stays(before, cap, k, n, heap) \/ Enters(before, cap, k, n, heap)
                          \/ Replaces(before, cap, k, n, heap))
  BY <1>9, UpdatesFacts
<1>11. \A e \in DOMAIN heap : IF e = k THEN heap[e] = n
                              ELSE e \in DOMAIN before /\ heap[e] = before[e]
  BY <1>10 DEF Stays, Enters, Replaces
<1>12. ASSUME NEW e \in DOMAIN heap
       PROVE  heap[e] <= EstOf(shape, w, e) /\ (e \notin un \ {k} => w[e] <= heap[e])
  <2>1. e \in Keys
    BY <1>10, HeapFacts
  <2>2. CASE e = k
    <3>1. heap[e] = EstOf(shape, w, e) /\ EstOf(shape, w, e) \in Int
      BY <1>8, <1>11, <2>2
    <3>2. w[e] <= EstOf(shape, w, e)
      BY <1>1, <1>7, <2>1, WeightUnderEst
    <3> QED
      BY <3>1, <3>2
  <2>3. CASE e # k
    <3>1. e \in DOMAIN before /\ heap[e] = before[e]
      BY <1>11, <2>3
    <3>2. EstOf(shape, was, e) <= EstOf(shape, w, e)
      BY <1>1, <1>7, <2>1, EstGrows
    <3>3. EstOf(shape, was, e) \in Int /\ EstOf(shape, w, e) \in Int
      BY <1>1, <1>7, <2>1, EstFacts
    <3>4. before[e] \in Int
      BY <3>1, HeapFacts
    <3>5. heap[e] <= EstOf(shape, w, e)
      BY <1>6, <3>1, <3>2, <3>3, <3>4
    <3>6. e \notin un \ {k} => w[e] <= heap[e]
      BY <1>6, <1>7, <2>1, <2>3, <3>1
    <3> QED
      BY <3>5, <3>6
  <2> QED
    BY <2>2, <2>3
<1> QED
  BY <1>2, <1>3, <1>5, <1>7, <1>12 DEF Brackets, InsertedWeight

LEMMA InsertKeeps ==
  ASSUME Inv, NEW s \in Sketches, NEW k \in Keys, NEW delta \in Deltas, Insert(s, k, delta)
  PROVE  Inv'
<1>1. Sound /\ Bracketed
  BY DEF Inv
<1>2. PICK w : w = InsertedWeight(s, k, delta)
  OBVIOUS
<1>3. PICK cells : cells = Inserted(sketch[s].level, sketch[s].cells, k, delta)
  OBVIOUS
<1>4. PICK heap \in Updates(sketch[s].heap, sketch[s].cap, k,
                            EstOf(shape, InsertedWeight(s, k, delta), k)) :
         Leaves(s, Renewed(sketch[s], cells, heap), w)
  BY <1>1, <1>2, <1>3, InsertLeaves
<1>5. PICK sk : sk = Renewed(sketch[s], cells, heap)
  OBVIOUS
<1>6. sk.heap = heap
  BY <1>5 DEF Renewed
<1>7. PICK un : un = unscored[s] \ {k}
  OBVIOUS
<1>8. /\ inserts \in 0..MaxInserts[shape] /\ merges \in 0..MaxMerges
      /\ unscored \in [Sketches -> SUBSET Keys]
      /\ NotRebuilt \in [at : SUBSET Sketches, from : SUBSET Keys]
      /\ NotRebuilt.at = {}
  BY <1>1, CountsFacts
<1>9. MaxInserts[shape] \in Nat
  BY <1>1, CountsFacts, FoldAssumption
<1>10. inserts' \in 0..MaxInserts[shape] /\ merges' \in 0..MaxMerges
  BY <1>8, <1>9 DEF Insert
<1>11. rebuilt' = NotRebuilt /\ unscored' = [unscored EXCEPT ![s] = un]
  BY <1>7, <1>8 DEF Insert
<1>12. un \in SUBSET Keys
  BY <1>7, <1>8
<1>13. NoneTaken => Brackets(shape, sk, w, un)
  BY <1>1, <1>2, <1>6, <1>7, InsertBrackets
<1>14. Left(s, sk, w, un, NotRebuilt)
  BY <1>4, <1>5, <1>8, <1>10, <1>11, <1>12, <1>13 DEF Left
<1> QED
  BY <1>14, LeftKeeps

LEMMA MergeBrackets ==
  ASSUME Sound, Bracketed, NoneTaken, NEW s \in Sketches, NEW other \in Sketches,
         NEW heap, Mixed(sketch[s].heap, Residents(other),
                         EstAll(shape, MergedWeight(s, other)), heap),
         NEW sk, sk.heap = heap
  PROVE  Brackets(shape, sk, MergedWeight(s, other),
                  (unscored[s] \cup Residents(s)) \ Residents(other))
<1>1. shape \in Shapes /\ shape.way = "min"
  BY DEF Sound, TypeOK, NoneTaken
<1>2. PICK u \in Weightings, v \in Weightings : u = weight[s] /\ v = weight[other]
  BY SketchFacts
<1>3. PICK w : w = MergedWeight(s, other)
  OBVIOUS
<1>4. PICK before \in Heaps : before = sketch[s].heap
  BY SketchFacts
<1>5. PICK keys : keys = Residents(other)
  OBVIOUS
<1>6. /\ Nonnegative(u) /\ Nonnegative(v)
      /\ \A e \in DOMAIN before : before[e] <= EstOf(shape, u, e)
  BY <1>2, <1>4 DEF Bracketed, Brackets
<1>7. w \in Weightings /\ Nonnegative(w) /\ \A e \in Keys : u[e] <= w[e]
  <2>1. \A e \in Keys : u[e] \in Int /\ v[e] \in Int /\ u[e] >= 0 /\ v[e] >= 0
    BY <1>6 DEF Weightings, Nonnegative
  <2>2. w = [e \in Keys |-> u[e] + v[e]]
    BY <1>2, <1>3 DEF MergedWeight
  <2> QED
    BY <2>1, <2>2 DEF Weightings, Nonnegative
<1>8. PICK score : score = EstAll(shape, w)
  OBVIOUS
<1>9. /\ heap \in Heaps
      /\ \A e \in DOMAIN heap : IF e \in keys THEN heap[e] = score[e]
                                ELSE e \in DOMAIN before /\ heap[e] = before[e]
  BY <1>3, <1>4, <1>5, <1>8 DEF Mixed
<1>10. PICK un : un = (unscored[s] \cup Residents(s)) \ Residents(other)
  OBVIOUS
<1>11. ASSUME NEW e \in DOMAIN heap
       PROVE  heap[e] <= EstOf(shape, w, e) /\ (e \notin un => w[e] <= heap[e])
  <2>1. e \in Keys
    BY <1>9, HeapFacts
  <2>2. EstOf(shape, w, e) \in Int /\ EstOf(shape, u, e) \in Int
    BY <1>1, <1>7, <2>1, EstFacts
  <2>3. CASE e \in keys
    <3>1. heap[e] = EstOf(shape, w, e)
      BY <1>8, <1>9, <2>1, <2>3 DEF EstAll
    <3>2. w[e] <= EstOf(shape, w, e)
      BY <1>1, <1>7, <2>1, WeightUnderEst
    <3> QED
      BY <2>2, <3>1, <3>2
  <2>4. CASE e \notin keys
    <3>1. e \in DOMAIN before /\ heap[e] = before[e]
      BY <1>9, <2>4
    <3>2. EstOf(shape, u, e) <= EstOf(shape, w, e)
      BY <1>1, <1>7, <2>1, EstGrows
    <3>3. before[e] \in Int
      BY <3>1, HeapFacts
    <3>4. e \in un
      BY <1>4, <1>5, <1>10, <2>4, <3>1 DEF Residents
    <3>5. before[e] <= EstOf(shape, u, e)
      BY <1>6, <3>1
    <3> QED
      BY <2>2, <3>1, <3>2, <3>3, <3>4, <3>5
  <2> QED
    BY <2>3, <2>4
<1> QED
  BY <1>3, <1>7, <1>10, <1>11 DEF Brackets

LEMMA MergeKeeps ==
  ASSUME Inv, NEW s \in Sketches, NEW other \in Sketches, MergeSameLevel(s, other)
  PROVE  Inv'
<1>1. Sound /\ Bracketed
  BY DEF Inv
<1>2. PICK cells, heap :
         /\ Mixed(sketch[s].heap, Residents(other), EstAll(shape, MergedWeight(s, other)), heap)
         /\ Leaves(s, Renewed(sketch[s], cells, heap), MergedWeight(s, other))
         /\ unscored' = [unscored EXCEPT ![s] = (@ \cup Residents(s)) \ Residents(other)]
  BY <1>1, MergeLeaves, Zenon
<1>3. PICK w : w = MergedWeight(s, other)
  OBVIOUS
<1>4. PICK sk : sk = Renewed(sketch[s], cells, heap)
  OBVIOUS
<1>5. sk.heap = heap
  BY <1>4 DEF Renewed
<1>6. PICK un : un = (unscored[s] \cup Residents(s)) \ Residents(other)
  OBVIOUS
<1>7. /\ unscored \in [Sketches -> SUBSET Keys]
      /\ NotRebuilt \in [at : SUBSET Sketches, from : SUBSET Keys]
      /\ NotRebuilt.at = {}
      /\ Residents(s) \in SUBSET Keys
      /\ Merging => inserts' \in 0..MaxInserts[shape] /\ merges' \in 0..MaxMerges
  BY <1>1, CountsFacts
<1>8. inserts' \in 0..MaxInserts[shape] /\ merges' \in 0..MaxMerges /\ rebuilt' = NotRebuilt
  BY <1>7 DEF MergeSameLevel
<1>9. un \in SUBSET Keys /\ unscored' = [unscored EXCEPT ![s] = un]
  BY <1>2, <1>6, <1>7
<1>10. NoneTaken => Brackets(shape, sk, w, un)
  BY <1>1, <1>2, <1>3, <1>5, <1>6, MergeBrackets
<1>11. Left(s, sk, w, un, NotRebuilt)
  BY <1>2, <1>3, <1>4, <1>7, <1>8, <1>9, <1>10 DEF Left
<1> QED
  BY <1>11, LeftKeeps

LEMMA ClearKeeps ==
  ASSUME Inv, NEW s \in Sketches, Clear(s)
  PROVE  Inv'
<1>1. Sound
  BY DEF Inv
<1>2. PICK sk : DOMAIN sk.heap = {} /\ Leaves(s, sk, NoWeight)
  BY <1>1, ClearLeaves
<1>3. /\ NotRebuilt \in [at : SUBSET Sketches, from : SUBSET Keys]
      /\ NotRebuilt.at = {}
      /\ Merging => inserts' \in 0..MaxInserts[shape] /\ merges' \in 0..MaxMerges
  BY <1>1, CountsFacts
<1>4. /\ inserts' \in 0..MaxInserts[shape] /\ merges' \in 0..MaxMerges /\ rebuilt' = NotRebuilt
      /\ unscored' = [unscored EXCEPT ![s] = {}]
  BY <1>3 DEF Clear
<1>5. Brackets(shape, sk, NoWeight, {})
  BY <1>2 DEF Brackets, Nonnegative, NoWeight
<1>6. Left(s, sk, NoWeight, {}, NotRebuilt)
  BY <1>2, <1>3, <1>4, <1>5 DEF Left
<1> QED
  BY <1>6, LeftKeeps

LEMMA CloneKeeps ==
  ASSUME Inv, NEW s \in Sketches, NEW a \in Sketches, Merging, Clone(s, a)
  PROVE  Inv'
<1>1. Sound /\ Bracketed
  BY DEF Inv
<1>2. Leaves(s, sketch[a], weight[a])
  <2>1. shape' = shape
    BY DEF Merging
  <2> QED
    BY <1>1, <2>1, CloneLeaves
<1>3. /\ NotRebuilt \in [at : SUBSET Sketches, from : SUBSET Keys]
      /\ NotRebuilt.at = {}
      /\ inserts' \in 0..MaxInserts[shape] /\ merges' \in 0..MaxMerges
      /\ unscored \in [Sketches -> SUBSET Keys]
  BY <1>1, CountsFacts
<1>4. rebuilt' = NotRebuilt /\ unscored' = [unscored EXCEPT ![s] = unscored[a]]
  BY DEF Clone
<1>5. NoneTaken => Brackets(shape, sketch[a], weight[a], unscored[a])
  BY <1>1 DEF Bracketed
<1>6. Left(s, sketch[a], weight[a], unscored[a], NotRebuilt)
  BY <1>2, <1>3, <1>4, <1>5 DEF Left
<1> QED
  BY <1>6, LeftKeeps

LEMMA BuildKeeps ==
  ASSUME Inv, NEW s \in Sketches, NEW parts \in Parts, Merging, Rebuilds(s, parts)
  PROVE  Inv'
<1>1. Sound /\ Bracketed /\ shape \in Shapes
  BY DEF Inv, Sound, TypeOK
<1>2. PICK w, from : w = WeightOf(parts) /\ from = From(parts, DOMAIN parts)
  OBVIOUS
<1>3. PICK sk : /\ Leaves(s, sk, w)
                /\ Top(sk.heap, sk.cap, from, EstAll(shape, w))
                /\ rebuilt' = [at |-> {s}, from |-> from]
                /\ unscored' = [unscored EXCEPT ![s] = {}]
  BY <1>2 DEF Rebuilds
<1>4. PICK re : re = [at |-> {s}, from |-> from]
  OBVIOUS
<1>5. from \in SUBSET Keys
  BY <1>3 DEF Top
<1>6. re \in [at : SUBSET Sketches, from : SUBSET Keys] /\ re.at = {s} /\ re.from = from
  BY <1>4, <1>5
<1>7. inserts' \in 0..MaxInserts[shape] /\ merges' \in 0..MaxMerges
  BY <1>1, CountsFacts
<1>8. ASSUME NoneTaken
      PROVE  Brackets(shape, sk, w, {})
  <2>1. shape.way = "min"
    BY <1>8 DEF NoneTaken
  <2>2. \A t \in Sketches : weight[t] \in Weightings
    BY <1>1, SketchFacts
  <2>3. \A t \in Sketches : Nonnegative(weight[t])
    BY <1>1, <1>8 DEF Bracketed, Brackets
  <2>4. w \in Weightings /\ Nonnegative(w)
    BY <1>2, <2>2, <2>3, WeightOfFacts, WeightOfGrows
  <2>5. ASSUME NEW k \in DOMAIN sk.heap
        PROVE  sk.heap[k] <= EstOf(shape, w, k) /\ w[k] <= sk.heap[k]
    <3>1. k \in Keys /\ sk.heap[k] = EstOf(shape, w, k)
      BY <1>3, <1>5 DEF Top, EstAll
    <3>2. w[k] <= EstOf(shape, w, k) /\ EstOf(shape, w, k) \in Int
      BY <1>1, <2>1, <2>4, <3>1, WeightUnderEst, EstFacts
    <3> QED
      BY <3>1, <3>2
  <2> QED
    BY <2>4, <2>5 DEF Brackets
<1>9. Left(s, sk, w, {}, re)
  BY <1>3, <1>4, <1>6, <1>7, <1>8 DEF Left
<1> QED
  BY <1>9, LeftKeeps

LEMMA InitSound ==
  ASSUME Init
  PROVE  Inv
<1>1. PICK level \in NewLevels : sketch = [s \in Sketches |-> New(s, level[s])]
  BY DEF Init
<1>2. /\ shape \in Shapes /\ inserts = 0 /\ merges = 0
      /\ weight = [s \in Sketches |-> NoWeight]
      /\ unscored = [s \in Sketches |-> {}] /\ rebuilt = NotRebuilt
  BY DEF Init, NoWeight
<1>3. ASSUME NEW s \in Sketches
      PROVE  /\ sketch[s] \in SketchOf(shape) /\ Fits(sketch[s].heap, sketch[s].cap)
             /\ Exact(shape, sketch[s].level, sketch[s].cells, weight[s])
             /\ DOMAIN sketch[s].heap = {}
  <2>1. PICK l \in Levels : l = level[s]
    BY FoldAssumption
  <2>2. PICK cap \in Nat : cap = HeapCap[s]
    BY FoldAssumption
  <2>3. sketch[s] = [level |-> l, cells |-> EmptyCells(l), cap |-> cap, heap |-> EmptyHeap]
    BY <1>1, <2>1, <2>2 DEF New
  <2>4. Exact(shape, l, EmptyCells(l), NoWeight)
    BY <1>2, EmptyExact
  <2>5. EmptyCells(l) \in CellsOf(shape)
    BY <2>4, ExactCells
  <2>6. EmptyHeap \in Heaps /\ DOMAIN EmptyHeap = {}
    BY EmptyHeapFacts
  <2>7. Fits(EmptyHeap, cap)
    <3>1. Cardinality({}) = 0
      BY FS_EmptySet
    <3> QED
      BY <2>6, <3>1 DEF Fits
  <2>8. weight[s] = NoWeight
    BY <1>2
  <2>9. /\ sketch[s].level = l /\ sketch[s].cells = EmptyCells(l)
        /\ sketch[s].cap = cap /\ sketch[s].heap = EmptyHeap
    BY <2>3
  <2>10. sketch[s] \in SketchOf(shape)
    BY <2>3, <2>5, <2>6 DEF SketchOf
  <2> QED
    BY <2>4, <2>6, <2>7, <2>8, <2>9, <2>10
<1>4. TypeOK
  <2>1. MaxInserts[shape] \in Nat /\ MaxMerges \in Nat
    BY <1>2, FoldAssumption
  <2>2. sketch \in [Sketches -> SketchOf(shape)]
    BY <1>1, <1>3
  <2>3. weight \in [Sketches -> Weightings]
    BY <1>2 DEF NoWeight, Weightings
  <2>4. unscored \in [Sketches -> SUBSET Keys]
    BY <1>2
  <2>5. rebuilt \in [at : SUBSET Sketches, from : SUBSET Keys]
    BY <1>2 DEF NotRebuilt
  <2> QED
    BY <1>2, <2>1, <2>2, <2>3, <2>4, <2>5 DEF TypeOK
<1>5. HeapsFit /\ Exactly
  BY <1>3 DEF HeapsFit, Exactly, AllExact
<1>6. RebuiltTop
  BY <1>2 DEF RebuiltTop, NotRebuilt
<1>7. Bracketed
  <2>1. Nonnegative(NoWeight)
    BY DEF Nonnegative, NoWeight
  <2> QED
    BY <1>2, <1>3, <2>1 DEF Bracketed, Brackets
<1> QED
  BY <1>4, <1>5, <1>6, <1>7 DEF Inv, Sound

LEMMA StepKeeps ==
  ASSUME Inv, [Next]_vars
  PROVE  Inv'
<1>1. CASE UNCHANGED vars
  <2>1. /\ shape' = shape /\ sketch' = sketch /\ inserts' = inserts /\ merges' = merges
        /\ weight' = weight /\ unscored' = unscored /\ rebuilt' = rebuilt
    BY <1>1 DEF vars
  <2>2. Sound' /\ RebuiltTop' /\ Bracketed'
    BY <2>1 DEF Inv, Sound, TypeOK, HeapsFit, Exactly, RebuiltTop, Bracketed, NoneTaken
  <2> QED
    BY <2>2 DEF Inv
<1>2. CASE Next
  <2>1. Sound
    BY DEF Inv
  <2>2. Inserts \/ Merges \/ Clears \/ Clones \/ Builds \/ UNCHANGED vars
    BY <1>2, <2>1, NextIs
  <2>3. CASE Inserts
    BY <2>3, InsertKeeps DEF Inserts
  <2>4. CASE Merges
    BY <2>4, MergeKeeps DEF Merges
  <2>5. CASE Clears
    BY <2>5, ClearKeeps DEF Clears
  <2>6. CASE Clones
    BY <2>6, CloneKeeps DEF Clones
  <2>7. CASE Builds
    BY <2>7, BuildKeeps DEF Builds
  <2> QED
    BY <1>1, <2>2, <2>3, <2>4, <2>5, <2>6, <2>7
<1> QED
  BY <1>1, <1>2

(***************************************************************************)
(* The invariant and what follows from it.                                 *)
(***************************************************************************)
(* Whatever is inserted, merged, unfolded and cleared: the cells of every  *)
(* sketch hold, tag by tag, the counters of the sketch of full width that  *)
(* took the same inserts, each in the column scatter_into looks for it in, *)
(* and no heap outgrows its capacity.                                      *)
THEOREM FoldInvariant == Spec => []Inv
<1>1. Init => Inv
  BY InitSound
<1>2. Inv /\ [Next]_vars => Inv'
  BY StepKeeps
<1> QED
  BY <1>1, <1>2, PTL DEF Spec

(* A sketch is of the shape it was made with whatever is called on it: its *)
(* level is one the code can fold to, its rows have the columns of that    *)
(* level, and no heap holds more keys than its capacity.                   *)
THEOREM TypeCorrect == Spec => [](TypeOK /\ HeapsFit)
<1>1. Inv => TypeOK /\ HeapsFit
  BY DEF Inv, Sound
<1> QED
  BY <1>1, FoldInvariant, PTL

LEMMA QueryIs ==
  ASSUME Sound, NEW s \in Sketches, NEW k \in Keys
  PROVE  Query(s, k) = EstOf(shape, weight[s], k)
<1>1. shape \in Shapes /\ Exact(shape, sketch[s].level, sketch[s].cells, weight[s])
  BY SketchFacts DEF Sound, TypeOK
<1>2. PICK level, cells : level = sketch[s].level /\ cells = sketch[s].cells
  OBVIOUS
<1>3. Estimate(level, cells, k) = EstOf(shape, weight[s], k)
  BY <1>1, <1>2, EstimateIs
<1> QED
  BY <1>2, <1>3 DEF Query

LEMMA AnswersFollow ==
  ASSUME TagsFit, Sound
  PROVE  AnswersAsFullWidth
<1>1. shape \in Shapes
  BY DEF Sound, TypeOK
<1>2. ASSUME NEW s \in Sketches
      PROVE  Levels # {} /\ weight[s] \in Weightings
  BY SketchFacts
<1>3. ASSUME NEW s \in Sketches, NEW r \in Rows, NEW col \in 0..(FullCols - 1)
      PROVE  FlatCounter(s, r, col) = WideCounter(s, r, col)
  <2>1. PICK w \in Weightings : w = weight[s]
    BY <1>2
  <2>2. PICK level, cells : level = sketch[s].level /\ cells = sketch[s].cells
    OBVIOUS
  <2>3. r \in RowsOf(shape) /\ col \in Tags
    BY DEF Rows, RowsOf, Tags
  <2>4. Exact(shape, level, cells, w)
    BY <2>1, <2>2, SketchFacts
  <2>5. PICK row : row = cells[r]
    OBVIOUS
  <2>6. ExactRow(shape, level, row, w, r)
    BY <2>3, <2>4, <2>5 DEF Exact
  <2>7. FlatOf(row, col) = WideOf(shape, w, r, col)
    <3>1. level \in Levels
      BY <2>2, SketchFacts
    <3> QED
      BY <1>1, <2>3, <2>6, <3>1, FlatIsWide
  <2>8. FlatCounter(s, r, col)
          = MapThenSumSet(LAMBDA c : CellQuery(sketch[s].cells[r][c], col), DOMAIN sketch[s].cells[r])
    BY Zenon DEF FlatCounter
  <2>9. FlatCounter(s, r, col) = FlatOf(sketch[s].cells[r], col)
    BY <2>8, FlatCounterIs
  <2>10. WideCounter(s, r, col) = WideOf(shape, weight[s], r, col)
    BY <1>1, <1>2, <2>3, WideCounterIs
  <2> QED
    BY <2>1, <2>2, <2>5, <2>7, <2>9, <2>10
<1>4. ASSUME NEW s \in Sketches, NEW k \in Keys
      PROVE  Query(s, k) = WideEstimate(s, k)
  <2>1. PICK w \in Weightings : w = weight[s]
    BY <1>2
  <2>2. PICK told : told = [r \in Rows |-> SignOf(k, r) * WideCounter(s, r, WideCol(k, r))]
    OBVIOUS
  <2>3. ASSUME NEW r \in RowsOf(shape)
        PROVE  SignOf(k, r) * WideCounter(s, r, WideCol(k, r))
                 = SignAs(shape, k, r) * WideOf(shape, w, r, FullCol(k, r))
    <3>1. FullCol(k, r) = WideCol(k, r)
      BY <1>1, <1>2, ColumnFacts
    <3>2. WideCounter(s, r, WideCol(k, r)) = WideOf(shape, weight[s], r, WideCol(k, r))
      BY <1>1, <1>2, WideCounterIs
    <3>3. SignOf(k, r) = SignAs(shape, k, r)
      BY DEF SignOf, SignAs
    <3> QED
      BY <2>1, <3>1, <3>2, <3>3
  <2>4. told = Told(shape, w, k)
    BY <2>2, <2>3 DEF Told, Rows, RowsOf
  <2>5. WideEstimate(s, k) = IF shape.way = "min" THEN Ordered(told, 1) ELSE Middle(told)
    BY <2>2 DEF WideEstimate
  <2>6. WideEstimate(s, k) = EstOf(shape, w, k)
    BY <2>4, <2>5 DEF EstOf
  <2>7. Query(s, k) = EstOf(shape, weight[s], k)
    BY QueryIs
  <2> QED
    BY <2>1, <2>6, <2>7
<1> QED
  BY <1>3, <1>4 DEF AnswersAsFullWidth

(* Folding introduces no approximation error: at any fold level, after any *)
(* sequence of inserts, merges of the same level, unfoldings, hierarchical *)
(* merges and clears, every counter to_flat_counters gives and every       *)
(* estimate query gives is that of the sketch of full width that took the  *)
(* same inserts, for any hashes, signs, rows and median, as long as a full *)
(* column fits the sixteen bits of a tag.                                  *)
THEOREM AnswersAsFullWidthCorrect ==
  ASSUME TagsFit
  PROVE  Spec => []AnswersAsFullWidth
<1>1. Inv => AnswersAsFullWidth
  BY AnswersFollow DEF Inv
<1> QED
  BY <1>1, FoldInvariant, PTL

LEMMA TopFollows ==
  ASSUME Sound, RebuiltTop
  PROVE  RebuiltHeapIsTop
<1>1. rebuilt.at \in SUBSET Sketches
  BY DEF Sound, TypeOK
<1>2. ASSUME NEW s \in rebuilt.at
      PROVE  /\ Cardinality(Residents(s)) = Smaller(sketch[s].cap, Cardinality(rebuilt.from))
             /\ \A k \in Residents(s) :
                  /\ k \in rebuilt.from
                  /\ sketch[s].heap[k] = Query(s, k)
                  /\ \A other \in rebuilt.from \ Residents(s) : Query(s, k) >= Query(s, other)
  <2>1. s \in Sketches
    BY <1>1
  <2>2. PICK h, cap, from, score : /\ h = sketch[s].heap /\ cap = sketch[s].cap
                                   /\ from = rebuilt.from /\ score = EstAll(shape, weight[s])
    OBVIOUS
  <2>3. /\ from \in SUBSET Keys /\ DOMAIN h \subseteq from
        /\ Cardinality(DOMAIN h) = Smaller(cap, Cardinality(from))
        /\ \A k \in DOMAIN h : h[k] = score[k]
        /\ \A k \in DOMAIN h : \A other \in from \ DOMAIN h : score[k] >= score[other]
    BY <2>2 DEF RebuiltTop, Top
  <2>4. \A k \in Keys : Query(s, k) = score[k]
    <3>1. ASSUME NEW k \in Keys
          PROVE  Query(s, k) = score[k]
      BY <2>1, <2>2, QueryIs DEF EstAll
    <3> QED
      BY <3>1
  <2>5. Residents(s) = DOMAIN h
    BY <2>2 DEF Residents
  <2> QED
    BY <2>2, <2>3, <2>4, <2>5
<1> QED
  BY <1>2 DEF RebuiltHeapIsTop

(* unfold_merge, unfold_to and hierarchical_merge offer the keys of every  *)
(* source's heap to a new heap at their estimates in the finished cells:   *)
(* whatever the order, what stays is as many of them as there is room for, *)
(* at these estimates, and no key that was left out has a larger one.      *)
THEOREM RebuiltHeapIsTopCorrect == Spec => []RebuiltHeapIsTop
<1>1. Inv => RebuiltHeapIsTop
  BY TopFollows DEF Inv
<1> QED
  BY <1>1, FoldInvariant, PTL

LEMMA BracketsFollow ==
  ASSUME Sound, Bracketed
  PROVE  HeapBracketsTruth
<1>1. ASSUME NoneTaken, NEW s \in Sketches, NEW k \in Residents(s)
      PROVE  /\ sketch[s].heap[k] <= Query(s, k)
             /\ k \notin unscored[s] => weight[s][k] <= sketch[s].heap[k]
  <2>1. k \in DOMAIN sketch[s].heap
    BY DEF Residents
  <2>2. k \in Keys
    BY <2>1, SketchFacts, HeapFacts
  <2>3. Brackets(shape, sketch[s], weight[s], unscored[s])
    BY <1>1 DEF Bracketed
  <2>4. Query(s, k) = EstOf(shape, weight[s], k)
    BY <2>2, QueryIs
  <2> QED
    BY <2>1, <2>3, <2>4 DEF Brackets
<1> QED
  BY <1>1 DEF HeapBracketsTruth, NoneTaken

(* The count the heap of a FoldCMS shows for a key is at most the estimate *)
(* of query and, unless a merge of the same level has passed the key over, *)
(* at least what was inserted of it: reconcile_heap_from scores the keys   *)
(* of the merged heap only, and estimates of other keys only grow.         *)
THEOREM HeapBracketsTruthCorrect == Spec => []HeapBracketsTruth
<1>1. Inv => HeapBracketsTruth
  BY BracketsFollow DEF Inv
<1> QED
  BY <1>1, FoldInvariant, PTL

=============================================================================
