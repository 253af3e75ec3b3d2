---------------------------- MODULE MCFoldedSketch ----------------------------
EXTENDS FoldedSketch

CONSTANTS k1, k2, k3

MCHeapCap == [s \in Sketches |-> s]

MCNewLevels == {<<2, 2>>, <<1, 2>>}

MCShapes == {[way |-> "min", rows |-> 2]} \cup [way : {"median"}, rows : 2..5]

MCMaxInserts == [x \in Shapes |-> IF x.rows > 3 THEN 2 ELSE 3]

\* k1 and k2 share a full column in rows 1 and 3; every two keys share a
\* physical column of level 1 in some row and have different ones in another.
MCHash ==
  [k \in Keys |-> CASE k = k1 -> <<1, 2, 3, 0, 5>>
                    [] k = k2 -> <<5, 0, 3, 2, 2>>
                    [] k = k3 -> <<3, 3, 1, 4, 7>>]
MCSign ==
  [k \in Keys |-> CASE k = k1 -> <<1, 1, 1, 1, 1>>
                    [] k = k2 -> <<-1, 1, 1, -1, 1>>
                    [] k = k3 -> <<1, -1, 1, 1, -1>>]

===============================================================================
