----------------------------- MODULE MCOctoPlans -----------------------------
EXTENDS OctoPlans

CONSTANTS k1, k2, k3, k4

MCWorkers == 1..2
\* The plans with a heap need more keys than it has places, the Elastic
\* worker three arrivals to see one flow take another's bucket.
MCKeysOf ==
  [p \in Plans |-> CASE p \in HeapPlans -> {k1, k2, k3, k4}
                     [] p \in {"Hll", "Coco", "Elastic"} -> {k1, k2, k3}
                     [] OTHER -> {k1, k2}]
MCMaxInputs ==
  [p \in Plans |-> IF p \in HeapPlans \cup {"Count", "Coco"} THEN 2 ELSE 3]
MCTauRange ==
  [p \in Plans |-> IF p = "Hll" THEN {1} ELSE {1, 2}]
MCMaxMoves ==
  [p \in Plans |-> CASE p = "UnivMon" -> 2 [] p \in {"Count", "Dd"} -> 1
                      [] OTHER -> 0]

\* k1 and k4 share a digest.
MCDigest == [k \in Keys |-> IF k \in {k1, k4} THEN 1 ELSE 2]

MCCellOrder == << <<0, 1, 1>>, <<0, 1, 2>>, <<0, 1, 3>>, <<0, 2, 1>>, <<0, 2, 2>>,
                  <<1, 1, 1>>, <<1, 1, 2>> >>

Column1 == [k \in Keys |-> CASE k \in {k1, k2} -> 1 [] k = k3 -> 2 [] k = k4 -> 3]
Column2 == [k \in Keys |-> IF k \in {k1, k3} THEN 1 ELSE 2]
Signs == [k \in Keys |-> IF k = k2 THEN -1 ELSE 1]
Shallow == {k2}

\* DDSketch has one bucket per value and UnivMon one row here; k2 does not
\* reach UnivMon's layer 1.
MCBump ==
  [p \in {"Count", "CountTopK", "CmTopK", "Dd", "UnivMon"} |->
    [k \in Keys |->
      [x \in ToSet(MCCellOrder) |->
        LET sign == IF p \in {"CmTopK", "Dd"} THEN 1 ELSE Signs[k]
            hit == \/ x[2] = 1 /\ x[3] = Column1[k]
                   \/ x[2] = 2 /\ x[3] = Column2[k] /\ p \notin {"Dd", "UnivMon"}
        IN IF ~hit THEN 0
           ELSE IF x[1] = 0 THEN sign
           ELSE IF p = "UnivMon" /\ k \notin Shallow THEN sign ELSE 0]]]

MCRegisterOrder == <<1, 2>>
MCRegister == [k \in Keys |-> IF k = k4 THEN 2 ELSE 1]
MCRank == [k \in Keys |-> CASE k = k1 -> 1 [] k = k2 -> 2 [] k = k3 -> 3 [] k = k4 -> 1]

MCBucketOrder == <<1>>
MCBucketOf == [k \in Keys |-> 1]
MCLightOrder == << <<1, 1>>, <<1, 2>>, <<2, 1>> >>
MCLightOf ==
  [k \in Keys |-> {IF k = k2 THEN <<1, 2>> ELSE <<1, 1>>, <<2, 1>>}]

MCCocoOrder == <<1, 2, 3, 4>>
MCCocoRows ==
  [k \in Keys |-> << IF k \in {k1, k2} THEN 1 ELSE 2, IF k \in {k1, k3} THEN 3 ELSE 4 >>]

===============================================================================
