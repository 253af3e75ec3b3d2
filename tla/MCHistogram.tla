------------------------------ MODULE MCHistogram ------------------------------
EXTENDS ExponentialHistogram

CONSTANTS k1, k2

MCEntry(t, k, w, kind) == [time |-> t, key |-> k, weight |-> w, kind |-> kind]

\* Only the L2 rule looks at keys and weights; sizes need more updates to
\* grow than masses do.
MCInputsOf ==
  [n \in Norms |->
    IF n = "L1"
    THEN {MCEntry(t, k1, 1, kind) : t \in Times, kind \in Kinds}
    ELSE {MCEntry(t, k, w, kind) : t \in 0..4, k \in Keys, w \in Weights, kind \in Kinds}]

MCMaxUpdates == [n \in Norms |-> IF n = "L1" THEN 7 ELSE 4]
MCMaxResizes == [n \in Norms |-> IF n = "L1" THEN 0 ELSE 1]

\* The instance of the finding: four updates by size.
GapMaxUpdates == [n \in Norms |-> 4]

===============================================================================
