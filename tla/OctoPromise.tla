------------------------------ MODULE OctoPromise ------------------------------
(***************************************************************************)
(* What OctoRuntime promises the code that calls it, with no queue,        *)
(* counter, threshold or sweep in sight.  Inputs are dealt to shards; for  *)
(* each shard and cell the parent has absorbed some prefix of the shard's  *)
(* inputs, which only grows; a runtime that finishes hands back a parent   *)
(* that has absorbed all of them.                                          *)
(***************************************************************************)
EXTENDS Integers, Sequences

CONSTANTS Workers, Cells, Keys, CellsOf, MaxInputs

VARIABLES
  accepted,   \* the inputs taken so far, each with the shard it went to
  parent,     \* for each cell, the inputs it has absorbed
  status      \* "open", "finished" or "abandoned"

vars == <<accepted, parent, status>>

Init ==
  /\ accepted = <<>>
  /\ parent = [c \in Cells |-> {}]
  /\ status = "open"

Hits(i, c) == c \in CellsOf[accepted[i].key]

Accept ==
  /\ status = "open" /\ Len(accepted) < MaxInputs
  /\ \E k \in Keys, w \in Workers : accepted' = Append(accepted, [key |-> k, worker |-> w])
  /\ UNCHANGED <<parent, status>>

\* Shard w's inputs up to the n-th accepted one are absorbed in cell c.
Absorb(w, c, n) ==
  /\ status # "finished"
  /\ LET upTo == {i \in 1..n : accepted[i].worker = w /\ Hits(i, c)}
         seen == {i \in parent[c] : accepted[i].worker = w}
     IN  /\ seen \subseteq upTo /\ seen # upTo
         /\ parent' = [parent EXCEPT ![c] = @ \cup upTo]
  /\ UNCHANGED <<accepted, status>>

Finished ==
  /\ status = "open"
  /\ \A c \in Cells : parent[c] = {i \in DOMAIN accepted : Hits(i, c)}
  /\ status' = "finished"
  /\ UNCHANGED <<accepted, parent>>

\* The runtime was dropped, misused or lost a thread; what its threads had
\* queued may still be absorbed, the rest never is.
Abandoned ==
  /\ status = "open"
  /\ status' = "abandoned"
  /\ UNCHANGED <<accepted, parent>>

Next ==
  \/ Accept \/ Finished \/ Abandoned
  \/ \E w \in Workers, c \in Cells, n \in DOMAIN accepted : Absorb(w, c, n)

Spec == Init /\ [][Next]_vars
================================================================================
