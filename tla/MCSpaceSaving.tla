----------------------------- MODULE MCSpaceSaving -----------------------------
(***************************************************************************)
(* Two summaries of different capacities: one evicts and cuts off merges,  *)
(* the other has room for every key.                                       *)
(***************************************************************************)
EXTENDS SpaceSaving, TLC

MCCapacity == ("small" :> 2) @@ ("large" :> 3)
=============================================================================
