---------------------------- MODULE MCStreamSummary ----------------------------
(***************************************************************************)
(* Two summaries of different capacities; two keys share a digest.         *)
(***************************************************************************)
EXTENDS StreamSummary, TLC

MCCapacity == ("small" :> 1) @@ ("large" :> 3)
MCDigestOf == (1 :> "d") @@ (2 :> "d") @@ (3 :> "e") @@ (4 :> "f")
=============================================================================
