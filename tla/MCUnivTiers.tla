-------------------------------- MODULE MCUnivTiers --------------------------------
(* Keys a and c fall on one counter, b on another, and each key has its    *)
(* own value.  Light pairs then form beside a heavy key within a few       *)
(* updates, and of two promoted sketches some merge and, where keys        *)
(* collide, some stay apart.                                               *)
EXTENDS UnivTiers

CONSTANTS a, b, c

MCCellOf == [key \in Keys |-> IF key = b THEN 2 ELSE 1]
MCSignOf == [key \in Keys |-> IF key = b THEN -1 ELSE 1]
MCInputs == {<<a, 1>>, <<b, 2>>, <<c, 3>>}
=============================================================================
