---------------------------- MODULE MCOctoRuntime ----------------------------
(* Small instances of OctoRuntime: two rows, the first one column wide (cell *)
(* 1, shared by every key), the second two columns wide (cells 2 and 3).     *)
EXTENDS OctoRuntime

CONSTANTS k1, k2, r1, r2

MCCellsOf  == [k \in Keys |-> IF k = k1 THEN {1, 2} ELSE {1, 3}]
MCWorkerOf == [k \in Keys |-> IF k = k1 \/ NumWorkers = 1 THEN 1 ELSE 2]
==============================================================================
