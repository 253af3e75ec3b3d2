---------------------------- MODULE TumblingPromise ----------------------------
(***************************************************************************)
(* What a tumbling window promises, with no sketches, no closing loop and  *)
(* no pool: the window number only moves forward, an observation belongs   *)
(* to the window of its time unless that window is already over, and an    *)
(* answer covers the newest windows.                                       *)
(***************************************************************************)
EXTENDS Integers, Sequences

CONSTANTS WindowSize, MaxWindows, Times

VARIABLES now,   \* number of the window that is open
          log    \* per observation, in order: its time and its window

vars == <<now, log>>

Reached(t) == IF t \div WindowSize > now THEN t \div WindowSize ELSE now

Init == now = 0 /\ log = <<>>

Insert(t) ==
  /\ now' = Reached(t)
  /\ log' = Append(log, [time |-> t, window |-> Reached(t)])

Flush(t) ==
  /\ now' = Reached(t) + 1
  /\ UNCHANGED log

Next == \E t \in Times : Insert(t) \/ Flush(t)

Spec == Init /\ [][Next]_vars

(* The observations an answer over the n newest closed windows covers. *)
Answer(n) ==
  LET kept == IF n < MaxWindows THEN n ELSE MaxWindows
  IN  {o \in DOMAIN log : log[o].window + kept >= now}
=============================================================================
