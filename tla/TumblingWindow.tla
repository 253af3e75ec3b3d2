---------------------------- MODULE TumblingWindow ----------------------------
(***************************************************************************)
(* The tumbling window of src/src/sketch_framework/tumbling.rs and the     *)
(* pool its sketches come from and go back to.                             *)
(*                                                                         *)
(* A sketch is the number of times each observation was counted in it, so  *)
(* one that was recycled without being cleared, or merged twice, differs   *)
(* from what was inserted.  A call runs its closing loop one window at a   *)
(* step; `&mut self' keeps every other call out until it returns.          *)
(***************************************************************************)
EXTENDS Integers, Sequences

CONSTANTS
  WindowSize,    \* window_size, time units per window
  MaxWindows,    \* max_windows, closed windows that are kept
  PoolCap,       \* pool_cap, sketches allocated up front
  TimeRange,     \* number of values of a timestamp (2^64)
  MaxTime,       \* bound: latest timestamp passed to a call
  MaxInputs,     \* bound: observations inserted
  MaxFlushes     \* bound: calls of flush

Obs   == 1..MaxInputs
Times == 0..MaxTime

ASSUME SizeAssumption ==
  /\ WindowSize \in Nat \ {0}
  /\ MaxWindows \in Nat
  /\ PoolCap \in Nat
  /\ TimeRange \in Nat \ {0}
  /\ MaxTime \in Nat
  /\ MaxInputs \in Nat
  /\ MaxFlushes \in Nat
  /\ MaxTime < TimeRange

VARIABLES
  active,        \* sketch of the open window
  activeId,      \* active_window_id
  activeStart,   \* active_start
  closed,        \* closed windows, oldest first
  pool,          \* SketchPool
  call,          \* the call in progress, and the window it found open
  log,           \* history: time and window of each observation, in order
  flushes        \* history: flushes started

vars == <<active, activeId, activeStart, closed, pool, call, log, flushes>>

(***************************************************************************)
(* Sketches and the pool.                                                  *)
(***************************************************************************)
Sketches == [Obs -> Nat]
Empty == [o \in Obs |-> 0]

Counting(sketch, o) == [sketch EXCEPT ![o] = @ + 1]
Merged(a, b) == [o \in Obs |-> a[o] + b[o]]
Cleared_Kept(sketch) == sketch
Cleared(sketch) == Empty

PoolNew == [free |-> [i \in 1..PoolCap |-> Empty], total |-> PoolCap]

Pop(s) == SubSeq(s, 1, Len(s) - 1)

(* take: the sketch handed out, and the pool that is left. *)
Take(p) ==
  IF p.free # <<>>
  THEN [sketch |-> p.free[Len(p.free)], pool |-> [p EXCEPT !.free = Pop(@)]]
  ELSE [sketch |-> Empty, pool |-> [p EXCEPT !.total = @ + 1]]

Put_Dropped(p, sketch) == p
Put(p, sketch) == [p EXCEPT !.free = Append(@, Cleared(sketch))]

(***************************************************************************)
(* The window.                                                             *)
(***************************************************************************)
NoCall == [op |-> "none", time |-> 0, from |-> 0]

Init ==
  /\ active = Take(PoolNew).sketch
  /\ pool = Take(PoolNew).pool
  /\ activeId = 0
  /\ activeStart = 0
  /\ closed = <<>>
  /\ call = NoCall
  /\ log = <<>>
  /\ flushes = 0

(* active_start + window_size, in the width of a timestamp. *)
Boundary == (activeStart + WindowSize) % TimeRange

Elapsed_Late == call.time > Boundary
Elapsed == call.time >= Boundary

OverLimit(windows) == Len(windows) > MaxWindows

(* Every call leaves at most MaxWindows closed windows, so the eviction    *)
(* loop of close_active goes round once at most.                           *)
CloseActive ==
  LET taken  == Take(pool)
      pushed == Append(closed, [sketch |-> active, id |-> activeId])
  IN  /\ active' = taken.sketch
      /\ activeId' = activeId + 1
      /\ activeStart' = Boundary
      /\ IF OverLimit(pushed)
         THEN /\ closed' = Tail(pushed)
              /\ pool' = Put(taken.pool, Head(pushed).sketch)
         ELSE /\ closed' = pushed
              /\ pool' = taken.pool

BeginInsert(t) ==
  /\ call = NoCall
  /\ Len(log) < MaxInputs
  /\ call' = [op |-> "insert", time |-> t, from |-> activeId]
  /\ UNCHANGED <<active, activeId, activeStart, closed, pool, log, flushes>>

BeginFlush(t) ==
  /\ call = NoCall
  /\ flushes < MaxFlushes
  /\ call' = [op |-> "flush", time |-> t, from |-> activeId]
  /\ flushes' = flushes + 1
  /\ UNCHANGED <<active, activeId, activeStart, closed, pool, log>>

(* One turn of `while time >= active_start + window_size'. *)
Advance ==
  /\ call # NoCall
  /\ Elapsed
  /\ CloseActive
  /\ UNCHANGED <<call, log, flushes>>

Observe ==
  /\ call.op = "insert"
  /\ ~Elapsed
  /\ active' = Counting(active, Len(log) + 1)
  /\ log' = Append(log, [time |-> call.time, window |-> activeId])
  /\ call' = NoCall
  /\ UNCHANGED <<activeId, activeStart, closed, pool, flushes>>

FlushCloses ==
  /\ call.op = "flush"
  /\ ~Elapsed
  /\ CloseActive
  /\ call' = NoCall
  /\ UNCHANGED <<log, flushes>>

(* Every observation and every flush the bounds allow was made. *)
Done ==
  /\ call = NoCall
  /\ Len(log) = MaxInputs
  /\ flushes = MaxFlushes
  /\ UNCHANGED vars

Next ==
  \/ \E t \in Times : BeginInsert(t) \/ BeginFlush(t)
  \/ Advance
  \/ Observe
  \/ FlushCloses
  \/ Done

Spec == Init /\ [][Next]_vars

(***************************************************************************)
(* Queries: merges over the open window and the newest closed ones.        *)
(***************************************************************************)
MergedFrom(first) ==
  LET upTo[i \in (first - 1)..Len(closed)] ==
        IF i < first THEN active ELSE Merged(upTo[i - 1], closed[i].sketch)
  IN  upTo[Len(closed)]

QueryAll == MergedFrom(1)

QueryRecent_OneMore(n) ==
  MergedFrom(IF n < Len(closed) THEN Len(closed) - n ELSE 1)
QueryRecent(n) ==
  MergedFrom(1 + (IF n < Len(closed) THEN Len(closed) - n ELSE 0))

(***************************************************************************)
(* Properties.                                                             *)
(***************************************************************************)
Calls == [op : {"none", "insert", "flush"}, time : Times, from : Nat]

(* The state of a TumblingWindow is well formed between any two steps of a *)
(* call.                                                                   *)
TypeOK ==
  /\ active \in Sketches
  /\ activeId \in Nat
  /\ activeStart \in Nat
  /\ closed \in Seq([sketch : Sketches, id : Nat])
  /\ pool \in [free : Seq(Sketches), total : Nat]
  /\ call \in Calls
  /\ log \in Seq([time : Times, window : Nat])
  /\ Len(log) <= MaxInputs
  /\ flushes \in 0..MaxFlushes

(* How often the window with this id must count observation o. *)
Due(id, o) == IF o \in DOMAIN log /\ log[o].window = id THEN 1 ELSE 0

(* Every window, open or closed, holds each observation made while it was  *)
(* open once and nothing else, whichever recycled sketch it was given by   *)
(* close_active.                                                           *)
WindowsHoldTheirOwn ==
  /\ \A o \in Obs : active[o] = Due(activeId, o)
  /\ \A i \in DOMAIN closed, o \in Obs : closed[i].sketch[o] = Due(closed[i].id, o)

(* close_active keeps exactly the newest windows: no id is missing between *)
(* the oldest kept one and the open one, and none is dropped early.        *)
RetainedIsSuffix ==
  /\ Len(closed) = IF activeId < MaxWindows THEN activeId ELSE MaxWindows
  /\ \A i \in DOMAIN closed : closed[i].id = activeId - Len(closed) + i - 1

(* Every sketch the pool ever allocated is free, closed or active, and     *)
(* recycling keeps their number at what max_windows needs: one open, one   *)
(* taken while the oldest is still held.                                   *)
PoolAccounts ==
  /\ pool.total = Len(pool.free) + Len(closed) + 1
  /\ pool.total <= IF PoolCap > MaxWindows + 2 THEN PoolCap ELSE MaxWindows + 2
  /\ \A i \in DOMAIN pool.free : pool.free[i] = Empty

Promise == INSTANCE TumblingPromise
  WITH now <- IF call = NoCall THEN activeId ELSE call.from

(* insert and flush, however many windows they close on the way, do to the *)
(* window number and to the observations what the promise says: a late     *)
(* observation goes to the open window, any other to the window of its     *)
(* time.                                                                   *)
KeepsPromise == Promise!Spec

(* Between two calls query_all and query_recent count every observation of *)
(* the windows they cover exactly once, and no other; more windows than    *)
(* there are closed ones means all of them.                                *)
AnswersAsPromised ==
  call = NoCall =>
    /\ \A n \in 0..(MaxWindows + 1), o \in Obs :
         QueryRecent(n)[o] = IF o \in Promise!Answer(n) THEN 1 ELSE 0
    /\ QueryAll = QueryRecent(MaxWindows)

(* insert (lines 302 to 304): windows opened on the way to a later         *)
(* timestamp and left empty are skipped, so every closed window but the    *)
(* first holds something when nothing is flushed by force.                 *)
EmptyWindowsSkipped ==
  call = NoCall /\ flushes = 0 =>
    \A i \in DOMAIN closed : closed[i].id > 0 => closed[i].sketch # Empty

(* A window that is not open yet has no observation, and the call in       *)
(* progress keeps room for its own.                                        *)
LogIsPast ==
  /\ \A o \in DOMAIN log : log[o].window <= activeId
  /\ call.op = "insert" => Len(log) < MaxInputs

(* The inductive invariant of the proofs. *)
IInv ==
  /\ TypeOK
  /\ LogIsPast
  /\ WindowsHoldTheirOwn
  /\ RetainedIsSuffix
  /\ PoolAccounts
=============================================================================
