---------------------------- MODULE TumblingProofs ----------------------------
(***************************************************************************)
(* The inductive invariant of TumblingWindow, for every window size, limit *)
(* of windows, pool capacity and width of a timestamp.  The argument has   *)
(* two halves: what take and put do to a pool whose free sketches are all  *)
(* empty, and what closing a window does to the row of closed ones.  Then  *)
(* that it implements TumblingPromise, while no boundary wraps, and that   *)
(* its queries answer as the promise says.                                 *)
(***************************************************************************)
EXTENDS TumblingWindow, RowLemmas, TLAPS

Pools == [free : Seq(Sketches), total : Nat]

AllFree(p) == \A i \in 1..Len(p.free) : p.free[i] = Empty

(* The sketches a pool has handed out and not got back. *)
Lent(p) == p.total - Len(p.free)

LEMMA EmptyType == Empty \in Sketches
BY DEF Empty, Sketches

(* take hands out an empty sketch, and allocates only if none is free. *)
LEMMA TakeFacts ==
  ASSUME NEW p \in Pools, AllFree(p)
  PROVE  /\ Take(p).sketch = Empty
         /\ Take(p).pool \in Pools
         /\ AllFree(Take(p).pool)
         /\ Lent(Take(p).pool) = Lent(p) + 1
         /\ \/ Take(p).pool.total = p.total
            \/ Take(p).pool.total = p.total + 1 /\ Len(p.free) = 0
<1>1. CASE p.free = <<>>
  <2>1. Take(p) = [sketch |-> Empty, pool |-> [p EXCEPT !.total = @ + 1]]
    BY <1>1 DEF Take
  <2> QED
    BY <1>1, <2>1 DEF Pools, AllFree, Lent
<1>2. CASE p.free # <<>>
  <2>1. Take(p) = [sketch |-> p.free[Len(p.free)], pool |-> [p EXCEPT !.free = Pop(@)]]
    BY <1>2 DEF Take
  <2>2. p.free \in Seq(Sketches) /\ Len(p.free) \in Nat /\ Len(p.free) > 0
    BY <1>2 DEF Pools
  <2>3. Pop(p.free) \in Seq(Sketches) /\ Len(Pop(p.free)) = Len(p.free) - 1
    BY <2>2 DEF Pop
  <2>4. \A i \in 1..Len(Pop(p.free)) : Pop(p.free)[i] = p.free[i]
    BY <2>2, <2>3 DEF Pop
  <2>5. Take(p).pool = [p EXCEPT !.free = Pop(@)] /\ Take(p).sketch = p.free[Len(p.free)]
    BY <2>1
  <2>6. Take(p).pool.free = Pop(p.free) /\ Take(p).pool.total = p.total
    BY <2>5 DEF Pools
  <2>7. Take(p).pool \in Pools
    BY <2>3, <2>5 DEF Pools
  <2>8. Take(p).sketch = Empty
    BY <2>2, <2>5 DEF AllFree
  <2>9. AllFree(Take(p).pool)
    BY <2>2, <2>3, <2>4, <2>6 DEF AllFree
  <2> QED
    BY <2>2, <2>3, <2>6, <2>7, <2>8, <2>9 DEF Lent, Pools
<1> QED
  BY <1>1, <1>2

(* put takes a sketch back, clears it and allocates nothing. *)
LEMMA PutFacts ==
  ASSUME NEW p \in Pools, AllFree(p), NEW sketch
  PROVE  /\ Put(p, sketch) \in Pools
         /\ AllFree(Put(p, sketch))
         /\ Lent(Put(p, sketch)) = Lent(p) - 1
         /\ Put(p, sketch).total = p.total
<1>1. p.free \in Seq(Sketches) /\ Len(p.free) \in Nat
  BY DEF Pools
<1>2. Put(p, sketch).free = Append(p.free, Empty) /\ Put(p, sketch).total = p.total
  BY DEF Put, Cleared, Pools
<1>3. Append(p.free, Empty) \in Seq(Sketches)
  BY <1>1, EmptyType
<1>4. Len(Append(p.free, Empty)) = Len(p.free) + 1
  BY <1>1
<1>5. \A i \in 1..Len(p.free) + 1 :
        Append(p.free, Empty)[i] = IF i <= Len(p.free) THEN p.free[i] ELSE Empty
  BY <1>1
<1>6. Put(p, sketch) \in Pools
  BY <1>3 DEF Put, Cleared, Pools
<1> QED
  BY <1>1, <1>2, <1>4, <1>5, <1>6 DEF AllFree, Lent, Pools

Windows == [sketch : Sketches, id : Nat]

Pushed == Append(closed, [sketch |-> active, id |-> activeId])

(* The row of windows with the open one appended is contiguous up to it,   *)
(* and each of them holds its own.                                         *)
LEMMA PushedFacts ==
  ASSUME IInv
  PROVE  /\ Pushed \in Seq(Windows)
         /\ Len(Pushed) = Len(closed) + 1
         /\ \A i \in 1..Len(Pushed) :
              /\ Pushed[i] \in Windows
              /\ Pushed[i].id = activeId + i - Len(Pushed)
              /\ \A o \in Obs : Pushed[i].sketch[o] = Due(Pushed[i].id, o)
<1> DEFINE last == [sketch |-> active, id |-> activeId]
<1>1. closed \in Seq(Windows) /\ Len(closed) \in Nat /\ activeId \in Nat /\ active \in Sketches
  BY DEF IInv, TypeOK, Windows
<1>2. last \in Windows /\ last.id = activeId /\ last.sketch = active
  BY <1>1 DEF Windows
<1>3. Pushed \in Seq(Windows) /\ Len(Pushed) = Len(closed) + 1
  BY <1>1, <1>2 DEF Pushed
<1>4. \A i \in 1..Len(closed) : Pushed[i] = closed[i]
  BY <1>1 DEF Pushed
<1>5. Pushed[Len(closed) + 1] = last
  BY <1>1 DEF Pushed
<1>6. ASSUME NEW i \in 1..Len(Pushed)
      PROVE  /\ Pushed[i].id = activeId + i - Len(Pushed)
             /\ \A o \in Obs : Pushed[i].sketch[o] = Due(Pushed[i].id, o)
  <2>1. CASE i \in 1..Len(closed)
    <3>1. closed[i].id = activeId - Len(closed) + i - 1
      BY <1>1, <2>1 DEF IInv, RetainedIsSuffix
    <3>2. \A o \in Obs : closed[i].sketch[o] = Due(closed[i].id, o)
      BY <1>1, <2>1 DEF IInv, WindowsHoldTheirOwn
    <3> QED
      BY <1>1, <1>3, <1>4, <2>1, <3>1, <3>2
  <2>2. CASE i = Len(closed) + 1
    <3>1. \A o \in Obs : active[o] = Due(activeId, o)
      BY DEF IInv, WindowsHoldTheirOwn
    <3> QED
      BY <1>1, <1>2, <1>3, <1>5, <2>2, <3>1
  <2> QED
    BY <1>1, <1>3, <2>1, <2>2
<1>7. \A i \in 1..Len(Pushed) : Pushed[i] \in Windows
  BY <1>3
<1> QED
  BY <1>3, <1>6, <1>7

(* What closing the open window leaves in closed: all of the pushed row,   *)
(* or all of it but the oldest.                                            *)
LEMMA ClosedFacts ==
  ASSUME IInv, CloseActive
  PROVE  \E drop \in {0, 1} :
           /\ drop = 1 <=> Len(Pushed) > MaxWindows
           /\ Len(closed') = Len(Pushed) - drop
           /\ closed' \in Seq(Windows)
           /\ \A i \in 1..Len(closed') : closed'[i] = Pushed[i + drop]
<1>1. Pushed \in Seq(Windows) /\ Len(Pushed) \in Nat /\ Pushed # <<>>
  <2>1. Pushed \in Seq(Windows) /\ Len(Pushed) = Len(closed) + 1 /\ Len(closed) \in Nat
    BY PushedFacts DEF IInv, TypeOK
  <2> QED
    BY <2>1
<1>2. CASE OverLimit(Pushed)
  <2>1. closed' = Tail(Pushed)
    BY <1>2 DEF CloseActive, Pushed
  <2>2. Len(closed') = Len(Pushed) - 1 /\ closed' \in Seq(Windows)
    BY <1>1, <2>1
  <2>3. \A i \in 1..Len(closed') : closed'[i] = Pushed[i + 1]
    BY <1>1, <2>1, <2>2
  <2>4. 1 \in {0, 1} /\ Len(Pushed) > MaxWindows
    BY <1>2 DEF OverLimit
  <2> QED
    BY <2>2, <2>3, <2>4
<1>3. CASE ~OverLimit(Pushed)
  <2>1. closed' = Pushed
    BY <1>3 DEF CloseActive, Pushed
  <2>2. Len(closed') = Len(Pushed) - 0 /\ closed' \in Seq(Windows)
    BY <1>1, <2>1
  <2>3. \A i \in 1..Len(closed') : closed'[i] = Pushed[i + 0]
    BY <1>1, <2>1, <2>2
  <2>4. 0 \in {0, 1} /\ ~(0 = 1) /\ ~(Len(Pushed) > MaxWindows)
    BY <1>3 DEF OverLimit
  <2> QED
    BY <2>2, <2>3, <2>4
<1> QED
  BY <1>2, <1>3

(* An observation in the log was made in a window that was open by then.   *)
LEMMA LogFacts ==
  ASSUME IInv
  PROVE  /\ log \in Seq([time : Times, window : Nat])
         /\ DOMAIN log = 1..Len(log)
         /\ \A o \in 1..Len(log) : log[o].window \in Nat /\ log[o].window <= activeId
<1> DEFINE T == [time : Times, window : Nat]
<1>1. log \in Seq(T)
  BY DEF IInv, TypeOK
<1>2. DOMAIN log = 1..Len(log)
  BY <1>1
<1>3. ASSUME NEW o \in 1..Len(log)
      PROVE  log[o].window \in Nat /\ log[o].window <= activeId
  <2>1. log[o] \in T
    <3> HIDE DEF T
    <3> QED
      BY <1>1
  <2> QED
    BY <1>2, <2>1 DEF IInv, LogIsPast
<1> QED
  BY <1>1, <1>2, <1>3

(* Closing a window keeps the invariant, in insert's loop and in flush.    *)
LEMMA CloseKeepsInvariant ==
  ASSUME IInv, CloseActive, UNCHANGED <<log, flushes>>,
         call' \in Calls, call' = call \/ call' = NoCall
  PROVE  IInv'
<1> USE SizeAssumption
<1>0. /\ activeId \in Nat
      /\ activeStart \in Nat
      /\ closed \in Seq(Windows)
      /\ Len(closed) \in Nat
      /\ pool \in Pools
      /\ AllFree(pool)
      /\ Lent(pool) = Len(closed) + 1
      /\ pool.total \in Nat
      /\ Len(pool.free) \in Nat
      /\ pool.total <= IF PoolCap > MaxWindows + 2 THEN PoolCap ELSE MaxWindows + 2
      /\ Len(closed) <= MaxWindows
  BY DEF IInv, TypeOK, PoolAccounts, RetainedIsSuffix, Windows, Pools, AllFree, Lent
<1> DEFINE taken == Take(pool)
<1>1. /\ taken.sketch = Empty
      /\ taken.pool \in Pools
      /\ AllFree(taken.pool)
      /\ Lent(taken.pool) = Len(closed) + 2
      /\ \/ taken.pool.total = pool.total
         \/ taken.pool.total = pool.total + 1 /\ Len(pool.free) = 0
  <2> HIDE DEF taken
  <2>1. /\ Take(pool).sketch = Empty
        /\ Take(pool).pool \in Pools
        /\ AllFree(Take(pool).pool)
        /\ Lent(Take(pool).pool) = Lent(pool) + 1
        /\ \/ Take(pool).pool.total = pool.total
           \/ Take(pool).pool.total = pool.total + 1 /\ Len(pool.free) = 0
    BY <1>0, TakeFacts
  <2> QED
    BY <1>0, <2>1 DEF taken
<1>2. /\ active' = Empty
      /\ activeId' = activeId + 1
      /\ activeStart' = Boundary
  BY <1>1 DEF CloseActive
<1>3. Boundary \in Nat
  BY <1>0 DEF Boundary
<1>4. PICK drop \in {0, 1} :
        /\ drop = 1 <=> Len(Pushed) > MaxWindows
        /\ Len(closed') = Len(Pushed) - drop
        /\ closed' \in Seq(Windows)
        /\ \A i \in 1..Len(closed') : closed'[i] = Pushed[i + drop]
  BY ClosedFacts
<1>5. /\ Len(Pushed) = Len(closed) + 1
      /\ \A i \in 1..Len(Pushed) :
           /\ Pushed[i] \in Windows
           /\ Pushed[i].id = activeId + i - Len(Pushed)
           /\ \A o \in Obs : Pushed[i].sketch[o] = Due(Pushed[i].id, o)
  BY PushedFacts
<1>6. Len(closed') \in Nat
  BY <1>0, <1>4, <1>5
<1>7. pool' = IF drop = 1 THEN Put(taken.pool, Head(Pushed).sketch) ELSE taken.pool
  BY <1>4 DEF CloseActive, OverLimit, Pushed
<1>8. /\ pool' \in Pools
      /\ AllFree(pool')
      /\ Lent(pool') = Len(closed') + 1
      /\ pool'.total = taken.pool.total
  <2> HIDE DEF taken
  <2>1. CASE drop = 1
    <3>1. /\ Put(taken.pool, Head(Pushed).sketch) \in Pools
          /\ AllFree(Put(taken.pool, Head(Pushed).sketch))
          /\ Lent(Put(taken.pool, Head(Pushed).sketch)) = Lent(taken.pool) - 1
          /\ Put(taken.pool, Head(Pushed).sketch).total = taken.pool.total
      BY <1>1, PutFacts
    <3> QED
      BY <1>0, <1>1, <1>4, <1>5, <1>7, <2>1, <3>1
  <2>2. CASE drop = 0
    BY <1>0, <1>1, <1>4, <1>5, <1>7, <2>2
  <2> QED
    BY <2>1, <2>2
<1>9. TypeOK'
  <2>1. pool' \in [free : Seq(Sketches), total : Nat] /\ closed' \in Seq([sketch : Sketches, id : Nat])
    BY <1>4, <1>8 DEF Pools, Windows
  <2>2. active' \in Sketches /\ activeId' \in Nat /\ activeStart' \in Nat
    BY <1>0, <1>2, <1>3, EmptyType
  <2> QED
    BY <2>1, <2>2 DEF IInv, TypeOK
<1>10. LogIsPast'
  <2>1. \A o \in DOMAIN log : log[o].window \in Nat /\ log[o].window <= activeId
    BY LogFacts
  <2>2. \A o \in DOMAIN log' : log'[o].window <= activeId'
    BY <1>0, <1>2, <2>1
  <2>3. call'.op = "insert" => Len(log') < MaxInputs
    BY DEF IInv, LogIsPast, NoCall
  <2> QED
    BY <2>2, <2>3 DEF LogIsPast
<1>11. WindowsHoldTheirOwn'
  <2>1. ASSUME NEW o \in Obs
        PROVE  active'[o] = IF o \in DOMAIN log' /\ log'[o].window = activeId' THEN 1 ELSE 0
    <3>1. o \in DOMAIN log => log[o].window \in Nat /\ log[o].window <= activeId
      BY LogFacts
    <3>2. ~(o \in DOMAIN log' /\ log'[o].window = activeId')
      BY <1>0, <1>2, <3>1
    <3>3. active'[o] = 0
      BY <1>2 DEF Empty
    <3> QED
      BY <3>2, <3>3
  <2>2. ASSUME NEW i \in 1..Len(closed'), NEW o \in Obs
        PROVE  closed'[i].sketch[o] =
                 IF o \in DOMAIN log' /\ log'[o].window = closed'[i].id THEN 1 ELSE 0
    <3>1. i + drop \in 1..Len(Pushed) /\ closed'[i] = Pushed[i + drop]
      BY <1>0, <1>4, <1>5, <1>6
    <3>2. Pushed[i + drop].sketch[o] = Due(Pushed[i + drop].id, o)
      BY <1>5, <3>1
    <3>3. log' = log
      OBVIOUS
    <3> QED
      BY <3>1, <3>2, <3>3 DEF Due
  <2>3. DOMAIN closed' = 1..Len(closed')
    BY <1>4
  <2> QED
    BY <2>1, <2>2, <2>3 DEF WindowsHoldTheirOwn, Due
<1>12. RetainedIsSuffix'
  <2>1. Len(closed) = IF activeId < MaxWindows THEN activeId ELSE MaxWindows
    BY DEF IInv, RetainedIsSuffix
  <2>2. Len(closed') = IF activeId' < MaxWindows THEN activeId' ELSE MaxWindows
    BY <1>0, <1>2, <1>4, <1>5, <2>1
  <2>3. ASSUME NEW i \in 1..Len(closed')
        PROVE  closed'[i].id = activeId' - Len(closed') + i - 1
    <3>1. i + drop \in 1..Len(Pushed) /\ closed'[i] = Pushed[i + drop]
      BY <1>0, <1>4, <1>5, <1>6
    <3>2. Pushed[i + drop].id = activeId + (i + drop) - Len(Pushed)
      BY <1>5, <3>1
    <3>3. closed'[i].id = activeId + (i + drop) - Len(Pushed)
      BY <3>1, <3>2
    <3> QED
      BY <1>0, <1>2, <1>4, <1>5, <1>6, <3>3
  <2>4. DOMAIN closed' = 1..Len(closed')
    BY <1>4
  <2> QED
    BY <2>2, <2>3, <2>4 DEF RetainedIsSuffix
<1>13. PoolAccounts'
  <2>1. pool'.total \in Nat /\ pool'.free \in Seq(Sketches) /\ Len(pool'.free) \in Nat
    BY <1>8 DEF Pools
  <2>2. pool'.total = Len(pool'.free) + Len(closed') + 1
    BY <1>6, <1>8, <2>1 DEF Lent
  <2>3. pool'.total <= IF PoolCap > MaxWindows + 2 THEN PoolCap ELSE MaxWindows + 2
    BY <1>0, <1>1, <1>8, <2>1 DEF Lent
  <2>4. \A i \in DOMAIN pool'.free : pool'.free[i] = Empty
    BY <1>8, <2>1 DEF AllFree
  <2> QED
    BY <2>2, <2>3, <2>4 DEF PoolAccounts
<1> QED
  BY <1>9, <1>10, <1>11, <1>12, <1>13 DEF IInv

LEMMA InitInvariant == Init => IInv
<1> SUFFICES ASSUME Init PROVE IInv
  OBVIOUS
<1> USE SizeAssumption
<1>1. PoolNew \in Pools /\ AllFree(PoolNew) /\ Lent(PoolNew) = 0
      /\ PoolNew.total = PoolCap /\ Len(PoolNew.free) = PoolCap
  BY EmptyType DEF PoolNew, Pools, AllFree, Lent
<1>2. /\ active = Empty
      /\ pool \in Pools
      /\ AllFree(pool)
      /\ Lent(pool) = 1
      /\ pool.total = PoolCap \/ (pool.total = PoolCap + 1 /\ PoolCap = 0)
  <2>1. /\ Take(PoolNew).sketch = Empty
        /\ Take(PoolNew).pool \in Pools
        /\ AllFree(Take(PoolNew).pool)
        /\ Lent(Take(PoolNew).pool) = Lent(PoolNew) + 1
        /\ \/ Take(PoolNew).pool.total = PoolNew.total
           \/ Take(PoolNew).pool.total = PoolNew.total + 1 /\ Len(PoolNew.free) = 0
    BY <1>1, TakeFacts
  <2>2. active = Take(PoolNew).sketch /\ pool = Take(PoolNew).pool
    BY DEF Init
  <2> HIDE DEF PoolNew
  <2>3. active = Empty /\ pool \in Pools /\ AllFree(pool) /\ Lent(pool) = 1
    BY <1>1, <2>1, <2>2
  <2>4. pool.total = PoolCap \/ (pool.total = PoolCap + 1 /\ PoolCap = 0)
    BY <1>1, <2>1, <2>2
  <2> QED
    BY <2>3, <2>4
<1>3. activeId = 0 /\ activeStart = 0 /\ closed = <<>> /\ call = NoCall /\ log = <<>> /\ flushes = 0
  BY DEF Init
<1>4. TypeOK
  <2>1. NoCall \in Calls
    BY DEF NoCall, Calls, Times
  <2>2. pool \in [free : Seq(Sketches), total : Nat]
    BY <1>2 DEF Pools
  <2> QED
    BY <1>2, <1>3, <2>1, <2>2, EmptyType DEF TypeOK
<1>5. LogIsPast
  BY <1>3 DEF LogIsPast, NoCall
<1>6. WindowsHoldTheirOwn
  BY <1>2, <1>3 DEF WindowsHoldTheirOwn, Due, Empty
<1>7. RetainedIsSuffix
  BY <1>3 DEF RetainedIsSuffix
<1>8. PoolAccounts
  <2>1. pool.total \in Nat /\ pool.free \in Seq(Sketches) /\ Len(pool.free) \in Nat
    BY <1>2 DEF Pools
  <2> QED
    BY <1>2, <1>3, <2>1 DEF PoolAccounts, AllFree, Lent
<1> QED
  BY <1>4, <1>5, <1>6, <1>7, <1>8 DEF IInv

(* Inserting into the open window counts the observation there, once.      *)
LEMMA ObserveKeepsInvariant ==
  ASSUME IInv, Observe
  PROVE  IInv'
<1> USE SizeAssumption
<1> DEFINE new == Len(log) + 1
           entry == [time |-> call.time, window |-> activeId]
<1>1. /\ active \in Sketches
      /\ activeId \in Nat
      /\ call \in Calls
      /\ Len(log) \in Nat
      /\ Len(log) < MaxInputs
  BY LogFacts DEF IInv, TypeOK, LogIsPast, Observe
<1>2. new \in Obs /\ entry \in [time : Times, window : Nat]
  BY <1>1 DEF Obs, Calls
<1>3. active' = [active EXCEPT ![new] = @ + 1] /\ log' = Append(log, entry) /\ call' = NoCall
  BY DEF Observe, Counting
<1>4. /\ UNCHANGED activeId
      /\ UNCHANGED activeStart
      /\ UNCHANGED closed
      /\ UNCHANGED pool
      /\ UNCHANGED flushes
  BY DEF Observe
<1>5. /\ log \in Seq([time : Times, window : Nat])
      /\ DOMAIN log = 1..Len(log)
      /\ \A o \in 1..Len(log) : log[o].window \in Nat /\ log[o].window <= activeId
  BY LogFacts
<1>6. /\ log' \in Seq([time : Times, window : Nat])
      /\ Len(log') = new
      /\ DOMAIN log' = 1..new
      /\ \A o \in 1..Len(log) : log'[o] = log[o]
      /\ log'[new] = entry
  BY <1>1, <1>2, <1>3, <1>5
<1>7. TypeOK'
  <2>1. active' \in Sketches
    BY <1>1, <1>2, <1>3 DEF Sketches
  <2>2. NoCall \in Calls
    BY DEF NoCall, Calls, Times
  <2>3. Len(log') <= MaxInputs
    BY <1>1, <1>6
  <2> QED
    BY <1>3, <1>4, <1>6, <2>1, <2>2, <2>3 DEF IInv, TypeOK
<1>8. LogIsPast'
  <2>1. ASSUME NEW o \in 1..new
        PROVE  log'[o].window <= activeId
    <3>1. CASE o = new
      BY <1>1, <1>6, <3>1
    <3>2. CASE o \in 1..Len(log)
      BY <1>5, <1>6, <3>2
    <3> QED
      BY <1>1, <3>1, <3>2
  <2> QED
    BY <1>3, <1>4, <1>6, <2>1 DEF LogIsPast, NoCall
<1>9. WindowsHoldTheirOwn'
  <2>1. ASSUME NEW o \in Obs, o # new, NEW id
        PROVE  (o \in DOMAIN log' /\ log'[o].window = id)
                 <=> (o \in DOMAIN log /\ log[o].window = id)
    BY <1>1, <1>5, <1>6, <2>1 DEF Obs
  <2>2. new \in DOMAIN log' /\ log'[new].window = activeId /\ new \notin DOMAIN log
    BY <1>1, <1>5, <1>6
  <2>3. ASSUME NEW o \in Obs
        PROVE  active'[o] = IF o \in DOMAIN log' /\ log'[o].window = activeId' THEN 1 ELSE 0
    <3>1. active[o] = IF o \in DOMAIN log /\ log[o].window = activeId THEN 1 ELSE 0
      BY DEF IInv, WindowsHoldTheirOwn, Due
    <3>2. CASE o = new
      <4>1. active[new] = 0
        BY <2>2, <3>1, <3>2
      <4>2. active'[new] = 1
        BY <1>1, <1>2, <1>3, <4>1 DEF Sketches
      <4> QED
        BY <1>4, <2>2, <3>2, <4>2
    <3>3. CASE o # new
      <4>1. active'[o] = active[o]
        BY <1>1, <1>3, <3>3 DEF Sketches
      <4> QED
        BY <1>4, <2>1, <3>1, <3>3, <4>1
    <3> QED
      BY <3>2, <3>3
  <2>4. ASSUME NEW i \in DOMAIN closed, NEW o \in Obs
        PROVE  closed[i].sketch[o] =
                 IF o \in DOMAIN log' /\ log'[o].window = closed[i].id THEN 1 ELSE 0
    <3>1. closed[i].sketch[o] =
            IF o \in DOMAIN log /\ log[o].window = closed[i].id THEN 1 ELSE 0
      BY DEF IInv, WindowsHoldTheirOwn, Due
    <3>2. closed[i].id # activeId
      <4>1. closed \in Seq(Windows) /\ i \in 1..Len(closed) /\ Len(closed) \in Nat
        BY DEF IInv, TypeOK, Windows
      <4>2. closed[i].id = activeId - Len(closed) + i - 1
        BY DEF IInv, RetainedIsSuffix
      <4> QED
        BY <1>1, <4>1, <4>2
    <3> QED
      BY <2>1, <2>2, <3>1, <3>2
  <2> QED
    BY <1>4, <2>3, <2>4 DEF WindowsHoldTheirOwn, Due
<1>10. RetainedIsSuffix'
  BY <1>4 DEF IInv, RetainedIsSuffix
<1>11. PoolAccounts'
  BY <1>4 DEF IInv, PoolAccounts
<1> QED
  BY <1>7, <1>8, <1>9, <1>10, <1>11 DEF IInv

LEMMA StepKeepsInvariant == IInv /\ [Next]_vars => IInv'
<1> SUFFICES ASSUME IInv, [Next]_vars PROVE IInv'
  OBVIOUS
<1>1. ASSUME NEW t \in Times, BeginInsert(t)
      PROVE  IInv'
  <2>1. call' \in Calls /\ Len(log) < MaxInputs
    BY <1>1 DEF BeginInsert, Calls, IInv, TypeOK
  <2>2. /\ UNCHANGED active
        /\ UNCHANGED activeId
        /\ UNCHANGED activeStart
        /\ UNCHANGED closed
        /\ UNCHANGED pool
        /\ UNCHANGED log
        /\ UNCHANGED flushes
    BY <1>1 DEF BeginInsert
  <2> QED
    BY <2>1, <2>2 DEF IInv, TypeOK, LogIsPast, WindowsHoldTheirOwn, Due,
                      RetainedIsSuffix, PoolAccounts
<1>2. ASSUME NEW t \in Times, BeginFlush(t)
      PROVE  IInv'
  <2>1. call' \in Calls /\ call'.op = "flush"
    BY <1>2 DEF BeginFlush, Calls, IInv, TypeOK
  <2>2. flushes' \in 0..MaxFlushes
    BY <1>2, SizeAssumption DEF BeginFlush, IInv, TypeOK
  <2>3. /\ UNCHANGED active
        /\ UNCHANGED activeId
        /\ UNCHANGED activeStart
        /\ UNCHANGED closed
        /\ UNCHANGED pool
        /\ UNCHANGED log
    BY <1>2 DEF BeginFlush
  <2> QED
    BY <2>1, <2>2, <2>3 DEF IInv, TypeOK, LogIsPast, WindowsHoldTheirOwn, Due,
                            RetainedIsSuffix, PoolAccounts
<1>3. CASE Advance
  <2>1. CloseActive /\ UNCHANGED <<call, log, flushes>> /\ call \in Calls
    BY <1>3 DEF Advance, IInv, TypeOK
  <2> QED
    BY <2>1, CloseKeepsInvariant
<1>4. CASE Observe
  BY <1>4, ObserveKeepsInvariant
<1>5. CASE FlushCloses
  <2>1. NoCall \in Calls
    BY SizeAssumption DEF NoCall, Calls, Times
  <2>2. CloseActive /\ call' = NoCall /\ UNCHANGED <<log, flushes>>
    BY <1>5 DEF FlushCloses
  <2> QED
    BY <2>1, <2>2, CloseKeepsInvariant
<1>6. CASE UNCHANGED vars
  <2>1. /\ UNCHANGED active
        /\ UNCHANGED activeId
        /\ UNCHANGED activeStart
        /\ UNCHANGED closed
        /\ UNCHANGED pool
        /\ UNCHANGED call
        /\ UNCHANGED log
        /\ UNCHANGED flushes
    BY <1>6 DEF vars
  <2> QED
    BY <2>1 DEF IInv, TypeOK, LogIsPast, WindowsHoldTheirOwn, Due,
                RetainedIsSuffix, PoolAccounts
<1>7. CASE Done
  BY <1>6, <1>7 DEF Done
<1> QED
  BY <1>1, <1>2, <1>3, <1>4, <1>5, <1>6, <1>7 DEF Next

(* The inductive invariant holds in every reachable state.                 *)
THEOREM InvariantCorrect == Spec => []IInv
<1> QED
  BY InitInvariant, StepKeepsInvariant, PTL DEF Spec

(* The state stays well formed, whatever calls are made.                   *)
THEOREM TypeCorrect == Spec => []TypeOK
<1>1. IInv => TypeOK
  BY DEF IInv
<1> QED
  BY <1>1, InvariantCorrect, PTL

(* Each window counts exactly the observations made while it was open, for *)
(* every pool size: no recycled sketch brings back an evicted window.      *)
THEOREM WindowsHoldTheirOwnCorrect == Spec => []WindowsHoldTheirOwn
<1>1. IInv => WindowsHoldTheirOwn
  BY DEF IInv
<1> QED
  BY <1>1, InvariantCorrect, PTL

(* The closed windows are always the newest max_windows of those that      *)
(* ended, in order and without a hole.                                     *)
THEOREM RetainedIsSuffixCorrect == Spec => []RetainedIsSuffix
<1>1. IInv => RetainedIsSuffix
  BY DEF IInv
<1> QED
  BY <1>1, InvariantCorrect, PTL

(* The pool never loses a sketch and never allocates more than             *)
(* max(pool_cap, max_windows + 2) of them, however long the stream.        *)
THEOREM PoolAccountsCorrect == Spec => []PoolAccounts
<1>1. IInv => PoolAccounts
  BY DEF IInv
<1> QED
  BY <1>1, InvariantCorrect, PTL


(***************************************************************************)
(* The promise.  While a call runs, the window it found open is the        *)
(* promise's present; the closing loop is a stutter until the last step.   *)
(***************************************************************************)

(* The clock and the windows closed by force stay inside a timestamp: the  *)
(* boundary of the open window never wraps.                                *)
ClockFits == MaxTime + (MaxFlushes + 1) * WindowSize < TimeRange

(* The flushes that already closed their window. *)
Forced == IF call.op = "flush" THEN flushes - 1 ELSE flushes

(* The open window starts at its number times the window size.  Only a     *)
(* flush takes it past the clock, one window a time, and the closing loop  *)
(* never takes it past the time of its call.                               *)
Clock ==
  /\ call = NoCall \/ call.op \in {"insert", "flush"}
  /\ Forced \in 0..MaxFlushes
  /\ activeStart = activeId * WindowSize
  /\ activeStart <= MaxTime + Forced * WindowSize
  /\ call # NoCall =>
       /\ call.from <= activeId
       /\ call.from = activeId \/ activeStart <= call.time

LEMMA ProductFacts ==
  ASSUME NEW a \in Nat, NEW b \in Nat, NEW d \in Nat
  PROVE  /\ a * d \in Nat
         /\ (a + 1) * d = a * d + d
         /\ a <= b => a * d <= b * d
<1>1. a * d \in Nat /\ (a + 1) * d = a * d + d
  OBVIOUS
<1>2. ASSUME a <= b
      PROVE  a * d <= b * d
  <2>1. b - a \in Nat /\ b = a + (b - a)
    BY <1>2
  <2>2. (b - a) * d \in Nat /\ b * d = a * d + (b - a) * d
    BY <2>1
  <2> QED
    BY <1>1, <2>2
<1> QED
  BY <1>1, <1>2

(* The window a time falls in.                                             *)
LEMMA QuotientFacts ==
  ASSUME NEW n \in Nat, NEW d \in Nat \ {0}, NEW k \in Nat, n < k * d + d
  PROVE  /\ n \div d \in Nat
         /\ n \div d <= k
         /\ k * d <= n => n \div d = k
<1>1. /\ n \div d \in Nat
      /\ (n \div d) * d <= n
      /\ n < (n \div d) * d + d
  OBVIOUS
<1>2. ASSUME k < n \div d
      PROVE  FALSE
  <2>1. (k + 1) * d <= (n \div d) * d
    BY <1>1, <1>2, ProductFacts
  <2>2. (k + 1) * d = k * d + d /\ k * d \in Nat /\ (n \div d) * d \in Nat
    BY <1>1, ProductFacts
  <2> QED
    BY <1>1, <2>1, <2>2
<1>3. ASSUME k * d <= n, n \div d < k
      PROVE  FALSE
  <2>1. (n \div d + 1) * d <= k * d
    BY <1>1, <1>3, ProductFacts
  <2>2. (n \div d + 1) * d = (n \div d) * d + d /\ k * d \in Nat /\ (n \div d) * d \in Nat
    BY <1>1, ProductFacts
  <2> QED
    BY <1>1, <1>3, <2>1, <2>2
<1> QED
  BY <1>1, <1>2, <1>3

(* The boundary is where the next window starts.                           *)
LEMMA BoundaryFacts ==
  ASSUME ClockFits, IInv, Clock
  PROVE  /\ Boundary = activeStart + WindowSize
         /\ Boundary = (activeId + 1) * WindowSize
         /\ Boundary <= MaxTime + (Forced + 1) * WindowSize
<1> USE SizeAssumption
<1>1. /\ activeId \in Nat
      /\ activeStart \in Nat
      /\ activeStart = activeId * WindowSize
      /\ Forced \in Nat
      /\ Forced <= MaxFlushes
      /\ activeStart <= MaxTime + Forced * WindowSize
  BY DEF IInv, TypeOK, Clock
<1>2. (activeId + 1) * WindowSize = activeStart + WindowSize
  BY <1>1, ProductFacts
<1>3. /\ Forced * WindowSize \in Nat
      /\ (Forced + 1) * WindowSize = Forced * WindowSize + WindowSize
  BY <1>1, ProductFacts
<1>4. /\ (MaxFlushes + 1) * WindowSize \in Nat
      /\ (Forced + 1) * WindowSize <= (MaxFlushes + 1) * WindowSize
  <2>1. Forced + 1 \in Nat /\ MaxFlushes + 1 \in Nat /\ Forced + 1 <= MaxFlushes + 1
    BY <1>1
  <2> QED
    BY <2>1, ProductFacts
<1>5. activeStart + WindowSize \in Nat /\ activeStart + WindowSize < TimeRange
  BY <1>1, <1>3, <1>4 DEF ClockFits
<1>6. Boundary = activeStart + WindowSize
  BY <1>5 DEF Boundary
<1> QED
  BY <1>1, <1>2, <1>3, <1>6

LEMMA InitClock == Init => Clock
<1> SUFFICES ASSUME Init PROVE Clock
  OBVIOUS
<1>1. activeId = 0 /\ activeStart = 0 /\ call = NoCall /\ flushes = 0
  BY DEF Init
<1>2. Forced = 0 /\ 0 * WindowSize = 0
  BY <1>1, SizeAssumption DEF Forced, NoCall
<1> QED
  BY <1>1, <1>2, SizeAssumption DEF Clock

(* Between calls nothing is being closed by force.                         *)
LEMMA ForcedFacts ==
  ASSUME IInv
  PROVE  /\ flushes \in Nat /\ flushes <= MaxFlushes
         /\ call = NoCall => Forced = flushes
         /\ call.op = "insert" => Forced = flushes
         /\ call.op = "flush" => Forced + 1 = flushes
BY SizeAssumption DEF IInv, TypeOK, Forced, NoCall

LEMMA StepKeepsClock ==
  ASSUME ClockFits, IInv, IInv', Clock, [Next]_vars
  PROVE  Clock'
<1> USE SizeAssumption
<1>0. /\ activeId \in Nat
      /\ activeStart \in Nat
      /\ call \in Calls
      /\ call.from \in Nat
      /\ call.time \in Nat
      /\ call.time <= MaxTime
      /\ Forced \in Nat
      /\ Forced <= MaxFlushes
      /\ flushes \in Nat
      /\ flushes <= MaxFlushes
      /\ NoCall.op = "none"
  BY ForcedFacts DEF IInv, TypeOK, Calls, Times, Clock, NoCall
<1>1. ASSUME NEW t \in Times, BeginInsert(t)
      PROVE  Clock'
  <2>1. /\ call' = [op |-> "insert", time |-> t, from |-> activeId]
        /\ activeId' = activeId /\ activeStart' = activeStart /\ flushes' = flushes
        /\ call = NoCall
    BY <1>1 DEF BeginInsert
  <2>2. call'.op = "insert" /\ call'.from = activeId
    BY <2>1
  <2>3. Forced' = flushes /\ Forced = flushes
    BY <2>1, <2>2, ForcedFacts DEF Forced
  <2> QED
    BY <1>0, <2>1, <2>2, <2>3 DEF Clock
<1>2. ASSUME NEW t \in Times, BeginFlush(t)
      PROVE  Clock'
  <2>1. /\ call' = [op |-> "flush", time |-> t, from |-> activeId]
        /\ activeId' = activeId /\ activeStart' = activeStart /\ flushes' = flushes + 1
        /\ call = NoCall
    BY <1>2 DEF BeginFlush
  <2>2. call'.op = "flush" /\ call'.from = activeId
    BY <2>1
  <2>3. Forced' = flushes /\ Forced = flushes
    BY <1>0, <2>1, <2>2, ForcedFacts DEF Forced
  <2> QED
    BY <1>0, <2>1, <2>2, <2>3 DEF Clock
<1>3. CASE Advance
  <2>1. /\ call # NoCall
        /\ call.time >= Boundary
        /\ activeId' = activeId + 1 /\ activeStart' = Boundary
        /\ call' = call /\ flushes' = flushes
    BY <1>3 DEF Advance, Elapsed, CloseActive
  <2>2. Boundary = (activeId + 1) * WindowSize
    BY BoundaryFacts
  <2>3. Forced' = Forced
    BY <2>1 DEF Forced
  <2>4. Forced * WindowSize \in Nat /\ (activeId + 1) * WindowSize \in Nat
    BY <1>0, ProductFacts
  <2>5. activeStart' <= call.time /\ activeStart' <= MaxTime + Forced * WindowSize
    BY <1>0, <2>1, <2>2, <2>4
  <2>6. call.from <= activeId
    BY <2>1 DEF Clock
  <2> QED
    BY <1>0, <2>1, <2>2, <2>3, <2>5, <2>6 DEF Clock
<1>4. CASE Observe
  <2>1. /\ call.op = "insert" /\ call' = NoCall
        /\ activeId' = activeId /\ activeStart' = activeStart /\ flushes' = flushes
    BY <1>4 DEF Observe
  <2>2. Forced' = flushes /\ Forced = flushes
    BY <1>0, <2>1, ForcedFacts DEF Forced
  <2> QED
    BY <1>0, <2>1, <2>2 DEF Clock
<1>5. CASE FlushCloses
  <2>1. /\ call.op = "flush" /\ call' = NoCall
        /\ activeId' = activeId + 1 /\ activeStart' = Boundary /\ flushes' = flushes
    BY <1>5 DEF FlushCloses, CloseActive
  <2>2. Forced' = flushes /\ Forced + 1 = flushes
    BY <1>0, <2>1, ForcedFacts DEF Forced
  <2>3. Boundary = (activeId + 1) * WindowSize /\ Boundary <= MaxTime + (Forced + 1) * WindowSize
    BY BoundaryFacts
  <2> QED
    BY <1>0, <2>1, <2>2, <2>3 DEF Clock
<1>6. CASE UNCHANGED vars
  <2>1. call' = call /\ activeId' = activeId /\ activeStart' = activeStart /\ flushes' = flushes
    BY <1>6 DEF vars
  <2>2. Forced' = Forced
    BY <2>1 DEF Forced
  <2> QED
    BY <2>1, <2>2 DEF Clock
<1>7. CASE Done
  BY <1>6, <1>7 DEF Done
<1> QED
  BY <1>1, <1>2, <1>3, <1>4, <1>5, <1>6, <1>7 DEF Next


(* When the closing loop ends, the open window is the one the promise      *)
(* says the time of the call reaches.                                      *)
LEMMA LoopReaches ==
  ASSUME ClockFits, IInv, Clock, call # NoCall, ~Elapsed
  PROVE  /\ call.time \in Times
         /\ Promise!Reached(call.time) = activeId
<1> USE SizeAssumption
<1> DEFINE t == call.time
           now == IF call = NoCall THEN activeId ELSE call.from
<1>1. /\ activeId \in Nat /\ t \in Nat /\ t \in Times
      /\ call.from \in Nat /\ call.from <= activeId
      /\ activeStart = activeId * WindowSize
      /\ call.from = activeId \/ activeStart <= t
      /\ now = call.from
  BY DEF IInv, TypeOK, Calls, Times, Clock
<1>2. Boundary = activeStart + WindowSize /\ activeStart \in Nat
  BY BoundaryFacts DEF IInv, TypeOK
<1>3. t < activeId * WindowSize + WindowSize
  BY <1>1, <1>2 DEF Elapsed
<1>4. /\ t \div WindowSize \in Nat
      /\ t \div WindowSize <= activeId
      /\ activeId * WindowSize <= t => t \div WindowSize = activeId
  BY <1>1, <1>3, QuotientFacts
<1>5. Promise!Reached(t) = IF t \div WindowSize > now THEN t \div WindowSize ELSE now
  BY DEF Promise!Reached
<1> QED
  BY <1>1, <1>4, <1>5

LEMMA StepKeepsPromise ==
  ASSUME ClockFits, IInv, Clock, [Next]_vars
  PROVE  [Promise!Next]_(Promise!vars)
<1> DEFINE now == IF call = NoCall THEN activeId ELSE call.from
<1>1. Promise!vars = <<now, log>>
  BY DEF Promise!vars
<1>2. NoCall.op = "none"
  BY DEF NoCall
<1>3. ASSUME NEW t \in Times, BeginInsert(t)
      PROVE  UNCHANGED Promise!vars
  <2>1. /\ call = NoCall /\ log' = log
        /\ call' = [op |-> "insert", time |-> t, from |-> activeId]
    BY <1>3 DEF BeginInsert
  <2>2. call'.op = "insert" /\ call'.from = activeId
    BY <2>1
  <2>3. now' = now
    BY <1>2, <2>1, <2>2 DEF NoCall
  <2> QED
    BY <2>1, <2>3 DEF Promise!vars
<1>4. ASSUME NEW t \in Times, BeginFlush(t)
      PROVE  UNCHANGED Promise!vars
  <2>1. /\ call = NoCall /\ log' = log
        /\ call' = [op |-> "flush", time |-> t, from |-> activeId]
    BY <1>4 DEF BeginFlush
  <2>2. call'.op = "flush" /\ call'.from = activeId
    BY <2>1
  <2>3. now' = now
    BY <1>2, <2>1, <2>2 DEF NoCall
  <2> QED
    BY <2>1, <2>3 DEF Promise!vars
<1>5. CASE Advance
  <2>1. call # NoCall /\ call' = call /\ log' = log
    BY <1>5 DEF Advance
  <2>2. now' = now
    BY <2>1 DEF NoCall
  <2> QED
    BY <2>1, <2>2 DEF Promise!vars
<1>6. CASE Observe
  <2>1. /\ call.op = "insert" /\ ~Elapsed /\ call' = NoCall /\ activeId' = activeId
        /\ log' = Append(log, [time |-> call.time, window |-> activeId])
    BY <1>6 DEF Observe
  <2>2. call.time \in Times /\ Promise!Reached(call.time) = activeId
    BY <1>2, <2>1, LoopReaches
  <2>3. now' = activeId
    BY <2>1 DEF NoCall
  <2>4. Promise!Insert(call.time)
    BY <2>1, <2>2, <2>3 DEF Promise!Insert
  <2> QED
    BY <2>2, <2>4 DEF Promise!Next
<1>7. CASE FlushCloses
  <2>1. /\ call.op = "flush" /\ ~Elapsed /\ call' = NoCall /\ activeId' = activeId + 1
        /\ log' = log
    BY <1>7 DEF FlushCloses, CloseActive
  <2>2. call.time \in Times /\ Promise!Reached(call.time) = activeId
    BY <1>2, <2>1, LoopReaches
  <2>3. now' = activeId + 1
    BY <2>1 DEF NoCall
  <2>4. Promise!Flush(call.time)
    BY <2>1, <2>2, <2>3 DEF Promise!Flush
  <2> QED
    BY <2>2, <2>4 DEF Promise!Next
<1>8. CASE UNCHANGED vars
  <2>1. call' = call /\ activeId' = activeId /\ log' = log
    BY <1>8 DEF vars
  <2> QED
    BY <2>1 DEF Promise!vars, NoCall
<1>9. CASE Done
  BY <1>8, <1>9 DEF Done
<1> QED
  BY <1>3, <1>4, <1>5, <1>6, <1>7, <1>8, <1>9 DEF Next

LEMMA InitKeepsPromise == Init => Promise!Init
BY DEF Init, Promise!Init

(* The window is always where the clock and the flushes put it: the start  *)
(* of the open one is its number times the window size, and no closing     *)
(* loop runs past the time of its call.                                    *)
THEOREM ClockCorrect ==
  ASSUME ClockFits
  PROVE  Spec => []Clock
<1>1. IInv /\ IInv' /\ Clock /\ [Next]_vars => Clock'
  BY StepKeepsClock
<1> QED
  BY <1>1, InitClock, InvariantCorrect, PTL DEF Spec

(* However many windows a call closes on its way, and however many of the  *)
(* sketches it recycles, insert and flush do in the end what the promise   *)
(* says, in one step: the tumbling window implements TumblingPromise.      *)
THEOREM PromiseCorrect ==
  ASSUME ClockFits
  PROVE  Spec => KeepsPromise
<1>1. IInv /\ Clock /\ [Next]_vars => [Promise!Next]_(Promise!vars)
  BY StepKeepsPromise
<1> QED
  BY <1>1, InitKeepsPromise, InvariantCorrect, ClockCorrect, PTL
  DEF Spec, KeepsPromise, Promise!Spec


(***************************************************************************)
(* The queries.  A merge adds up its windows one at a time, by recursion;  *)
(* what it holds after each is the observations of the windows so far.     *)
(***************************************************************************)

(* The observations in the open window and in those of `closed' from first *)
(* to last, counted once each.                                             *)
Within(first, last, o) ==
  IF /\ o \in DOMAIN log
     /\ \/ log[o].window = activeId
        \/ /\ log[o].window >= activeId - Len(closed) + first - 1
           /\ log[o].window <= activeId - Len(closed) + last - 1
  THEN 1 ELSE 0

Covered(first, last) == [o \in Obs |-> Within(first, last, o)]

(* One more closed window adds its own observations, none of which any     *)
(* other window holds.                                                     *)
LEMMA CoverOneMore ==
  ASSUME IInv, NEW first \in 1..(Len(closed) + 1), NEW i \in first..Len(closed)
  PROVE  Covered(first, i) = Merged(Covered(first, i - 1), closed[i].sketch)
<1>1. /\ activeId \in Nat
      /\ closed \in Seq(Windows)
      /\ Len(closed) \in Nat
      /\ DOMAIN log = 1..Len(log)
      /\ \A o \in 1..Len(log) : log[o].window \in Nat
  BY LogFacts DEF IInv, TypeOK, Windows
<1>2. i \in 1..Len(closed) /\ i \in DOMAIN closed /\ first \in Int /\ i \in Int
  BY <1>1
<1>3. closed[i].id = activeId - Len(closed) + i - 1
  BY <1>2 DEF IInv, RetainedIsSuffix
<1>4. ASSUME NEW o \in Obs
      PROVE  Covered(first, i)[o] = Covered(first, i - 1)[o] + closed[i].sketch[o]
  <2>1. closed[i].sketch[o] =
          IF o \in DOMAIN log /\ log[o].window = activeId - Len(closed) + i - 1 THEN 1 ELSE 0
    BY <1>2, <1>3 DEF IInv, WindowsHoldTheirOwn, Due
  <2>2. /\ Covered(first, i)[o] = Within(first, i, o)
        /\ Covered(first, i - 1)[o] = Within(first, i - 1, o)
    BY DEF Covered
  <2>3. CASE o \notin DOMAIN log
    BY <2>1, <2>2, <2>3 DEF Within
  <2>4. CASE o \in DOMAIN log
    <3>1. log[o].window \in Nat
      BY <1>1, <2>4
    <3>2. PICK own \in Nat : own = log[o].window
      BY <3>1
    <3>3. PICK base \in Int : base = activeId - Len(closed)
      <4>1. activeId - Len(closed) \in Int
        BY <1>1
      <4> QED
        BY <4>1
    <3>4. first <= i /\ base + i - 1 < activeId
      BY <1>1, <1>2, <3>3
    <3>5. /\ Within(first, i, o) =
               IF own = activeId \/ (own >= base + first - 1 /\ own <= base + i - 1) THEN 1 ELSE 0
          /\ Within(first, i - 1, o) =
               IF own = activeId \/ (own >= base + first - 1 /\ own <= base + (i - 1) - 1)
               THEN 1 ELSE 0
      BY <2>4, <3>2, <3>3 DEF Within
    <3>6. closed[i].sketch[o] = IF own = base + i - 1 THEN 1 ELSE 0
      BY <2>1, <2>4, <3>2, <3>3
    <3>7. /\ own = base + i - 1 =>
               /\ own # activeId /\ own >= base + first - 1 /\ own <= base + i - 1
               /\ ~(own <= base + (i - 1) - 1)
          /\ own # base + i - 1 => (own <= base + i - 1 <=> own <= base + (i - 1) - 1)
      BY <1>1, <1>2, <3>4
    <3>8. Within(first, i, o) = Within(first, i - 1, o) + closed[i].sketch[o]
      BY <3>5, <3>6, <3>7
    <3> QED
      BY <2>2, <3>8
  <2> QED
    BY <2>3, <2>4
<1> QED
  BY <1>4 DEF Covered, Merged

(* With no closed window yet the merge is the open one.                    *)
LEMMA CoverOpen ==
  ASSUME IInv, NEW first \in 1..(Len(closed) + 1)
  PROVE  Covered(first, first - 1) = active
<1>1. active \in Sketches /\ \A o \in Obs : active[o] = Due(activeId, o)
  BY DEF IInv, TypeOK, WindowsHoldTheirOwn
<1>2. /\ activeId \in Nat
      /\ Len(closed) \in Nat
      /\ DOMAIN log = 1..Len(log)
      /\ \A o \in 1..Len(log) : log[o].window \in Nat
  BY LogFacts DEF IInv, TypeOK
<1>3. first \in Int
  BY <1>2
<1>4. ASSUME NEW o \in Obs
      PROVE  Within(first, first - 1, o) = active[o]
  <2>1. active[o] = IF o \in DOMAIN log /\ log[o].window = activeId THEN 1 ELSE 0
    BY <1>1 DEF Due
  <2>2. o \in DOMAIN log => log[o].window \in Nat
    BY <1>2
  <2> QED
    BY <1>2, <1>3, <2>1, <2>2 DEF Within
<1> QED
  BY <1>1, <1>4 DEF Covered, Sketches

(* The recursive merge exists, is unique and holds after every window what *)
(* the windows so far do: two functions that satisfy its equation cannot   *)
(* differ at a least window.                                               *)
LEMMA MergedFacts ==
  ASSUME IInv, NEW first \in 1..(Len(closed) + 1)
  PROVE  MergedFrom(first) = Covered(first, Len(closed))
<1> DEFINE D == (first - 1)..Len(closed)
           Step(f) == [i \in D |-> IF i < first THEN active
                                   ELSE Merged(f[i - 1], closed[i].sketch)]
           known == [i \in D |-> Covered(first, i)]
           upTo == CHOOSE f : f = Step(f)
<1>1. Len(closed) \in Nat /\ first \in Nat /\ first >= 1 /\ first <= Len(closed) + 1
  BY DEF IInv, TypeOK
<1>2. MergedFrom(first) = upTo[Len(closed)]
  BY DEF MergedFrom
<1>3. ASSUME NEW i \in D, ~ (i < first)
      PROVE  /\ i - 1 \in D
             /\ i \in first..Len(closed)
  BY <1>1, <1>3
<1>4. ASSUME NEW i \in D, i < first
      PROVE  i = first - 1
  BY <1>1, <1>4
<1>5. known = Step(known)
  <2>1. ASSUME NEW i \in D
        PROVE  known[i] = Step(known)[i]
    <3>1. CASE i < first
      BY <1>4, <3>1, CoverOpen
    <3>2. CASE ~ (i < first)
      <4>1. i - 1 \in D /\ i \in first..Len(closed)
        BY <1>3, <3>2
      <4>2. Covered(first, i) = Merged(Covered(first, i - 1), closed[i].sketch)
        BY <4>1, CoverOneMore
      <4> QED
        BY <3>2, <4>1, <4>2
    <3> QED
      BY <3>1, <3>2
  <2> QED
    BY <2>1
<1>6. upTo = Step(upTo)
  <2> HIDE DEF Step, known
  <2> QED
    BY <1>5
<1>7. PICK f : f = upTo
  OBVIOUS
<1>8. f = Step(f)
  <2> HIDE DEF Step, upTo
  <2> QED
    BY <1>6, <1>7
<1> HIDE DEF upTo
<1> DEFINE Wrong == {i \in D : f[i] # known[i]}
<1>9. ASSUME Wrong # {}
      PROVE  FALSE
  <2>1. Wrong \in SUBSET Nat
    BY <1>1
  <2>2. PICK i \in Wrong : \A j \in Wrong : i <= j
    BY <1>9, <2>1, LeastNumber
  <2>3. i \in D /\ f[i] # known[i]
    BY <2>2
  <2>4. CASE i < first
    <3>1. f[i] = active
      BY <1>8, <2>3, <2>4
    <3>2. known[i] = active
      BY <1>4, <2>3, <2>4, CoverOpen
    <3> QED
      BY <2>3, <3>1, <3>2
  <2>5. CASE ~ (i < first)
    <3>1. i - 1 \in D /\ i \in first..Len(closed)
      BY <1>3, <2>3, <2>5
    <3>2. i - 1 \notin Wrong
      <4>1. ~ (i <= i - 1)
        BY <1>1, <3>1
      <4> HIDE DEF Wrong
      <4> QED
        BY <2>2, <4>1
    <3>3. f[i - 1] = known[i - 1]
      BY <3>1, <3>2
    <3>4. f[i] = Merged(f[i - 1], closed[i].sketch)
      BY <1>8, <2>3, <2>5
    <3>5. known[i] = Merged(known[i - 1], closed[i].sketch)
      BY <2>3, <3>1, CoverOneMore
    <3> QED
      BY <2>3, <3>3, <3>4, <3>5
  <2> QED
    BY <2>4, <2>5
<1>10. Len(closed) \in D
  BY <1>1
<1>11. f[Len(closed)] = known[Len(closed)]
  BY <1>9, <1>10
<1> QED
  BY <1>2, <1>7, <1>10, <1>11

(* What query_recent answers, between two calls: the open window and the n *)
(* newest closed ones.                                                     *)
LEMMA RecentFacts ==
  ASSUME IInv, call = NoCall, NEW n \in Nat, NEW o \in Obs
  PROVE  QueryRecent(n)[o] = IF o \in Promise!Answer(n) THEN 1 ELSE 0
<1> USE SizeAssumption
<1> DEFINE first == 1 + (IF n < Len(closed) THEN Len(closed) - n ELSE 0)
           kept == IF n < MaxWindows THEN n ELSE MaxWindows
<1>1. /\ activeId \in Nat
      /\ Len(closed) \in Nat
      /\ Len(closed) = IF activeId < MaxWindows THEN activeId ELSE MaxWindows
      /\ DOMAIN log = 1..Len(log)
      /\ \A q \in 1..Len(log) : log[q].window \in Nat /\ log[q].window <= activeId
  BY LogFacts DEF IInv, TypeOK, RetainedIsSuffix
<1>2. first \in 1..(Len(closed) + 1)
  BY <1>1
<1>3. QueryRecent(n) = Covered(first, Len(closed))
  <2>1. QueryRecent(n) = MergedFrom(first)
    BY DEF QueryRecent
  <2> HIDE DEF first
  <2> QED
    BY <1>2, <2>1, MergedFacts
<1>4. QueryRecent(n)[o] = Within(first, Len(closed), o)
  BY <1>3 DEF Covered
<1>5. Promise!Answer(n) = {q \in DOMAIN log : log[q].window + kept >= activeId}
  BY DEF Promise!Answer
<1>6. CASE o \notin DOMAIN log
  BY <1>4, <1>5, <1>6 DEF Within
<1>7. CASE o \in DOMAIN log
  <2>1. log[o].window \in Nat /\ log[o].window <= activeId
    BY <1>1, <1>7
  <2>2. o \in Promise!Answer(n) <=> log[o].window + kept >= activeId
    BY <1>5, <1>7
  <2>3. Within(first, Len(closed), o) =
          IF \/ log[o].window = activeId
             \/ /\ log[o].window >= activeId - Len(closed) + first - 1
                /\ log[o].window <= activeId - 1
          THEN 1 ELSE 0
    BY <1>1, <1>7 DEF Within
  <2>4. (log[o].window + kept >= activeId)
          <=> \/ log[o].window = activeId
              \/ /\ log[o].window >= activeId - Len(closed) + first - 1
                 /\ log[o].window <= activeId - 1
    BY <1>1, <2>1
  <2> QED
    BY <1>4, <2>2, <2>3, <2>4
<1> QED
  BY <1>6, <1>7

(* Every query counts each observation of the windows it covers once and   *)
(* nothing else: the merges over recycled sketches answer what the promise *)
(* says, whatever the window size, the limits and the pool.                *)
THEOREM AnswersAsPromisedCorrect == Spec => []AnswersAsPromised
<1>1. ASSUME IInv
      PROVE  AnswersAsPromised
  <2> SUFFICES ASSUME call = NoCall
               PROVE  /\ \A n \in 0..(MaxWindows + 1), o \in Obs :
                           QueryRecent(n)[o] = IF o \in Promise!Answer(n) THEN 1 ELSE 0
                      /\ QueryAll = QueryRecent(MaxWindows)
    BY DEF AnswersAsPromised
  <2>1. ASSUME NEW n \in 0..(MaxWindows + 1), NEW o \in Obs
        PROVE  QueryRecent(n)[o] = IF o \in Promise!Answer(n) THEN 1 ELSE 0
    <3>1. n \in Nat
      BY SizeAssumption
    <3> QED
      BY <1>1, <3>1, RecentFacts
  <2>2. ~ (MaxWindows < Len(closed))
    BY <1>1, SizeAssumption DEF IInv, TypeOK, RetainedIsSuffix
  <2>3. QueryAll = QueryRecent(MaxWindows)
    BY <2>2 DEF QueryAll, QueryRecent
  <2> QED
    BY <2>1, <2>3
<1> QED
  BY <1>1, InvariantCorrect, PTL

=============================================================================
