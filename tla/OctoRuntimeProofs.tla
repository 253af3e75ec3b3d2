--------------------------- MODULE OctoRuntimeProofs ---------------------------
(***************************************************************************)
(* Theorems about OctoRuntime for every number of workers, every sketch    *)
(* geometry, every hash, every queue capacity, threshold and number of     *)
(* inputs, flushes, readers and panics: type correctness, the flow of      *)
(* increments, that the runtime implements OctoPromise, and the rounds of  *)
(* flush with what their acknowledgements and drains prove.                *)
(***************************************************************************)
EXTENDS OctoRuntime, RowLemmas, FiniteSetTheorems, TLAPS

\* NoKey stands for a real key.
LEMMA NoKeyIsKey == NoKey \in Keys
BY HashAssumption DEF NoKey

\* The worker an input is routed to exists.
LEMMA RouteIsWorker ==
  ASSUME TypeOK, NEW k \in Keys
  PROVE  Route(k) \in Workers
BY SizeAssumption, HashAssumption, SMTT(60) DEF TypeOK, Route, Workers

\* The caller's loop index stays an index.
LEMMA NextWorkerType ==
  ASSUME TypeOK, NEW after, NextWorker(after)
  PROVE  /\ step' \in Workers
         /\ pc' = pc \/ pc' = after
BY SizeAssumption DEF TypeOK, NextWorker, Workers

LEMMA NextReceiverType ==
  ASSUME TypeOK, NextReceiver
  PROVE  sweep' \in Workers /\ apc' \in {apc, "adjust"}
BY SizeAssumption DEF TypeOK, NextReceiver, Workers

\* Appending to one of several queues keeps their type.
LEMMA QueueAppend ==
  ASSUME NEW D, NEW S, NEW q \in [D -> Seq(S)], NEW d \in D, NEW x \in S
  PROVE  [q EXCEPT ![d] = Append(@, x)] \in [D -> Seq(S)]
OBVIOUS

LEMMA QueueTail ==
  ASSUME NEW D, NEW S, NEW q \in [D -> Seq(S)], NEW d \in D, q[d] # <<>>
  PROVE  [q EXCEPT ![d] = Tail(@)] \in [D -> Seq(S)]
OBVIOUS

LEMMA TypeInit == Init => TypeOK
<1> SUFFICES ASSUME Init PROVE TypeOK
  OBVIOUS
<1>1. NoCounts \in [Cells -> SUBSET Ids]
  BY DEF NoCounts
<1>2. 1 \in Workers
  BY SizeAssumption DEF Workers
<1>3. /\ held \in [Workers -> [Cells -> SUBSET Ids]] /\ out \in [Workers -> [Cells -> SUBSET Ids]]
      /\ inq \in [Workers -> Seq(Messages)] /\ dq \in [Workers -> Seq(Deltas)]
  BY <1>1 DEF Init
<1>4. accepted \in Seq([key : Keys, worker : Workers]) /\ Len(accepted) = 0
  BY DEF Init
<1>5. tau \in 1..MaxPromask
  BY TauAssumption DEF Init
<1>6. Len(accepted) + (IF pc = "insert" THEN 1 ELSE 0) <= MaxInputs
  BY <1>4, SizeAssumption DEF Init
<1>7. /\ wpc \in [Workers -> {"run", "flush", "end", "stopped", "orphaned", "panicked"}]
      /\ rpc \in [Readers -> {"idle", "holding", "reading", "refused"}]
  BY DEF Init
<1>8. connected \in SUBSET Workers /\ parent \in [Cells -> SUBSET Ids]
  BY <1>1 DEF Init
<1>9. /\ step \in Workers /\ arg \in Keys /\ sweep \in Workers
      /\ nextWorker \in Nat /\ flushes \in Nat /\ quiet \in 0..2 /\ acks \in Nat
      /\ reads \in Nat /\ faults \in Nat
  BY <1>2, NoKeyIsKey DEF Init
<1>10. closed \in BOOLEAN /\ progress \in BOOLEAN
  BY DEF Init
<1>11. /\ pc = "ready" /\ apc = "poll" /\ control = "none"
  BY DEF Init
<1> QED
  BY <1>3, <1>4, <1>5, <1>6, <1>7, <1>8, <1>9, <1>10, <1>11 DEF TypeOK

LEMMA TypeCaller == TypeOK /\ (Call \/ CallerStep) => TypeOK'
<1> SUFFICES ASSUME TypeOK, Call \/ CallerStep PROVE TypeOK'
  OBVIOUS
<1> USE SizeAssumption DEF TypeOK, channels, threads, workerVars, aggVars, readVars, callerData
<1>1. ASSUME NEW k \in Keys, BeginInsert(k) PROVE TypeOK'
  BY <1>1 DEF BeginInsert, Ready
<1>2. ASSUME NEW how \in {"misused", "dropped", "failed", "done", "pinned"}, Leave(how), pc # "insert" \/ how = "failed"
      PROVE TypeOK'
  BY <1>2 DEF Leave
<1>3. CASE BeginFlush
  BY <1>3, SMTT(60) DEF BeginFlush, Ready, Workers
<1>4. CASE Close
  BY <1>4 DEF Close, Ready, Workers
<1>5. CASE Finish
  BY <1>5 DEF Finish, Ready, Workers
<1>6. CASE SendInput
  <2> DEFINE w == Route(arg)
  <2>1. w \in Workers
    BY RouteIsWorker
  <2>2. accepted' \in Seq([key : Keys, worker : Workers]) /\ Len(accepted') = Len(accepted) + 1
    <3>1. [key |-> arg, worker |-> w] \in [key : Keys, worker : Workers]
      BY <2>1
    <3> QED
      BY <1>6, <3>1 DEF SendInput
  <2>3. inq' \in [Workers -> Seq(Messages)]
    <3>1. DataMsg(Len(accepted) + 1) \in Messages
      BY <1>6, SMTT(60) DEF SendInput, Messages, Ids
    <3> QED
      BY <1>6, <2>1, <3>1, QueueAppend DEF SendInput
  <2>4. nextWorker' \in Nat
    BY <1>6 DEF SendInput
  <2> QED
    BY <1>6, <2>2, <2>3, <2>4, NoKeyIsKey DEF SendInput
<1>7. CASE SendFlush
  <2>1. inq' \in [Workers -> Seq(Messages)]
    <3>1. FlushMsg \in Messages
      BY DEF Messages
    <3> QED
      BY <1>7, <3>1, QueueAppend DEF SendFlush
  <2>2. step' \in Workers /\ pc' \in {pc, "flushAck"} /\ pc = "flushSend"
    BY <1>7, NextWorkerType DEF SendFlush
  <2> QED
    BY <1>7, <2>1, <2>2 DEF SendFlush
<1>8. CASE CollectAck
  BY <1>8, NextWorkerType DEF CollectAck
<1>9. CASE SendDrain
  BY <1>9 DEF SendDrain
<1>10. CASE FlushReturns
  BY <1>10 DEF FlushReturns
<1>11. CASE SendEnd
  <2>1. inq' \in [Workers -> Seq(Messages)]
    <3>1. EndMsg \in Messages
      BY DEF Messages
    <3>2. inq' = inq \/ inq' = [inq EXCEPT ![step] = Append(@, EndMsg)]
      BY <1>11 DEF SendEnd
    <3>3. [inq EXCEPT ![step] = Append(@, EndMsg)] \in [Workers -> Seq(Messages)]
      BY <3>1, QueueAppend
    <3> QED
      BY <3>2, <3>3
  <2>2. step' \in Workers /\ pc' \in {pc, "ready", "join"} /\ pc # "insert"
    BY <1>11, NextWorkerType DEF SendEnd
  <2> QED
    BY <1>11, <2>1, <2>2 DEF SendEnd
<1>12. CASE JoinWorker
  BY <1>12, NextWorkerType DEF JoinWorker
<1>13. CASE TakeParent
  BY <1>2, <1>13 DEF TakeParent
<1>14. CASE CallPanics
  BY <1>2, <1>14 DEF CallPanics
<1>15. CASE InsertAfterClose \/ Drop
  BY <1>2, <1>15 DEF InsertAfterClose, Drop, Ready
<1> QED
  BY <1>1, <1>3, <1>4, <1>5, <1>6, <1>7, <1>8, <1>9, <1>10, <1>11, <1>12, <1>13, <1>14, <1>15
     DEF Call, CallerStep

LEMMA TypeWorker ==
  TypeOK /\ (\E w \in Workers : WorkerStep(w) \/ WorkerPanic(w)) => TypeOK'
<1> SUFFICES ASSUME TypeOK, NEW w \in Workers, WorkerStep(w) \/ WorkerPanic(w) PROVE TypeOK'
  OBVIOUS
<1> USE DEF TypeOK, channels, threads, aggVars, readVars, callerData
<1>1. NoCounts \in [Cells -> SUBSET Ids]
  BY DEF NoCounts
<1>2. CASE WorkerProcess(w)
  <2> DEFINE i      == Head(inq[w]).id
             counts == Counted(w, i)
             full   == Promoted(counts, i)
  <2>1. inq[w] \in Seq(Messages) /\ inq[w] # <<>> /\ Head(inq[w]).type = "data"
    BY <1>2 DEF WorkerProcess, Receives
  <2>2. i \in Ids
    <3>1. Head(inq[w]) \in Messages
      BY <2>1
    <3> QED
      BY <2>1, <3>1 DEF Messages, DataMsg, FlushMsg, EndMsg
  <2>3. counts \in [Cells -> SUBSET Ids]
    BY <2>2 DEF Counted
  <2>4. Without(counts, full) \in [Cells -> SUBSET Ids] /\ Only(counts, full) \in [Cells -> SUBSET Ids]
    BY <2>3 DEF Without, Only
  <2>5. held' \in [Workers -> [Cells -> SUBSET Ids]] /\ out' \in [Workers -> [Cells -> SUBSET Ids]]
    BY <1>2, <2>4 DEF WorkerProcess
  <2>6. inq' \in [Workers -> Seq(Messages)]
    BY <1>2, <2>1, QueueTail DEF WorkerProcess
  <2> QED
    BY <1>2, <2>5, <2>6 DEF WorkerProcess
<1>3. CASE WorkerFlush(w)
  <2>1. PICK t \in {"flush", "end"} : Receives(w, t) /\ wpc' = [wpc EXCEPT ![w] = t]
    BY <1>3 DEF WorkerFlush
  <2>2. inq' \in [Workers -> Seq(Messages)]
    BY <1>3, <2>1, QueueTail DEF WorkerFlush, Receives
  <2>3. held' \in [Workers -> [Cells -> SUBSET Ids]] /\ out' \in [Workers -> [Cells -> SUBSET Ids]]
    BY <1>1, <1>3 DEF WorkerFlush, Residue
  <2> QED
    BY <1>3, <2>1, <2>2, <2>3 DEF WorkerFlush
<1>4. ASSUME NEW c \in Cells, WorkerSend(w, c) PROVE TypeOK'
  <2>1. [cell |-> c, ids |-> out[w][c]] \in Deltas
    BY DEF Deltas
  <2>2. dq' \in [Workers -> Seq(Deltas)]
    BY <1>4, <2>1, QueueAppend DEF WorkerSend
  <2>3. Without(out[w], {c}) \in [Cells -> SUBSET Ids]
    BY DEF Without
  <2>4. out' \in [Workers -> [Cells -> SUBSET Ids]]
    BY <1>4, <2>3 DEF WorkerSend
  <2> QED
    BY <1>4, <2>2, <2>4, ZenonT(60) DEF WorkerSend
<1>5. CASE WorkerAck(w)
  BY <1>5 DEF WorkerAck
<1>6. CASE WorkerReturns(w)
  BY <1>6, ZenonT(60) DEF WorkerReturns
<1>7. CASE WorkerSendFails(w) \/ WorkerPanic(w)
  <2>1. WorkerDies(w) /\ faults' \in Nat
    BY <1>7 DEF WorkerSendFails, WorkerPanic
  <2>2. inq' \in [Workers -> Seq(Messages)]
    BY <2>1 DEF WorkerDies
  <2> QED
    BY <2>1, <2>2 DEF WorkerDies
<1> QED
  BY <1>2, <1>3, <1>4, <1>5, <1>6, <1>7 DEF WorkerStep

\* The controller never leaves the range a one-byte counter allows.
LEMMA ClampType ==
  ASSUME NEW t \in Int
  PROVE  Clamp(t) \in 1..MaxPromask
BY TauAssumption DEF Clamp

LEMMA TypeAggregator == TypeOK /\ (AggStep \/ AggPanic) => TypeOK'
<1> SUFFICES ASSUME TypeOK, AggStep \/ AggPanic PROVE TypeOK'
  OBVIOUS
<1> USE DEF TypeOK, channels, workerVars, readVars, callerData
<1>1. CASE AggApply
  <2>1. dq[sweep] \in Seq(Deltas) /\ dq[sweep] # <<>>
    BY <1>1 DEF AggApply
  <2>2. Head(dq[sweep]) \in Deltas
    BY <2>1
  <2>3. parent' \in [Cells -> SUBSET Ids]
    BY <1>1, <2>2 DEF AggApply, Applied, Deltas
  <2>4. dq' \in [Workers -> Seq(Deltas)]
    BY <1>1, <2>1, QueueTail DEF AggApply
  <2> QED
    BY <1>1, <2>3, <2>4, NextReceiverType DEF AggApply
<1>2. CASE AggPass
  BY <1>2, NextReceiverType DEF AggPass, Remaining
<1>3. CASE AggAdjust
  <2>1. tau' \in 1..MaxPromask
    <3>1. Clamp(tau - 1) \in 1..MaxPromask /\ Clamp(tau) \in 1..MaxPromask /\ Clamp(tau + 1) \in 1..MaxPromask
      <4>1. tau - 1 \in Int /\ tau \in Int /\ tau + 1 \in Int
        BY TauAssumption
      <4> QED
        BY <4>1, ClampType
    <3> QED
      BY <1>3, <3>1 DEF AggAdjust
  <2> QED
    BY <1>3, <2>1 DEF AggAdjust
<1>4. CASE AggEndSweep
  BY <1>4 DEF AggEndSweep
<1>5. CASE AggPanic
  BY <1>5 DEF AggPanic
<1> QED
  BY <1>1, <1>2, <1>3, <1>4, <1>5 DEF AggStep

LEMMA TypeReader ==
  TypeOK /\ (\E r \in Readers : ReadUpgrade(r) \/ ReadStep(r)) => TypeOK'
<1> SUFFICES ASSUME TypeOK, NEW r \in Readers, ReadUpgrade(r) \/ ReadStep(r) PROVE TypeOK'
  OBVIOUS
<1>1. reads' \in Nat
  BY DEF TypeOK, ReadUpgrade, ReadStep, ReadLock, ReadDone
<1>2. PICK to \in {"idle", "holding", "reading", "refused"} : Moves(r, to)
  BY DEF ReadUpgrade, ReadStep, ReadLock, ReadDone
<1> QED
  BY <1>1, <1>2 DEF TypeOK, Moves, channels, workerVars, aggVars, callerData

\* The shapes of the runtime's state hold for every instance of it.
THEOREM TypeCorrect == Spec => []TypeOK
<1>1. TypeOK /\ UNCHANGED vars => TypeOK'
  BY DEF TypeOK, vars, channels, threads, workerVars, aggVars, readVars, callerData
<1>2. TypeOK /\ [Next]_vars => TypeOK'
  BY <1>1, TypeCaller, TypeWorker, TypeAggregator, TypeReader DEF Next
<1> QED
  BY TypeInit, <1>2, PTL DEF Spec

-----------------------------------------------------------------------------
(* The order of calls, and how channels and threads end *)

\* Positions in a queue after an append and after a take.
LEMMA AppendHas ==
  ASSUME NEW S, NEW q \in Seq(S), NEW x \in S
  PROVE  /\ Len(Append(q, x)) = Len(q) + 1
         /\ Append(q, x)[Len(q) + 1] = x
         /\ \A p \in 1..Len(q) : Append(q, x)[p] = q[p]
OBVIOUS

LEMMA TailHas ==
  ASSUME NEW S, NEW q \in Seq(S), q # <<>>
  PROVE  /\ Len(q) \in Nat /\ 1 <= Len(q)
         /\ Head(q) = q[1]
         /\ Len(Tail(q)) = Len(q) - 1
         /\ \A p \in 1..(Len(q) - 1) : Tail(q)[p] = q[p + 1]
OBVIOUS

LEMMA ElementOf ==
  ASSUME NEW S, NEW q \in Seq(S)
  PROVE  /\ Len(q) \in Nat /\ DOMAIN q = 1..Len(q)
         /\ \A p \in 1..Len(q) : q[p] \in S
OBVIOUS

Control == CallOrder /\ Endings /\ Closings

\* A caller step that sends no message, moves no other thread and keeps
\* closed, apart from SendEnd's own.
LEMMA EndingsFrame ==
  ASSUME TypeOK, Endings, UNCHANGED <<inq, wpc, held, out>>,
         \A w \in Workers : EndSent(w) => EndSent(w)'
  PROVE  Endings'
BY DEF Endings

LEMMA ClosingsFrame ==
  ASSUME Closings, UNCHANGED <<dq, wpc, apc, connected>>
  PROVE  Closings'
BY DEF Closings, WorkerGone

LEMMA ControlInit == Init => Control
BY DEF Init, Control, CallOrder, Endings, Closings

\* Appending a message other than End to a queue no End was sent to.
LEMMA EndingsAppend ==
  ASSUME TypeOK, Endings, ~closed, NEW v \in Workers, NEW m \in Messages, m # EndMsg,
         inq' = [inq EXCEPT ![v] = Append(@, m)], UNCHANGED <<wpc, held, out>>
  PROVE  Endings'
<1>1. \A w \in Workers : ~EndSent(w) /\ wpc[w] \notin {"end", "stopped"}
  BY DEF EndSent, Endings
<1>2. ASSUME NEW w \in Workers, NEW p \in 1..Len(inq'[w]) PROVE inq'[w][p] # EndMsg
  <2>1. \A q \in 1..Len(inq[w]) : inq[w][q] # EndMsg
    BY <1>1 DEF Endings
  <2>2. CASE w # v
    BY <2>1, <2>2 DEF TypeOK
  <2>3. CASE w = v
    <3>1. inq[v] \in Seq(Messages) /\ inq'[v] = Append(inq[v], m)
      BY DEF TypeOK
    <3> QED
      BY <2>1, <2>3, <3>1, AppendHas
  <2> QED
    BY <2>2, <2>3
<1> QED
  BY <1>1, <1>2 DEF Endings

LEMMA MessageKinds ==
  /\ FlushMsg \in Messages /\ EndMsg \in Messages /\ FlushMsg # EndMsg
  /\ \A i \in Ids : DataMsg(i) \in Messages /\ DataMsg(i) # EndMsg
BY DEF Messages, FlushMsg, EndMsg, DataMsg

\* The End loop reaches each worker once, and its End is the last message.
LEMMA EndingsSendEnd ==
  ASSUME TypeOK, TypeOK', Endings, CallOrder, SendEnd
  PROVE  Endings'
<1>1. /\ closed /\ pc \in {"closeSend", "finishSend"} /\ UNCHANGED <<closed, wpc, held, out>>
      /\ step \in Workers
  BY DEF SendEnd, CallOrder, callerData, threads, workerVars, TypeOK
<1>2. \A w \in Workers : EndSent(w)' <=> EndSent(w) \/ w = step
  <2>1. CASE step < NumWorkers
    <3>1. step' = step + 1 /\ pc' = pc
      BY <2>1 DEF SendEnd, NextWorker
    <3> QED
      BY <1>1, <3>1 DEF EndSent, Workers
  <2>2. CASE ~(step < NumWorkers)
    <3>1. pc' \in {"ready", "join"}
      BY <2>2, <1>1 DEF SendEnd, NextWorker
    <3>2. step = NumWorkers
      BY <2>2, <1>1, SizeAssumption DEF Workers
    <3> QED
      BY <1>1, <3>1, <3>2, SizeAssumption DEF EndSent, Workers
  <2> QED
    BY <2>1, <2>2
<1>3. ~EndSent(step) /\ wpc[step] \notin {"end", "stopped"}
  BY <1>1 DEF EndSent, Endings, Workers
<1>4. \A w \in Workers : w # step => inq'[w] = inq[w]
  BY DEF SendEnd, TypeOK
<1>5. inq'[step] = inq[step] \/ inq'[step] = Append(inq[step], EndMsg)
  BY <1>1 DEF SendEnd, TypeOK
<1>6. ASSUME NEW w \in Workers, NEW p \in 1..Len(inq'[w]), inq'[w][p] = EndMsg
      PROVE  p = Len(inq'[w]) /\ EndSent(w)'
  <2>1. CASE w # step
    BY <1>2, <1>4, <1>6, <2>1 DEF Endings
  <2>2. CASE w = step
    <3>1. \A q \in 1..Len(inq[step]) : inq[step][q] # EndMsg
      BY <1>1, <1>3 DEF Endings
    <3>2. inq[step] \in Seq(Messages) /\ Len(inq[step]) \in Nat
      BY <1>1 DEF TypeOK
    <3>3. inq'[step] = Append(inq[step], EndMsg)
      BY <1>5, <1>6, <2>2, <3>1
    <3>4. /\ Len(inq'[step]) = Len(inq[step]) + 1
          /\ \A q \in 1..Len(inq[step]) : inq'[step][q] = inq[step][q]
      BY <3>2, <3>3, AppendHas, MessageKinds
    <3>5. p \notin 1..Len(inq[step])
      BY <3>1, <3>4, <1>6, <2>2
    <3> QED
      BY <3>2, <3>4, <3>5, <1>2, <2>2
  <2> QED
    BY <2>1, <2>2
<1>7. ASSUME NEW w \in Workers, wpc'[w] \in {"end", "stopped"}
      PROVE  inq'[w] = <<>> /\ EndSent(w)' /\ held'[w] = NoCounts
  BY <1>1, <1>2, <1>3, <1>4, <1>7 DEF Endings
<1>8. \A w \in Workers : wpc'[w] = "stopped" => out'[w] = NoCounts
  BY <1>1 DEF Endings
<1> QED
  BY <1>6, <1>7, <1>8 DEF Endings

\* The caller's steps keep the order of calls and of endings.
LEMMA ControlCaller ==
  ASSUME TypeOK, TypeOK', Control, Call \/ CallerStep
  PROVE  Control'
<1> USE DEF Control, callerData, channels, threads, workerVars, aggVars, readVars
<1>0. TypeOK /\ CallOrder /\ Endings /\ Closings
  OBVIOUS
<1>1. UNCHANGED <<wpc, held, out, dq, apc, connected>>
  BY DEF Call, CallerStep, BeginInsert, InsertAfterClose, BeginFlush, Close, Finish, Drop, Leave,
         SendInput, SendFlush, CollectAck, SendDrain, FlushReturns, SendEnd, JoinWorker, TakeParent,
         CallPanics
<1>2. Closings'
  BY <1>0, <1>1, ClosingsFrame
<1>3. ASSUME NEW k \in Keys, BeginInsert(k) PROVE Control'
  <2>1. CallOrder'
    BY <1>3 DEF BeginInsert, Ready, CallOrder
  <2>2. Endings'
    BY <1>0, <1>1, <1>3, EndingsFrame DEF BeginInsert, EndSent
  <2> QED
    BY <1>2, <2>1, <2>2
<1>4. CASE InsertAfterClose \/ Drop
  <2>1. pc' \in {"misused", "dropped"} /\ Ready /\ UNCHANGED <<step, closed, inq>>
    BY <1>4 DEF InsertAfterClose, Drop, Leave
  <2>2. CallOrder'
    BY <2>1 DEF CallOrder
  <2>3. Endings'
    BY <1>0, <1>1, <2>1, EndingsFrame DEF EndSent, Ready
  <2> QED
    BY <1>2, <2>2, <2>3
<1>5. CASE BeginFlush
  <2>1. CallOrder'
    BY <1>5 DEF BeginFlush, CallOrder
  <2>2. Endings'
    BY <1>0, <1>1, <1>5, EndingsFrame DEF BeginFlush, EndSent
  <2> QED
    BY <1>2, <2>1, <2>2
<1>6. CASE Close
  <2>1. CallOrder'
    BY <1>6 DEF Close, CallOrder
  <2>2. Endings'
    BY <1>0, <1>1, <1>6, EndingsFrame DEF Close, EndSent, AlreadyClosed
  <2> QED
    BY <1>2, <2>1, <2>2
<1>7. CASE Finish
  <2>1. CallOrder'
    <3>1. closed' /\ step' = 1 /\ pc' \in {"join", "finishSend"}
      BY <1>7 DEF Finish
    <3>2. \A w \in Workers : ~(w < 1)
      BY DEF Workers
    <3> QED
      BY <3>1, <3>2 DEF CallOrder
  <2>2. \A w \in Workers : EndSent(w) => EndSent(w)'
    BY <1>7 DEF Finish, EndSent, Ready, AlreadyClosed
  <2>3. Endings'
    BY <1>0, <1>1, <1>7, <2>2, EndingsFrame DEF Finish
  <2> QED
    BY <1>2, <2>1, <2>3
<1>8. CASE SendInput
  <2>1. ~closed /\ pc' = "ready"
    BY <1>8 DEF SendInput, CallOrder
  <2>2. CallOrder'
    BY <2>1 DEF CallOrder
  <2>3. Route(arg) \in Workers /\ Len(accepted) + 1 \in Ids
    BY <1>8, RouteIsWorker, SizeAssumption DEF TypeOK, SendInput, Ids
  <2>4. Endings'
    BY <1>0, <1>1, <1>8, <2>1, <2>3, MessageKinds, EndingsAppend DEF SendInput
  <2> QED
    BY <1>2, <2>2, <2>4
<1>9. CASE SendFlush
  <2>1. ~closed /\ pc' \in {"flushSend", "flushAck"} /\ UNCHANGED closed
    BY <1>9, NextWorkerType DEF SendFlush, CallOrder
  <2>2. CallOrder'
    BY <2>1 DEF CallOrder
  <2>3. Endings'
    BY <1>0, <1>1, <1>9, <2>1, MessageKinds, EndingsAppend DEF SendFlush, TypeOK
  <2> QED
    BY <1>2, <2>2, <2>3
<1>10. CASE CollectAck
  <2>1. ~closed /\ pc' \in {"flushAck", "drainSend"} /\ UNCHANGED <<closed, inq>>
    BY <1>10, NextWorkerType DEF CollectAck, CallOrder
  <2>2. CallOrder'
    BY <2>1 DEF CallOrder
  <2>3. Endings'
    BY <1>0, <1>1, <2>1, EndingsFrame DEF EndSent
  <2> QED
    BY <1>2, <2>2, <2>3
<1>11. CASE SendDrain
  <2>1. CallOrder'
    BY <1>11 DEF SendDrain, CallOrder
  <2>2. Endings'
    BY <1>0, <1>1, <1>11, EndingsFrame DEF SendDrain, EndSent
  <2> QED
    BY <1>2, <2>1, <2>2
<1>12. CASE FlushReturns
  <2>1. CallOrder'
    BY <1>12 DEF FlushReturns, CallOrder
  <2>2. Endings'
    BY <1>0, <1>1, <1>12, EndingsFrame DEF FlushReturns, EndSent
  <2> QED
    BY <1>2, <2>1, <2>2
<1>13. CASE SendEnd
  <2>1. Endings'
    BY <1>0, <1>13, EndingsSendEnd
  <2>2. CallOrder'
    <3>1. closed /\ UNCHANGED closed
      BY <1>13 DEF SendEnd, CallOrder
    <3>2. pc' \in {"closeSend", "finishSend", "ready"} \/ (pc' = "join" /\ step' = 1)
      BY <1>13 DEF SendEnd, NextWorker
    <3>3. \A w \in Workers : ~(w < 1)
      BY DEF Workers
    <3> QED
      BY <3>1, <3>2, <3>3 DEF CallOrder
  <2> QED
    BY <1>2, <2>1, <2>2
<1>14. CASE JoinWorker
  <2>1. /\ pc = "join" /\ closed /\ wpc[step] = "stopped" /\ UNCHANGED <<closed, inq>>
        /\ \A w \in Workers : w < step => wpc[w] = "stopped"
    BY <1>14 DEF JoinWorker, Joined, CallOrder
  <2>2. \A w \in Workers : EndSent(w)'
    BY <1>14, <2>1 DEF JoinWorker, NextWorker, EndSent
  <2>3. Endings'
    BY <1>0, <1>1, <2>1, <2>2, EndingsFrame
  <2>4. CallOrder'
    <3>1. CASE step < NumWorkers
      <4>1. pc' = "join" /\ step' = step + 1
        BY <1>14, <2>1, <3>1 DEF JoinWorker, NextWorker
      <4>2. \A w \in Workers : w < step + 1 => w < step \/ w = step
        BY DEF Workers, TypeOK
      <4> QED
        BY <1>1, <2>1, <4>1, <4>2 DEF CallOrder
    <3>2. CASE ~(step < NumWorkers)
      <4>1. pc' = "joinAgg"
        BY <1>14, <2>1, <3>2 DEF JoinWorker, NextWorker
      <4>2. \A w \in Workers : w < step \/ w = step
        BY <3>2, SizeAssumption DEF Workers, TypeOK
      <4> QED
        BY <1>1, <2>1, <4>1, <4>2 DEF CallOrder
    <3> QED
      BY <3>1, <3>2
  <2> QED
    BY <1>2, <2>3, <2>4
<1>15. CASE TakeParent
  <2>1. pc = "joinAgg" /\ apc = "done" /\ pc' \in {"pinned", "done"} /\ UNCHANGED <<closed, step, inq>>
    BY <1>15 DEF TakeParent, AggJoined, Leave
  <2>2. CallOrder'
    BY <1>1, <2>1 DEF CallOrder
  <2>3. Endings'
    BY <1>0, <1>1, <2>1, EndingsFrame DEF EndSent
  <2> QED
    BY <1>2, <2>2, <2>3
<1>16. CASE CallPanics
  <2>1. pc \notin {"closeSend", "finishSend"} /\ pc' = "failed" /\ UNCHANGED <<closed, step, inq>>
    BY <1>16 DEF CallPanics, Leave
  <2>2. CallOrder'
    BY <2>1 DEF CallOrder
  <2>3. Endings'
    BY <1>0, <1>1, <2>1, EndingsFrame DEF EndSent
  <2> QED
    BY <1>2, <2>2, <2>3
<1> QED
  BY <1>3, <1>4, <1>5, <1>6, <1>7, <1>8, <1>9, <1>10, <1>11, <1>12, <1>13, <1>14, <1>15, <1>16
     DEF Call, CallerStep

\* A worker's steps: End is the last message it takes, and a worker that is
\* over stays over.
LEMMA ControlWorker ==
  ASSUME TypeOK, TypeOK', Control, NEW v \in Workers, WorkerStep(v) \/ WorkerPanic(v)
  PROVE  Control'
<1> USE DEF Control, callerData, channels, threads, workerVars, aggVars, readVars
<1>0. TypeOK /\ CallOrder /\ Endings /\ Closings
  OBVIOUS
<1>1. UNCHANGED <<pc, step, closed, apc, connected>>
  BY DEF WorkerStep, WorkerProcess, WorkerFlush, WorkerAck, WorkerReturns, WorkerSendFails,
         WorkerPanic, WorkerDies, WorkerSend
<1>2. ~WorkerGone(v)
  BY DEF WorkerStep, WorkerProcess, WorkerFlush, WorkerAck, WorkerReturns, WorkerSendFails,
         WorkerPanic, WorkerSend, WorkerGone, Receives
<1>3. \A w \in Workers : w # v => inq'[w] = inq[w] /\ wpc'[w] = wpc[w] /\ held'[w] = held[w]
                                  /\ out'[w] = out[w] /\ dq'[w] = dq[w]
  BY ZenonT(60) DEF TypeOK, WorkerStep, WorkerProcess, WorkerFlush, WorkerAck, WorkerReturns, WorkerSendFails,
         WorkerPanic, WorkerDies, WorkerSend
<1>4. CallOrder'
  <2>1. \A w \in Workers : wpc[w] = "stopped" => wpc'[w] = "stopped"
    BY <1>2, <1>3 DEF WorkerGone
  <2> QED
    BY <1>0, <1>1, <2>1 DEF CallOrder
<1>5. \A w \in Workers : EndSent(w)' <=> EndSent(w)
  BY <1>1 DEF EndSent
<1>6. Closings'
  <2>1. v \in connected
    BY <1>0, <1>2 DEF Closings
  <2>2. ASSUME NEW w \in Workers, w \notin connected PROVE WorkerGone(w)' /\ dq'[w] = <<>>
    BY <1>0, <1>3, <2>1, <2>2 DEF Closings, WorkerGone
  <2>3. apc # "panicked" \/ dq' = dq
    BY DEF WorkerStep, WorkerProcess, WorkerFlush, WorkerAck, WorkerReturns, WorkerSendFails,
           WorkerPanic, WorkerDies, WorkerSend, AggGone
  <2> QED
    BY <1>0, <1>1, <2>2, <2>3 DEF Closings
<1>7. SUFFICES /\ \A p \in 1..Len(inq'[v]) : inq'[v][p] = EndMsg => p = Len(inq'[v]) /\ EndSent(v)
               /\ wpc'[v] \in {"end", "stopped"} => inq'[v] = <<>> /\ EndSent(v) /\ held'[v] = NoCounts
               /\ wpc'[v] = "stopped" => out'[v] = NoCounts
  BY <1>0, <1>3, <1>4, <1>5, <1>6 DEF Endings
<1>8. ASSUME inq[v] # <<>>, inq' = [inq EXCEPT ![v] = Tail(@)]
      PROVE  /\ \A p \in 1..Len(inq'[v]) : inq'[v][p] = EndMsg => p = Len(inq'[v]) /\ EndSent(v)
             /\ Head(inq[v]) = EndMsg => inq'[v] = <<>> /\ EndSent(v)
  <2>1. inq[v] \in Seq(Messages) /\ inq'[v] = Tail(inq[v])
    BY <1>8 DEF TypeOK
  <2>2. /\ Len(inq[v]) \in Nat /\ 1 <= Len(inq[v]) /\ Head(inq[v]) = inq[v][1]
        /\ Len(inq'[v]) = Len(inq[v]) - 1
        /\ \A p \in 1..(Len(inq[v]) - 1) : inq'[v][p] = inq[v][p + 1]
    BY <1>8, <2>1, TailHas
  <2>3. ASSUME NEW p \in 1..Len(inq'[v]), inq'[v][p] = EndMsg
        PROVE  p = Len(inq'[v]) /\ EndSent(v)
    <3>1. p + 1 \in 1..Len(inq[v]) /\ inq[v][p + 1] = EndMsg
      BY <2>2, <2>3
    <3>2. p + 1 = Len(inq[v]) /\ EndSent(v)
      BY <1>0, <3>1 DEF Endings
    <3> QED
      BY <2>2, <3>2
  <2>4. ASSUME Head(inq[v]) = EndMsg PROVE inq'[v] = <<>> /\ EndSent(v)
    <3>1. 1 \in 1..Len(inq[v]) /\ inq[v][1] = EndMsg
      BY <2>2, <2>4
    <3>2. 1 = Len(inq[v]) /\ EndSent(v)
      BY <1>0, <3>1 DEF Endings
    <3>3. Len(inq'[v]) = 0
      BY <2>2, <3>2
    <3>4. inq'[v] \in Seq(Messages)
      BY <1>8 DEF TypeOK
    <3>5. inq'[v] = <<>>
      BY <3>3, <3>4
    <3> QED
      BY <3>2, <3>5
  <2> QED
    BY <2>3, <2>4
<1>9. CASE WorkerProcess(v)
  BY <1>8, <1>9 DEF WorkerProcess, Receives
<1>10. CASE WorkerFlush(v)
  <2>1. PICK t \in {"flush", "end"} : Receives(v, t) /\ wpc' = [wpc EXCEPT ![v] = t]
    BY <1>10 DEF WorkerFlush
  <2>2. held'[v] = NoCounts /\ wpc'[v] = t /\ inq[v] # <<>> /\ Head(inq[v]).type = t
    BY <1>10, <2>1 DEF WorkerFlush, Receives, TypeOK
  <2>3. t = "end" => Head(inq[v]) = EndMsg
    <3>1. inq[v] \in Seq(Messages)
      BY DEF TypeOK
    <3>2. Head(inq[v]) \in Messages
      BY <2>2, <3>1
    <3> QED
      BY <2>2, <3>2 DEF Messages, DataMsg, FlushMsg, EndMsg
  <2> QED
    BY <1>8, <1>10, <2>1, <2>2, <2>3 DEF WorkerFlush
<1>11. CASE WorkerAck(v)
  BY <1>0, <1>11 DEF WorkerAck, Endings, TypeOK
<1>12. CASE WorkerReturns(v)
  BY <1>0, <1>12 DEF WorkerReturns, Endings, TypeOK, AllSent
<1>13. CASE WorkerSendFails(v) \/ WorkerPanic(v)
  <2>1. wpc'[v] = "panicked" /\ inq'[v] = <<>>
    BY <1>13 DEF WorkerSendFails, WorkerPanic, WorkerDies, TypeOK
  <2> QED
    BY <2>1
<1>14. ASSUME NEW c \in Cells, WorkerSend(v, c)
       PROVE  /\ UNCHANGED <<inq, wpc, held>> /\ wpc[v] # "stopped"
  BY <1>14 DEF WorkerSend, WorkerGone
<1>15. CASE \E c \in Cells : WorkerSend(v, c)
  BY <1>0, <1>14, <1>15 DEF Endings
<1> QED
  BY <1>9, <1>10, <1>11, <1>12, <1>13, <1>15 DEF WorkerStep

\* The aggregator closes a receiver only when nothing is left in it and
\* nothing can come any more.
LEMMA ControlAggregator ==
  ASSUME TypeOK, TypeOK', Control, AggStep \/ AggPanic
  PROVE  Control'
<1> USE DEF Control, callerData, channels, threads, workerVars, aggVars, readVars
<1>0. TypeOK /\ CallOrder /\ Endings /\ Closings
  OBVIOUS
<1>1. UNCHANGED <<pc, step, closed, inq, wpc, held, out>> /\ ~AggGone
  BY DEF AggStep, AggApply, AggPass, AggAdjust, AggEndSweep, AggPanic, AggGone
<1>2. Endings'
  BY <1>0, <1>1, EndingsFrame DEF EndSent
<1>3. CallOrder'
  BY <1>0, <1>1 DEF CallOrder, AggGone
<1>4. CASE AggApply
  <2>1. apc' \in {"poll", "adjust"} /\ connected' = connected /\ sweep \in connected
        /\ \A w \in Workers : w # sweep => dq'[w] = dq[w]
    BY <1>4, NextReceiverType DEF AggApply, TypeOK
  <2> QED
    BY <1>0, <1>1, <1>2, <1>3, <2>1 DEF Closings, WorkerGone
<1>5. CASE AggPass
  <2>1. /\ apc' \in {"poll", "adjust"} /\ dq' = dq
        /\ connected' = connected \/ (connected' = connected \ {sweep} /\ WorkerGone(sweep) /\ dq[sweep] = <<>>)
    BY <1>5, NextReceiverType DEF AggPass, Remaining
  <2> QED
    BY <1>0, <1>1, <1>2, <1>3, <2>1 DEF Closings, WorkerGone
<1>6. CASE AggAdjust \/ AggEndSweep
  <2>1. UNCHANGED <<dq, connected>> /\ apc' # "panicked" /\ (apc' = "done" => connected = {})
    BY <1>6 DEF AggAdjust, AggEndSweep
  <2> QED
    BY <1>0, <1>1, <1>2, <1>3, <2>1 DEF Closings, WorkerGone
<1>7. CASE AggPanic
  <2>1. UNCHANGED connected /\ apc' = "panicked" /\ \A w \in Workers : dq'[w] = <<>>
    BY <1>7 DEF AggPanic
  <2> QED
    BY <1>0, <1>1, <1>2, <1>3, <2>1 DEF Closings, WorkerGone
<1> QED
  BY <1>4, <1>5, <1>6, <1>7 DEF AggStep

\* A step that touches neither calls nor channels nor threads.
LEMMA ControlFrame ==
  ASSUME TypeOK, Control, UNCHANGED <<pc, step, closed, inq, wpc, held, out, dq, apc, connected>>
  PROVE  Control'
<1>1. CallOrder'
  BY DEF Control, CallOrder
<1>2. Endings'
  BY EndingsFrame DEF Control, EndSent
<1>3. Closings'
  BY ClosingsFrame DEF Control
<1> QED
  BY <1>1, <1>2, <1>3 DEF Control

(* The flow of increments *)

\* An accepted input has a key, an owner and one of the bounded numbers.
LEMMA AcceptedType ==
  ASSUME TypeOK, NEW i \in DOMAIN accepted
  PROVE  i \in Ids /\ Owner(i) \in Workers /\ accepted[i].key \in Keys
<1>1. accepted \in Seq([key : Keys, worker : Workers]) /\ Len(accepted) <= MaxInputs
  BY SizeAssumption DEF TypeOK
<1>2. accepted[i] \in [key : Keys, worker : Workers] /\ i \in 1..Len(accepted) /\ Len(accepted) \in Nat
  BY <1>1, ElementOf
<1> QED
  BY <1>1, <1>2, SizeAssumption DEF Ids, Owner

Flow == InputQueues /\ Placed /\ StageOrder /\ DeltaOrder /\ Accounted

\* A step that moves no increment keeps the flow in order, provided it does
\* not bring a thread back to life.
LEMMA FlowFrame ==
  ASSUME Flow, UNCHANGED <<accepted, inq, held, out, dq, parent>>,
         \A w \in Workers : Intact(w)' => Intact(w), TypeOK
  PROVE  Flow'
<1>1. /\ \A w, i : InInput(w, i)' <=> InInput(w, i)
      /\ \A w, c, i : InDelta(w, c, i)' <=> InDelta(w, c, i)
      /\ \A w, c, i : InParent(w, c, i)' <=> InParent(w, c, i)
      /\ \A i, c : Counts(i, c)' <=> Counts(i, c)
      /\ \A i : Owner(i)' = Owner(i)
  BY DEF InInput, InDelta, InParent, Counts, Owner
<1>2. \A w, c, i : Pending(w, c, i)' <=> Pending(w, c, i)
  BY <1>1 DEF Pending
<1>3. \A w, c, i : Delivered(w, c, i)' <=> Delivered(w, c, i)
  BY <1>1 DEF Delivered
<1>4. InputQueues'
  BY <1>1 DEF Flow, InputQueues
<1>5. Placed'
  BY <1>1 DEF Flow, Placed
<1>6. StageOrder'
  BY <1>1, <1>2 DEF Flow, StageOrder
<1>7. DeltaOrder'
  BY DEF Flow, DeltaOrder
<1>9. \A w \in Workers : \A c, i : Lost(w, c, i) => Lost(w, c, i)'
  BY <1>3 DEF Lost
<1>10. Accounted'
  <2> SUFFICES ASSUME NEW w \in Workers, NEW c \in Cells, NEW i \in Ids, Counts(i, c), Owner(i) = w
               PROVE  Pending(w, c, i)' \/ i \in parent'[c] \/ Lost(w, c, i)'
    BY <1>1 DEF Accounted
  <2>1. Pending(w, c, i) \/ i \in parent[c] \/ Lost(w, c, i)
    BY DEF Flow, Accounted
  <2> QED
    BY <2>1, <1>2, <1>9
<1> QED
  BY <1>4, <1>5, <1>6, <1>7, <1>10 DEF Flow

\* The order of the input queues, one queue at a time.
InputQueue(w) == \A p \in 1..Len(inq[w]) : inq[w][p].type = "data" =>
  /\ inq[w][p].id \in DOMAIN accepted /\ Owner(inq[w][p].id) = w
  /\ \A q \in 1..Len(inq[w]) : p < q /\ inq[w][q].type = "data" => inq[w][p].id < inq[w][q].id

\* A step that leaves accepted, the counters, the deltas and the parent alone
\* and moves no input keeps the flow in order.
LEMMA FlowInputFrame ==
  ASSUME Flow, TypeOK, UNCHANGED <<accepted, held, out, dq, parent>>,
         \A w \in Workers : Intact(w)' => Intact(w),
         \A w \in Workers : InputQueue(w)',
         \A w \in Workers, i \in Ids : InInput(w, i)' => InInput(w, i),
         \A w \in Workers, i \in Ids : InInput(w, i) => InInput(w, i)' \/ ~Intact(w)'
  PROVE  Flow'
<1>1. /\ \A w, c, i : InDelta(w, c, i)' <=> InDelta(w, c, i)
      /\ \A w, c, i : InParent(w, c, i)' <=> InParent(w, c, i)
      /\ \A i, c : Counts(i, c)' <=> Counts(i, c)
      /\ \A i : Owner(i)' = Owner(i)
  BY DEF InDelta, InParent, Counts, Owner
<1>2. \A w \in Workers, c \in Cells, i \in Ids : Pending(w, c, i)' => Pending(w, c, i)
  BY <1>1 DEF Pending
<1>3. \A w, c, i : Delivered(w, c, i)' <=> Delivered(w, c, i)
  BY <1>1 DEF Delivered
<1>4. InputQueues'
  BY DEF InputQueues, InputQueue
<1>5. Placed'
  BY <1>1 DEF Flow, Placed
<1>6. StageOrder'
  BY <1>1, <1>2 DEF Flow, StageOrder
<1>7. DeltaOrder'
  BY DEF Flow, DeltaOrder
<1>9. \A w \in Workers : \A c, i : Lost(w, c, i) => Lost(w, c, i)'
  BY <1>3 DEF Lost
<1>10. Accounted'
  <2> SUFFICES ASSUME NEW w \in Workers, NEW c \in Cells, NEW i \in Ids, Counts(i, c), Owner(i) = w
               PROVE  Pending(w, c, i)' \/ i \in parent'[c] \/ Lost(w, c, i)'
    BY <1>1 DEF Accounted
  <2>1. Pending(w, c, i) \/ i \in parent[c] \/ Lost(w, c, i)
    BY DEF Flow, Accounted
  <2>2. CASE InInput(w, i) /\ ~Intact(w)'
    <3>1. \A j \in Ids : Delivered(w, c, j) => j < i
      BY <2>2 DEF Flow, StageOrder, Delivered, Pending
    <3> QED
      BY <2>2, <3>1, <1>3 DEF Lost
  <2>3. CASE InInput(w, i)'
    BY <2>3 DEF Pending
  <2>4. CASE ~InInput(w, i)
    BY <2>1, <2>4, <1>1, <1>9 DEF Pending
  <2> QED
    BY <2>2, <2>3, <2>4
<1> QED
  BY <1>4, <1>5, <1>6, <1>7, <1>10 DEF Flow

\* Flush and End are no inputs.
LEMMA FlowControlSent ==
  ASSUME Flow, TypeOK, NEW v \in Workers, NEW m \in {FlushMsg, EndMsg},
         UNCHANGED <<accepted, held, out, dq, parent, wpc, apc>>,
         inq' = [inq EXCEPT ![v] = Append(@, m)]
  PROVE  Flow'
<1>1. /\ inq \in [Workers -> Seq(Messages)] /\ inq[v] \in Seq(Messages)
      /\ m \in Messages /\ m.type # "data"
  <2>1. m \in Messages
    BY DEF Messages
  <2>2. FlushMsg.type = "flush" /\ EndMsg.type = "end"
    BY DEF FlushMsg, EndMsg
  <2>3. inq \in [Workers -> Seq(Messages)]
    BY DEF TypeOK
  <2> QED
    BY <2>1, <2>2, <2>3
<1>2. /\ inq'[v] = Append(inq[v], m)
      /\ \A w \in Workers : w # v => inq'[w] = inq[w]
  BY <1>1
<1>3. /\ Len(inq[v]) \in Nat /\ Len(inq'[v]) = Len(inq[v]) + 1 /\ inq'[v][Len(inq[v]) + 1] = m
      /\ \A p \in 1..Len(inq[v]) : inq'[v][p] = inq[v][p]
  BY <1>1, <1>2, AppendHas, ElementOf
<1>4. \A w \in Workers : InputQueue(w)'
  <2> SUFFICES ASSUME NEW w \in Workers PROVE InputQueue(w)'
    OBVIOUS
  <2>1. InputQueue(w)
    BY DEF Flow, InputQueues, InputQueue
  <2>2. CASE w # v
    BY <2>1, <2>2, <1>2 DEF InputQueue, Owner
  <2>3. CASE w = v
    BY <2>1, <2>3, <1>1, <1>3 DEF InputQueue, Owner
  <2> QED
    BY <2>2, <2>3
<1>5. \A w \in Workers, i \in Ids : InInput(w, i)' <=> InInput(w, i)
  <2> SUFFICES ASSUME NEW w \in Workers, NEW i \in Ids PROVE InInput(w, i)' <=> InInput(w, i)
    OBVIOUS
  <2>1. DataMsg(i) # m
    BY <1>1 DEF DataMsg
  <2>2. CASE w # v
    BY <2>2, <1>2 DEF InInput
  <2>3. CASE w = v
    BY <2>1, <2>3, <1>3 DEF InInput
  <2> QED
    BY <2>2, <2>3
<1>6. \A w \in Workers : Intact(w)' => Intact(w)
  BY DEF Intact
<1> QED
  BY <1>4, <1>5, <1>6, FlowInputFrame

\* A worker that dies drops its queue; what was in it came after all else.
LEMMA FlowDies ==
  ASSUME Flow, TypeOK, NEW v \in Workers, WorkerDies(v)
  PROVE  Flow'
<1>1. /\ inq'[v] = <<>> /\ wpc'[v] = "panicked"
      /\ \A w \in Workers : w # v => inq'[w] = inq[w] /\ wpc'[w] = wpc[w]
      /\ UNCHANGED <<accepted, held, out, dq, parent, apc>>
  BY DEF WorkerDies, TypeOK, callerData, aggVars
<1>2. \A w \in Workers : InputQueue(w)'
  <2> SUFFICES ASSUME NEW w \in Workers PROVE InputQueue(w)'
    OBVIOUS
  <2>1. InputQueue(w)
    BY DEF Flow, InputQueues, InputQueue
  <2>2. CASE w # v
    BY <2>1, <2>2, <1>1 DEF InputQueue, Owner
  <2>3. CASE w = v
    BY <2>3, <1>1 DEF InputQueue
  <2> QED
    BY <2>2, <2>3
<1>3. \A w \in Workers : Intact(w)' => Intact(w)
  BY <1>1 DEF Intact
<1>4. \A w \in Workers, i \in Ids : InInput(w, i)' => InInput(w, i)
  BY <1>1 DEF InInput
<1>5. \A w \in Workers, i \in Ids : InInput(w, i) => InInput(w, i)' \/ ~Intact(w)'
  BY <1>1 DEF InInput, Intact
<1> QED
  BY <1>1, <1>2, <1>3, <1>4, <1>5, FlowInputFrame

\* Everything in the pipeline is an accepted input.
LEMMA InFlightAccepted ==
  ASSUME Flow, TypeOK, NEW w \in Workers, NEW c \in Cells, NEW i \in Ids
  PROVE  /\ InInput(w, i) => i \in DOMAIN accepted /\ Owner(i) = w
         /\ i \in held[w][c] \/ i \in out[w][c] \/ InDelta(w, c, i) => i \in DOMAIN accepted
         /\ i \in parent[c] => i \in DOMAIN accepted
<1>1. InInput(w, i) => i \in DOMAIN accepted /\ Owner(i) = w
  BY DEF Flow, InputQueues, InInput, DataMsg
<1> QED
  BY <1>1 DEF Flow, Placed, Counts

\* insert() puts the newest input last in its worker's queue.
LEMMA FlowSendInput ==
  ASSUME Flow, TypeOK, TypeOK', SendInput
  PROVE  Flow'
<1>a. PICK v \in Workers : v = Route(arg)
  BY RouteIsWorker DEF TypeOK
<1>b. PICK n \in Nat : n = Len(accepted) + 1
  BY DEF TypeOK
<1>1. /\ accepted' = Append(accepted, [key |-> arg, worker |-> v])
      /\ inq' = [inq EXCEPT ![v] = Append(@, DataMsg(n))]
      /\ UNCHANGED <<held, out, dq, parent, wpc, apc>>
  BY <1>a, <1>b DEF SendInput, threads, workerVars, aggVars
<1>2. /\ Len(accepted) \in Nat /\ DOMAIN accepted = 1..Len(accepted) /\ DOMAIN accepted' = 1..n
      /\ \A i \in DOMAIN accepted : accepted'[i] = accepted[i]
      /\ accepted'[n] = [key |-> arg, worker |-> v]
  <2>1. accepted \in Seq([key : Keys, worker : Workers]) /\ [key |-> arg, worker |-> v] \in [key : Keys, worker : Workers]
    BY <1>1 DEF TypeOK
  <2>2. accepted' \in Seq([key : Keys, worker : Workers])
    BY DEF TypeOK
  <2> QED
    BY <1>1, <1>b, <2>1, <2>2, AppendHas, ElementOf
<1>3. n \in Ids
  BY <1>b, SizeAssumption DEF Ids, TypeOK, SendInput
<1>4. /\ inq'[v] = Append(inq[v], DataMsg(n)) /\ inq[v] \in Seq(Messages) /\ DataMsg(n) \in Messages
      /\ \A w \in Workers : w # v => inq'[w] = inq[w]
  BY <1>1, <1>3 DEF TypeOK, Messages
<1>5. /\ Len(inq[v]) \in Nat /\ Len(inq'[v]) = Len(inq[v]) + 1 /\ inq'[v][Len(inq[v]) + 1] = DataMsg(n)
      /\ \A p \in 1..Len(inq[v]) : inq'[v][p] = inq[v][p]
  BY <1>4, AppendHas, ElementOf
<1>6. \A i \in DOMAIN accepted : i \in DOMAIN accepted' /\ Owner(i)' = Owner(i) /\ i < n
  BY <1>2, <1>b DEF Owner
<1>7. \A c \in Cells, i \in Ids : Counts(i, c)' <=> Counts(i, c) \/ (i = n /\ Counts(n, c)')
  <2> SUFFICES ASSUME NEW c \in Cells, NEW i \in Ids
               PROVE  Counts(i, c)' <=> Counts(i, c) \/ (i = n /\ Counts(n, c)')
    OBVIOUS
  <2>1. n \notin DOMAIN accepted /\ (i \in DOMAIN accepted' <=> i \in DOMAIN accepted \/ i = n)
    BY <1>b, <1>2 DEF Ids
  <2> QED
    BY <2>1, <1>2 DEF Counts
<1>8. \A w \in Workers, i \in Ids : InInput(w, i)' <=> InInput(w, i) \/ (w = v /\ i = n)
  <2> SUFFICES ASSUME NEW w \in Workers, NEW i \in Ids
               PROVE  InInput(w, i)' <=> InInput(w, i) \/ (w = v /\ i = n)
    OBVIOUS
  <2>1. DataMsg(i) = DataMsg(n) <=> i = n
    BY DEF DataMsg
  <2>2. CASE w # v
    BY <2>2, <1>4 DEF InInput
  <2>3. CASE w = v
    BY <2>1, <2>3, <1>5, SMTT(60) DEF InInput
  <2> QED
    BY <2>2, <2>3
<1>9. /\ \A w, c, i : InDelta(w, c, i)' <=> InDelta(w, c, i)
      /\ \A w \in Workers, c \in Cells, i \in Ids : InParent(w, c, i)' <=> InParent(w, c, i)
      /\ \A w : Intact(w)' <=> Intact(w)
  BY <1>1, <1>6, InFlightAccepted DEF InDelta, InParent, Intact
<1>10. InputQueues'
  <2> SUFFICES ASSUME NEW w \in Workers PROVE InputQueue(w)'
    BY DEF InputQueues, InputQueue
  <2>1. InputQueue(w)
    BY DEF Flow, InputQueues, InputQueue
  <2>2. CASE w # v
    BY <2>1, <2>2, <1>4, <1>6 DEF InputQueue
  <2>3. CASE w = v
    <3>1. accepted'[n].worker = v /\ n \in DOMAIN accepted' /\ DataMsg(n).id = n
      BY <1>2, <1>b DEF DataMsg
    <3>2. \A p \in 1..Len(inq'[v]) : p \in 1..Len(inq[v]) \/ p = Len(inq[v]) + 1
      BY <1>5
    <3>3. \A p \in 1..Len(inq[v]) : inq[v][p].type = "data" =>
            /\ inq[v][p].id \in DOMAIN accepted' /\ accepted'[inq[v][p].id].worker = v /\ inq[v][p].id < n
      BY <2>1, <2>3, <1>5, <1>6 DEF InputQueue, Owner
    <3>4. SUFFICES ASSUME NEW p \in 1..Len(inq'[v]), inq'[v][p].type = "data"
                   PROVE  /\ inq'[v][p].id \in DOMAIN accepted' /\ accepted'[inq'[v][p].id].worker = v
                          /\ \A q \in 1..Len(inq'[v]) : p < q /\ inq'[v][q].type = "data"
                                => inq'[v][p].id < inq'[v][q].id
      BY <2>3 DEF InputQueue, Owner
    <3>5. CASE p = Len(inq[v]) + 1
      <4>1. \A q \in 1..Len(inq'[v]) : ~(p < q)
        BY <3>5, <1>5
      <4>2. inq'[v][p].id = n
        BY <3>1, <3>5, <1>5
      <4> QED
        BY <3>1, <4>1, <4>2
    <3>6. CASE p \in 1..Len(inq[v])
      <4>1. inq'[v][p] = inq[v][p]
        BY <3>6, <1>5
      <4>2. ASSUME NEW q \in 1..Len(inq'[v]), p < q, inq'[v][q].type = "data"
            PROVE  inq'[v][p].id < inq'[v][q].id
        <5>1. CASE q \in 1..Len(inq[v])
          BY <2>1, <2>3, <3>4, <3>6, <4>1, <4>2, <5>1, <1>5 DEF InputQueue
        <5>2. CASE q = Len(inq[v]) + 1
          BY <3>1, <3>3, <3>4, <3>6, <4>1, <5>2, <1>5
        <5> QED
          BY <5>1, <5>2, <3>2
      <4> QED
        BY <3>3, <3>4, <3>6, <4>1, <4>2
    <3> QED
      BY <3>2, <3>5, <3>6
  <2> QED
    BY <2>2, <2>3
<1>11. Placed'
  <2> SUFFICES ASSUME NEW w \in Workers, NEW c \in Cells, NEW i \in Ids
               PROVE  /\ i \in held[w][c] \cup out[w][c] \/ InDelta(w, c, i) => Counts(i, c)' /\ Owner(i)' = w
                      /\ i \in parent[c] => Counts(i, c)'
    <3>1. /\ held \in [Workers -> [Cells -> SUBSET Ids]] /\ out \in [Workers -> [Cells -> SUBSET Ids]]
          /\ parent \in [Cells -> SUBSET Ids]
      BY DEF TypeOK
    <3> QED
      BY <3>1, <1>1, <1>9 DEF Placed
  <2> QED
    BY <1>6, <1>7, InFlightAccepted DEF Flow, Placed
<1>12. StageOrder'
  <2> SUFFICES ASSUME NEW w \in Workers, NEW c \in Cells, NEW i \in Ids, NEW j \in Ids
      PROVE
        /\ i \in held[w][c] /\ InInput(w, j)' => i < j
        /\ i \in out[w][c] /\ (j \in held[w][c] \/ InInput(w, j)') => i < j
        /\ InDelta(w, c, i) /\ (j \in out[w][c] \/ j \in held[w][c] \/ InInput(w, j)') => i < j
        /\ InParent(w, c, i) /\ (InDelta(w, c, j) \/ j \in out[w][c] \/ j \in held[w][c] \/ InInput(w, j)') => i < j
    BY <1>1, <1>9 DEF StageOrder, Pending
  <2> QED
    BY <1>6, <1>8, InFlightAccepted DEF Flow, StageOrder, Pending, InParent
<1>13. DeltaOrder'
  BY <1>1 DEF Flow, DeltaOrder
<1>14. Accounted'
  <2> SUFFICES ASSUME NEW w \in Workers, NEW c \in Cells, NEW i \in Ids, Counts(i, c)', Owner(i)' = w
               PROVE  Pending(w, c, i)' \/ i \in parent'[c] \/ Lost(w, c, i)'
    BY DEF Accounted
  <2>1. CASE i = n
    <3>1. w = v
      BY <2>1, <1>2 DEF Owner
    <3> QED
      BY <2>1, <3>1, <1>8 DEF Pending
  <2>2. CASE i # n
    <3>1. Counts(i, c) /\ Owner(i) = w
      BY <2>2, <1>6, <1>7 DEF Counts
    <3>2. Pending(w, c, i) \/ i \in parent[c] \/ Lost(w, c, i)
      BY <3>1 DEF Flow, Accounted
    <3>3. Pending(w, c, i) => Pending(w, c, i)'
      BY <1>1, <1>8, <1>9 DEF Pending
    <3>4. Lost(w, c, i) => Lost(w, c, i)'
      BY <1>9 DEF Lost, Delivered
    <3> QED
      BY <3>2, <3>3, <3>4, <1>1
  <2> QED
    BY <2>1, <2>2
<1> QED
  BY <1>10, <1>11, <1>12, <1>13, <1>14 DEF Flow

\* A worker moves what it took from its queue, and what it held, into its
\* counters or into the deltas of the message in hand.
LEMMA FlowPromote ==
  ASSUME Flow, TypeOK, TypeOK', NEW v \in Workers,
         UNCHANGED <<accepted, dq, parent>>, out[v] = NoCounts,
         \A w \in Workers : w # v => inq'[w] = inq[w] /\ held'[w] = held[w] /\ out'[w] = out[w],
         \A w \in Workers : Intact(w)' <=> Intact(w),
         InputQueue(v)',
         \A i \in Ids : InInput(v, i)' => InInput(v, i),
         \A i, j \in Ids : InInput(v, i) /\ ~InInput(v, i)' /\ InInput(v, j)' => i < j,
         \A c \in Cells : held'[v][c] = {} \/ out'[v][c] = {},
         \A c \in Cells, i \in Ids : i \in held'[v][c] \/ i \in out'[v][c] <=>
           i \in held[v][c] \/ (InInput(v, i) /\ ~InInput(v, i)' /\ Counts(i, c))
  PROVE  Flow'
<1>1. /\ \A w, c, i : InDelta(w, c, i)' <=> InDelta(w, c, i)
      /\ \A w, c, i : InParent(w, c, i)' <=> InParent(w, c, i)
      /\ \A i, c : Counts(i, c)' <=> Counts(i, c)
      /\ \A i : Owner(i)' = Owner(i)
  BY DEF InDelta, InParent, Counts, Owner
<1>2. \A w, c, i : Delivered(w, c, i)' <=> Delivered(w, c, i)
  BY <1>1 DEF Delivered
<1>3. \A w \in Workers, i \in Ids : w # v => (InInput(w, i)' <=> InInput(w, i))
  BY DEF InInput
<1>4. \A c \in Cells, i \in Ids : i \notin out[v][c]
  BY DEF NoCounts
<1>5. \A w \in Workers, c \in Cells, i \in Ids : Pending(w, c, i)' => Pending(w, c, i)
  <2> SUFFICES ASSUME NEW w \in Workers, NEW c \in Cells, NEW i \in Ids, Pending(w, c, i)'
               PROVE  Pending(w, c, i)
    OBVIOUS
  <2>1. CASE w # v
    BY <2>1, <1>1, <1>3 DEF Pending
  <2>2. CASE w = v
    BY <2>2, <1>1 DEF Pending
  <2> QED
    BY <2>1, <2>2
<1>6. /\ held' \in [Workers -> [Cells -> SUBSET Ids]] /\ out' \in [Workers -> [Cells -> SUBSET Ids]]
      /\ parent \in [Cells -> SUBSET Ids]
  BY DEF TypeOK
<1>7. \A i \in Ids : InInput(v, i) => i \in DOMAIN accepted /\ Owner(i) = v
  BY DEF Flow, InputQueues, InInput, DataMsg
<1>8. InputQueues'
  <2> SUFFICES ASSUME NEW w \in Workers PROVE InputQueue(w)'
    BY DEF InputQueues, InputQueue
  <2>1. InputQueue(w)
    BY DEF Flow, InputQueues, InputQueue
  <2>2. CASE w # v
    BY <2>1, <2>2 DEF InputQueue, Owner
  <2> QED
    BY <2>2
<1>9. Placed'
  <2> SUFFICES ASSUME NEW w \in Workers, NEW c \in Cells, NEW i \in Ids
      PROVE  /\ i \in held'[w][c] \/ i \in out'[w][c] \/ InDelta(w, c, i) => Counts(i, c) /\ Owner(i) = w
             /\ i \in parent[c] => Counts(i, c)
    BY <1>1, <1>6 DEF Placed
  <2>1. CASE w # v
    BY <2>1 DEF Flow, Placed
  <2>2. CASE w = v
    BY <2>2, <1>7 DEF Flow, Placed
  <2> QED
    BY <2>1, <2>2
<1>10. StageOrder'
  <2> SUFFICES ASSUME NEW w \in Workers, NEW c \in Cells, NEW i \in Ids, NEW j \in Ids
      PROVE
        /\ i \in held'[w][c] /\ InInput(w, j)' => i < j
        /\ i \in out'[w][c] /\ (j \in held'[w][c] \/ InInput(w, j)') => i < j
        /\ InDelta(w, c, i) /\ (j \in out'[w][c] \/ j \in held'[w][c] \/ InInput(w, j)') => i < j
        /\ InParent(w, c, i) /\ Pending(w, c, j)' => i < j
    BY <1>1 DEF StageOrder
  <2>1. InParent(w, c, i) /\ Pending(w, c, j)' => i < j
    BY <1>5 DEF Flow, StageOrder
  <2>2. CASE w # v
    BY <2>1, <2>2, <1>3 DEF Flow, StageOrder
  <2>3. CASE w = v
    <3>1. i \in held[v][c] /\ InInput(v, j)' => i < j
      BY DEF Flow, StageOrder
    <3>2. i \in held'[v][c] /\ InInput(v, j)' => i < j
      BY <3>1
    <3>3. i \in out'[v][c] /\ (j \in held'[v][c] \/ InInput(v, j)') => i < j
      BY <3>1
    <3>4. InDelta(v, c, i) /\ (j \in out'[v][c] \/ j \in held'[v][c] \/ InInput(v, j)') => i < j
      BY DEF Flow, StageOrder
    <3> QED
      BY <2>1, <2>3, <3>2, <3>3, <3>4
  <2> QED
    BY <2>2, <2>3
<1>11. DeltaOrder'
  BY DEF Flow, DeltaOrder
<1>12. Accounted'
  <2> SUFFICES ASSUME NEW w \in Workers, NEW c \in Cells, NEW i \in Ids, Counts(i, c), Owner(i) = w
               PROVE  Pending(w, c, i)' \/ i \in parent'[c] \/ Lost(w, c, i)'
    BY <1>1 DEF Accounted
  <2>1. Pending(w, c, i) \/ i \in parent[c] \/ Lost(w, c, i)
    BY DEF Flow, Accounted
  <2>2. Lost(w, c, i) => Lost(w, c, i)'
    BY <1>2 DEF Lost
  <2>3. CASE w # v
    BY <2>1, <2>2, <2>3, <1>1, <1>3 DEF Pending
  <2>4. CASE w = v
    <3>1. Pending(v, c, i) => Pending(v, c, i)'
      BY <1>1, <1>4 DEF Pending
    <3> QED
      BY <2>1, <2>2, <2>4, <3>1
  <2> QED
    BY <2>3, <2>4
<1> QED
  BY <1>8, <1>9, <1>10, <1>11, <1>12 DEF Flow

\* Taking the head of an input queue leaves the later inputs, in order.
LEMMA HeadTaken ==
  ASSUME Flow, TypeOK, NEW v \in Workers, UNCHANGED accepted, inq[v] # <<>>,
         inq' = [inq EXCEPT ![v] = Tail(@)]
  PROVE  /\ \A w \in Workers : w # v => inq'[w] = inq[w]
         /\ InputQueue(v)'
         /\ \A i \in Ids : InInput(v, i) <=> InInput(v, i)' \/ Head(inq[v]) = DataMsg(i)
         /\ \A i, j \in Ids : Head(inq[v]) = DataMsg(i) /\ InInput(v, j)' => i < j
<1>1. inq[v] \in Seq(Messages) /\ inq'[v] = Tail(inq[v])
  BY DEF TypeOK
<1>2. /\ Len(inq[v]) \in Nat /\ 1 <= Len(inq[v]) /\ Head(inq[v]) = inq[v][1]
      /\ Len(inq'[v]) = Len(inq[v]) - 1
      /\ \A p \in 1..(Len(inq[v]) - 1) : inq'[v][p] = inq[v][p + 1]
  BY <1>1, TailHas
<1>3. \A w \in Workers : w # v => inq'[w] = inq[w]
  BY DEF TypeOK
<1>4. InputQueue(v)
  BY DEF Flow, InputQueues, InputQueue
<1>5. \A p \in 1..Len(inq'[v]) : p + 1 \in 1..Len(inq[v]) /\ inq'[v][p] = inq[v][p + 1]
  BY <1>2
<1>6. InputQueue(v)'
  <2> SUFFICES ASSUME NEW p \in 1..Len(inq'[v]), inq'[v][p].type = "data"
      PROVE  /\ inq'[v][p].id \in DOMAIN accepted /\ accepted[inq'[v][p].id].worker = v
             /\ \A q \in 1..Len(inq'[v]) : p < q /\ inq'[v][q].type = "data"
                  => inq'[v][p].id < inq'[v][q].id
    BY DEF InputQueue, Owner
  <2>1. \A q \in 1..Len(inq'[v]) : p < q => p + 1 < q + 1
    BY <1>2
  <2> QED
    BY <1>4, <1>5, <2>1 DEF InputQueue, Owner
<1>7. ASSUME NEW i \in Ids
      PROVE  InInput(v, i) <=> InInput(v, i)' \/ Head(inq[v]) = DataMsg(i)
  <2>1. InInput(v, i)' => InInput(v, i)
    BY <1>5 DEF InInput
  <2>2. Head(inq[v]) = DataMsg(i) => InInput(v, i)
    BY <1>2 DEF InInput
  <2>3. ASSUME NEW p \in 1..Len(inq[v]), inq[v][p] = DataMsg(i), p # 1
        PROVE  InInput(v, i)'
    <3>1. p - 1 \in 1..Len(inq'[v]) /\ inq'[v][p - 1] = DataMsg(i)
      BY <1>2, <2>3
    <3> QED
      BY <3>1 DEF InInput
  <2> QED
    BY <1>2, <2>1, <2>2, <2>3 DEF InInput
<1>8. ASSUME NEW i \in Ids, NEW j \in Ids, Head(inq[v]) = DataMsg(i), InInput(v, j)'
      PROVE  i < j
  <2>1. PICK p \in 1..Len(inq'[v]) : inq'[v][p] = DataMsg(j)
    BY <1>8 DEF InInput
  <2>2. p + 1 \in 1..Len(inq[v]) /\ inq[v][p + 1] = DataMsg(j) /\ 1 \in 1..Len(inq[v]) /\ 1 < p + 1
    BY <1>2, <1>5, <2>1
  <2>3. inq[v][1] = DataMsg(i)
    BY <1>2, <1>8
  <2>4. DataMsg(i).type = "data" /\ DataMsg(i).id = i /\ DataMsg(j).type = "data" /\ DataMsg(j).id = j
    BY DEF DataMsg
  <2> QED
    BY <1>4, <2>2, <2>3, <2>4 DEF InputQueue
<1> QED
  BY <1>3, <1>6, <1>7, <1>8

\* The worker counts the input at the head of its queue and promotes.
LEMMA FlowProcess ==
  ASSUME Flow, TypeOK, TypeOK', NEW v \in Workers, WorkerProcess(v)
  PROVE  Flow'
<1>1. PICK i0 : i0 = Head(inq[v]).id
  OBVIOUS
<1>2. PICK full : full = Promoted(Counted(v, i0), i0)
  OBVIOUS
<1>3. /\ inq[v] # <<>> /\ Head(inq[v]).type = "data" /\ out[v] = NoCounts
      /\ held' = [held EXCEPT ![v] = Without(Counted(v, i0), full)]
      /\ out'  = [out  EXCEPT ![v] = Only(Counted(v, i0), full)]
      /\ inq'  = [inq EXCEPT ![v] = Tail(@)]
      /\ UNCHANGED <<accepted, dq, parent, wpc, apc>>
  BY <1>1, <1>2 DEF WorkerProcess, Receives, AllSent, callerData, aggVars
<1>4. i0 \in Ids /\ Head(inq[v]) = DataMsg(i0)
  <2>1. inq[v] \in Seq(Messages)
    BY DEF TypeOK
  <2>2. Head(inq[v]) \in Messages
    BY <1>3, <2>1
  <2> QED
    BY <1>1, <1>3, <2>2 DEF Messages, DataMsg, FlushMsg, EndMsg
<1>5. /\ \A w \in Workers : w # v => inq'[w] = inq[w]
      /\ InputQueue(v)'
      /\ \A i \in Ids : InInput(v, i) <=> InInput(v, i)' \/ i = i0
      /\ \A j \in Ids : InInput(v, j)' => i0 < j
  <2>1. \A i \in Ids : DataMsg(i) = DataMsg(i0) <=> i = i0
    BY DEF DataMsg
  <2> QED
    BY <1>3, <1>4, <2>1, HeadTaken
<1>6. InInput(v, i0) /\ ~InInput(v, i0)'
  BY <1>4, <1>5 DEF Ids
<1>7. i0 \in DOMAIN accepted
  BY <1>4, <1>6, InFlightAccepted, SizeAssumption DEF Cells
<1>8. /\ held'[v] = Without(Counted(v, i0), full) /\ out'[v] = Only(Counted(v, i0), full)
      /\ \A w \in Workers : w # v => held'[w] = held[w] /\ out'[w] = out[w]
  BY <1>3 DEF TypeOK
<1>9. \A c \in Cells : held'[v][c] = {} \/ out'[v][c] = {}
  BY <1>8 DEF Without, Only
<1>10. \A c \in Cells, i \in Ids : i \in held'[v][c] \/ i \in out'[v][c] <=> i \in Counted(v, i0)[c]
  BY <1>8 DEF Without, Only
<1>11. \A c \in Cells, i \in Ids : i \in Counted(v, i0)[c] <=> i \in held[v][c] \/ (i = i0 /\ Counts(i, c))
  BY <1>7 DEF Counted, Counts
<1>12. \A c \in Cells, i \in Ids : i \in held'[v][c] \/ i \in out'[v][c] <=>
         i \in held[v][c] \/ (InInput(v, i) /\ ~InInput(v, i)' /\ Counts(i, c))
  BY <1>5, <1>6, <1>10, <1>11
<1>13. \A w \in Workers : Intact(w)' <=> Intact(w)
  BY <1>3 DEF Intact
<1>14. /\ \A i \in Ids : InInput(v, i)' => InInput(v, i)
       /\ \A i, j \in Ids : InInput(v, i) /\ ~InInput(v, i)' /\ InInput(v, j)' => i < j
  BY <1>5
<1> QED
  BY <1>3, <1>5, <1>8, <1>9, <1>12, <1>13, <1>14, FlowPromote

\* Flush and End move the counters into deltas and no input.
LEMMA FlowFlush ==
  ASSUME Flow, TypeOK, TypeOK', NEW v \in Workers, WorkerFlush(v)
  PROVE  Flow'
<1>1. PICK t \in {"flush", "end"} : Receives(v, t) /\ wpc' = [wpc EXCEPT ![v] = t]
  BY DEF WorkerFlush
<1>2. /\ inq[v] # <<>> /\ Head(inq[v]).type = t /\ out[v] = NoCounts /\ wpc[v] = "run"
      /\ held' = [held EXCEPT ![v] = NoCounts]
      /\ out'  = [out  EXCEPT ![v] = held[v]]
      /\ inq'  = [inq EXCEPT ![v] = Tail(@)]
      /\ UNCHANGED <<accepted, dq, parent, apc>>
  BY <1>1 DEF WorkerFlush, Receives, AllSent, Residue, callerData, aggVars
<1>3. \A i \in Ids : Head(inq[v]) # DataMsg(i)
  BY <1>1, <1>2 DEF DataMsg
<1>4. /\ \A w \in Workers : w # v => inq'[w] = inq[w]
      /\ InputQueue(v)'
      /\ \A i \in Ids : InInput(v, i) <=> InInput(v, i)'
  BY <1>2, <1>3, HeadTaken
<1>5. /\ held'[v] = NoCounts /\ out'[v] = held[v]
      /\ \A w \in Workers : w # v => held'[w] = held[w] /\ out'[w] = out[w]
  BY <1>2 DEF TypeOK
<1>6. /\ \A c \in Cells : held'[v][c] = {} \/ out'[v][c] = {}
      /\ \A c \in Cells, i \in Ids : i \in held'[v][c] \/ i \in out'[v][c] <=> i \in held[v][c]
  BY <1>5 DEF NoCounts
<1>7. \A w \in Workers : Intact(w)' <=> Intact(w)
  BY <1>1, <1>2 DEF Intact, TypeOK
<1> QED
  BY <1>2, <1>4, <1>5, <1>6, <1>7, FlowPromote

\* One delta of the message in hand goes to the end of the delta queue.
LEMMA FlowSend ==
  ASSUME Flow, TypeOK, TypeOK', NEW v \in Workers, NEW b \in Cells, WorkerSend(v, b)
  PROVE  Flow'
<1>1. PICK d : d = [cell |-> b, ids |-> out[v][b]]
  OBVIOUS
<1>2. /\ dq'  = [dq  EXCEPT ![v] = Append(@, d)]
      /\ out' = [out EXCEPT ![v] = Without(out[v], {b})]
      /\ UNCHANGED <<accepted, inq, held, parent, wpc, apc>>
      /\ Intact(v)
  BY <1>1 DEF WorkerSend, callerData, aggVars, WorkerGone, AggGone, Intact
<1>3. /\ dq[v] \in Seq(Deltas) /\ d \in Deltas /\ d.cell = b /\ d.ids = out[v][b]
      /\ dq'[v] = Append(dq[v], d)
      /\ \A w \in Workers : w # v => dq'[w] = dq[w] /\ out'[w] = out[w]
      /\ \A c \in Cells : out'[v][c] = IF c = b THEN {} ELSE out[v][c]
  BY <1>1, <1>2, SMTT(60) DEF TypeOK, Deltas, Without
<1>4. /\ Len(dq[v]) \in Nat /\ Len(dq'[v]) = Len(dq[v]) + 1 /\ dq'[v][Len(dq[v]) + 1] = d
      /\ \A p \in 1..Len(dq[v]) : dq'[v][p] = dq[v][p]
  BY <1>3, AppendHas, ElementOf
<1>5. /\ \A w, i : InInput(w, i)' <=> InInput(w, i)
      /\ \A w, c, i : InParent(w, c, i)' <=> InParent(w, c, i)
      /\ \A i, c : Counts(i, c)' <=> Counts(i, c)
      /\ \A i : Owner(i)' = Owner(i)
      /\ \A w : Intact(w)' <=> Intact(w)
  BY <1>2 DEF InInput, InParent, Counts, Owner, Intact
<1>6. \A w \in Workers, c \in Cells, i \in Ids :
        InDelta(w, c, i)' <=> InDelta(w, c, i) \/ (w = v /\ c = b /\ i \in out[v][b])
  <2> SUFFICES ASSUME NEW w \in Workers, NEW c \in Cells, NEW i \in Ids
      PROVE  InDelta(w, c, i)' <=> InDelta(w, c, i) \/ (w = v /\ c = b /\ i \in out[v][b])
    OBVIOUS
  <2>1. CASE w # v
    BY <2>1, <1>3 DEF InDelta
  <2>2. CASE w = v
    BY <2>2, <1>3, <1>4 DEF InDelta
  <2> QED
    BY <2>1, <2>2
<1>7. \A w \in Workers, c \in Cells, i \in Ids :
        i \in out'[w][c] <=> i \in out[w][c] /\ ~(w = v /\ c = b)
  BY <1>3
<1>8. \A w \in Workers, c \in Cells, i \in Ids : Pending(w, c, i)' <=> Pending(w, c, i)
  BY <1>2, <1>5, <1>6, <1>7 DEF Pending
<1>a. held' = held /\ parent' = parent /\ inq' = inq /\ accepted' = accepted
  BY <1>2
<1>9. InputQueues'
  BY <1>2, <1>5 DEF Flow, InputQueues
<1>10. Placed'
  <2> SUFFICES ASSUME NEW w \in Workers, NEW c \in Cells, NEW i \in Ids
      PROVE  /\ i \in held[w][c] \/ i \in out'[w][c] \/ InDelta(w, c, i)' => Counts(i, c) /\ Owner(i) = w
             /\ i \in parent[c] => Counts(i, c)
    <3>1. /\ held \in [Workers -> [Cells -> SUBSET Ids]] /\ out' \in [Workers -> [Cells -> SUBSET Ids]]
          /\ parent \in [Cells -> SUBSET Ids]
      BY DEF TypeOK
    <3> QED
      BY <3>1, <1>5, <1>a DEF Placed
  <2> QED
    BY <1>6, <1>7 DEF Flow, Placed
<1>11. StageOrder'
  <2> SUFFICES ASSUME NEW w \in Workers, NEW c \in Cells, NEW i \in Ids, NEW j \in Ids
      PROVE
        /\ i \in held[w][c] /\ InInput(w, j) => i < j
        /\ i \in out'[w][c] /\ (j \in held[w][c] \/ InInput(w, j)) => i < j
        /\ InDelta(w, c, i)' /\ (j \in out'[w][c] \/ j \in held[w][c] \/ InInput(w, j)) => i < j
        /\ InParent(w, c, i) /\ Pending(w, c, j)' => i < j
    BY <1>5, <1>a DEF StageOrder
  <2>1. InDelta(w, c, i)' /\ (j \in out'[w][c] \/ j \in held[w][c] \/ InInput(w, j)) => i < j
    BY <1>6, <1>7 DEF Flow, StageOrder
  <2> QED
    BY <2>1, <1>7, <1>8 DEF Flow, StageOrder
<1>12. DeltaOrder'
  <2> SUFFICES ASSUME NEW w \in Workers, NEW p \in 1..Len(dq'[w]), NEW q \in 1..Len(dq'[w]),
                      p < q, dq'[w][p].cell = dq'[w][q].cell,
                      NEW i \in dq'[w][p].ids, NEW j \in dq'[w][q].ids
               PROVE  i < j
    BY DEF DeltaOrder
  <2>1. CASE w # v
    BY <2>1, <1>3 DEF Flow, DeltaOrder
  <2>2. CASE w = v /\ q \in 1..Len(dq[v])
    <3>1. p \in 1..Len(dq[v])
      BY <2>2, <1>4
    <3> QED
      BY <2>2, <3>1, <1>4 DEF Flow, DeltaOrder
  <2>3. CASE w = v /\ q = Len(dq[v]) + 1
    <3>1. p \in 1..Len(dq[v]) /\ dq'[v][p] = dq[v][p] /\ dq'[v][q] = d
      BY <2>3, <1>4
    <3>2. dq[v][p] \in Deltas
      BY <3>1, <1>3, ElementOf
    <3>3. i \in Ids /\ j \in Ids /\ InDelta(v, b, i) /\ j \in out[v][b]
      BY <2>3, <3>1, <3>2, <1>3 DEF InDelta, Deltas
    <3> QED
      BY <3>3 DEF Flow, StageOrder
  <2> QED
    BY <2>1, <2>2, <2>3, <1>4
<1>13. Accounted'
  <2> SUFFICES ASSUME NEW w \in Workers, NEW c \in Cells, NEW i \in Ids, Counts(i, c), Owner(i) = w
               PROVE  Pending(w, c, i)' \/ i \in parent'[c] \/ Lost(w, c, i)'
    BY <1>5 DEF Accounted
  <2>1. Pending(w, c, i) \/ i \in parent[c] \/ Lost(w, c, i)
    BY DEF Flow, Accounted
  <2>2. Lost(w, c, i) => Lost(w, c, i)'
    <3>1. Lost(w, c, i) => w # v
      BY <1>2 DEF Lost
    <3>2. w # v => \A j \in Ids : Delivered(w, c, j)' <=> Delivered(w, c, j)
      BY <1>5, <1>6 DEF Delivered
    <3> QED
      BY <3>1, <3>2, <1>5 DEF Lost
  <2> QED
    BY <2>1, <2>2, <1>2, <1>8
<1> QED
  BY <1>9, <1>10, <1>11, <1>12, <1>13 DEF Flow

\* The aggregator adds the head of a delta queue to the parent.
LEMMA FlowApply ==
  ASSUME Flow, TypeOK, TypeOK', AggApply
  PROVE  Flow'
<1>1. PICK v \in Workers : v = sweep
  BY DEF TypeOK
<1>2. PICK d : d = Head(dq[v])
  OBVIOUS
<1>3. /\ dq[v] # <<>> /\ dq' = [dq EXCEPT ![v] = Tail(@)]
      /\ parent' = [parent EXCEPT ![d.cell] = @ \cup d.ids]
      /\ UNCHANGED <<accepted, inq, held, out, wpc>>
      /\ apc = "poll" /\ apc' # "panicked"
  <2>1. apc = "poll" /\ apc' \in {apc, "adjust"}
    BY NextReceiverType DEF AggApply
  <2> QED
    BY <2>1, <1>1, <1>2 DEF AggApply, Applied, callerData, workerVars
<1>4. dq[v] \in Seq(Deltas) /\ dq'[v] = Tail(dq[v]) /\ (\A w \in Workers : w # v => dq'[w] = dq[w])
  BY <1>3 DEF TypeOK
<1>5. /\ Len(dq[v]) \in Nat /\ 1 <= Len(dq[v]) /\ d = dq[v][1] /\ Len(dq'[v]) = Len(dq[v]) - 1
      /\ \A p \in 1..(Len(dq[v]) - 1) : dq'[v][p] = dq[v][p + 1]
  BY <1>2, <1>3, <1>4, TailHas
<1>6. \A p \in 1..Len(dq'[v]) : p + 1 \in 1..Len(dq[v]) /\ dq'[v][p] = dq[v][p + 1]
  BY <1>5
<1>7. d \in Deltas /\ d.cell \in Cells /\ d.ids \subseteq Ids
  <2>1. 1 \in 1..Len(dq[v])
    BY <1>5
  <2>2. d \in Deltas
    BY <2>1, <1>4, <1>5, ElementOf
  <2> QED
    BY <2>2 DEF Deltas
<1>8. /\ \A w, i : InInput(w, i)' <=> InInput(w, i)
      /\ \A i, c : Counts(i, c)' <=> Counts(i, c)
      /\ \A i : Owner(i)' = Owner(i)
      /\ \A w : Intact(w)' <=> Intact(w)
  BY <1>3 DEF InInput, Counts, Owner, Intact
<1>9. \A c \in Cells, i \in Ids : i \in parent'[c] <=> i \in parent[c] \/ (c = d.cell /\ i \in d.ids)
  BY <1>3, <1>7 DEF TypeOK
<1>10. \A w \in Workers, c \in Cells, i \in Ids :
         InDelta(w, c, i) <=> InDelta(w, c, i)' \/ (w = v /\ c = d.cell /\ i \in d.ids)
  <2> SUFFICES ASSUME NEW w \in Workers, NEW c \in Cells, NEW i \in Ids
      PROVE  InDelta(w, c, i) <=> InDelta(w, c, i)' \/ (w = v /\ c = d.cell /\ i \in d.ids)
    OBVIOUS
  <2>1. CASE w # v
    BY <2>1, <1>4 DEF InDelta
  <2>2. CASE w = v
    <3>1. InDelta(v, c, i)' => InDelta(v, c, i)
      BY <1>6 DEF InDelta
    <3>2. c = d.cell /\ i \in d.ids => InDelta(v, c, i)
      BY <1>5 DEF InDelta
    <3>3. ASSUME NEW p \in 1..Len(dq[v]), dq[v][p].cell = c, i \in dq[v][p].ids, p # 1
          PROVE  InDelta(v, c, i)'
      <4>1. p - 1 \in 1..Len(dq'[v]) /\ dq'[v][p - 1] = dq[v][p]
        BY <1>5, <3>3
      <4> QED
        BY <3>3, <4>1 DEF InDelta
    <3> QED
      BY <2>2, <3>1, <3>2, <3>3, <1>5 DEF InDelta
  <2> QED
    BY <2>1, <2>2
<1>11. \A i \in d.ids : InDelta(v, d.cell, i) /\ Counts(i, d.cell) /\ Owner(i) = v
  BY <1>7, <1>10 DEF Flow, Placed
<1>12. \A w \in Workers, c \in Cells, i \in Ids :
         InParent(w, c, i)' <=> InParent(w, c, i) \/ (w = v /\ c = d.cell /\ i \in d.ids)
  BY <1>8, <1>9, <1>11 DEF InParent
<1>13. \A w \in Workers, c \in Cells, i \in Ids :
         /\ Pending(w, c, i)' => Pending(w, c, i)
         /\ Pending(w, c, i) => Pending(w, c, i)' \/ i \in parent'[c]
  BY <1>3, <1>8, <1>9, <1>10 DEF Pending
<1>14. \A w \in Workers, c \in Cells, i \in Ids : Delivered(w, c, i)' => Delivered(w, c, i)
  BY <1>10, <1>12 DEF Delivered
<1>15. InputQueues'
  BY <1>3, <1>8 DEF Flow, InputQueues
<1>16. Placed'
  <2> SUFFICES ASSUME NEW w \in Workers, NEW c \in Cells, NEW i \in Ids
      PROVE  /\ i \in held[w][c] \/ i \in out[w][c] \/ InDelta(w, c, i)' => Counts(i, c) /\ Owner(i) = w
             /\ i \in parent'[c] => Counts(i, c)
    <3>1. /\ held \in [Workers -> [Cells -> SUBSET Ids]] /\ out \in [Workers -> [Cells -> SUBSET Ids]]
          /\ parent' \in [Cells -> SUBSET Ids]
      BY DEF TypeOK
    <3> QED
      BY <3>1, <1>3, <1>8 DEF Placed
  <2> QED
    BY <1>9, <1>10, <1>11 DEF Flow, Placed
<1>17. StageOrder'
  <2> SUFFICES ASSUME NEW w \in Workers, NEW c \in Cells, NEW i \in Ids, NEW j \in Ids
      PROVE
        /\ i \in held[w][c] /\ InInput(w, j) => i < j
        /\ i \in out[w][c] /\ (j \in held[w][c] \/ InInput(w, j)) => i < j
        /\ InDelta(w, c, i)' /\ (j \in out[w][c] \/ j \in held[w][c] \/ InInput(w, j)) => i < j
        /\ InParent(w, c, i)' /\ Pending(w, c, j)' => i < j
    BY <1>3, <1>8 DEF StageOrder
  <2>1. ASSUME InParent(w, c, i)', Pending(w, c, j)' PROVE i < j
    <3>1. CASE InParent(w, c, i)
      BY <2>1, <3>1, <1>13 DEF Flow, StageOrder
    <3>2. CASE w = v /\ c = d.cell /\ i \in d.ids
      <4>1. CASE InDelta(v, c, j)'
        <5>1. PICK p \in 1..Len(dq'[v]) : dq'[v][p].cell = c /\ j \in dq'[v][p].ids
          BY <4>1 DEF InDelta
        <5>2. p + 1 \in 1..Len(dq[v]) /\ dq[v][p + 1].cell = c /\ j \in dq[v][p + 1].ids
              /\ 1 \in 1..Len(dq[v]) /\ 1 < p + 1 /\ dq[v][1].cell = c /\ i \in dq[v][1].ids
          BY <5>1, <3>2, <1>5, <1>6
        <5> QED
          BY <5>2 DEF Flow, DeltaOrder
      <4>2. CASE j \in out[v][c] \/ j \in held[v][c] \/ InInput(v, j)
        BY <3>2, <4>2, <1>11 DEF Flow, StageOrder
      <4> QED
        BY <2>1, <3>2, <4>1, <4>2, <1>3, <1>8 DEF Pending
    <3> QED
      BY <2>1, <3>1, <3>2, <1>12
  <2> QED
    BY <2>1, <1>10 DEF Flow, StageOrder
<1>18. DeltaOrder'
  <2> SUFFICES ASSUME NEW w \in Workers, NEW p \in 1..Len(dq'[w]), NEW q \in 1..Len(dq'[w]),
                      p < q, dq'[w][p].cell = dq'[w][q].cell,
                      NEW i \in dq'[w][p].ids, NEW j \in dq'[w][q].ids
               PROVE  i < j
    BY DEF DeltaOrder
  <2>1. CASE w # v
    BY <2>1, <1>4 DEF Flow, DeltaOrder
  <2>2. CASE w = v
    <3>1. p + 1 \in 1..Len(dq[v]) /\ q + 1 \in 1..Len(dq[v]) /\ p + 1 < q + 1
          /\ dq'[v][p] = dq[v][p + 1] /\ dq'[v][q] = dq[v][q + 1]
      <4>1. p \in 1..Len(dq'[v]) /\ q \in 1..Len(dq'[v])
        BY <2>2
      <4>2. p + 1 < q + 1
        BY <4>1, <1>5
      <4> QED
        BY <4>1, <4>2, <1>6
    <3> QED
      BY <2>2, <3>1 DEF Flow, DeltaOrder
  <2> QED
    BY <2>1, <2>2
<1>19. Accounted'
  <2> SUFFICES ASSUME NEW w \in Workers, NEW c \in Cells, NEW i \in Ids, Counts(i, c), Owner(i) = w
               PROVE  Pending(w, c, i)' \/ i \in parent'[c] \/ Lost(w, c, i)'
    BY <1>8 DEF Accounted
  <2>1. Pending(w, c, i) \/ i \in parent[c] \/ Lost(w, c, i)
    BY DEF Flow, Accounted
  <2>2. Lost(w, c, i) => Lost(w, c, i)'
    BY <1>8, <1>14 DEF Lost
  <2> QED
    BY <2>1, <2>2, <1>9, <1>13
<1> QED
  BY <1>15, <1>16, <1>17, <1>18, <1>19 DEF Flow

\* A panicking aggregator drops every delta queue; what was in them came after
\* all it had applied.
LEMMA FlowAggPanic ==
  ASSUME Flow, TypeOK, AggPanic
  PROVE  Flow'
<1>1. /\ \A w \in Workers : dq'[w] = <<>>
      /\ apc' = "panicked"
      /\ UNCHANGED <<accepted, inq, held, out, parent>>
  BY DEF AggPanic, callerData, workerVars
<1>2. /\ \A w, i : InInput(w, i)' <=> InInput(w, i)
      /\ \A w \in Workers : \A c, i : ~InDelta(w, c, i)'
      /\ \A w, c, i : InParent(w, c, i)' <=> InParent(w, c, i)
      /\ \A i, c : Counts(i, c)' <=> Counts(i, c)
      /\ \A i : Owner(i)' = Owner(i)
      /\ \A w : ~Intact(w)'
  BY <1>1 DEF InInput, InDelta, InParent, Counts, Owner, Intact
<1>3. \A w \in Workers : \A c, i : Pending(w, c, i)' => Pending(w, c, i)
  BY <1>1, <1>2 DEF Pending
<1>4. InputQueues' /\ DeltaOrder'
  BY <1>1, <1>2 DEF Flow, InputQueues, DeltaOrder
<1>5. Placed'
  BY <1>1, <1>2 DEF Flow, Placed
<1>6. StageOrder'
  BY <1>1, <1>2, <1>3 DEF Flow, StageOrder
<1>7. Accounted'
  <2> SUFFICES ASSUME NEW w \in Workers, NEW c \in Cells, NEW i \in Ids, Counts(i, c), Owner(i) = w
               PROVE  Pending(w, c, i)' \/ i \in parent'[c] \/ Lost(w, c, i)'
    BY <1>2 DEF Accounted
  <2>1. Pending(w, c, i) \/ i \in parent[c] \/ Lost(w, c, i)
    BY DEF Flow, Accounted
  <2>2. \A j \in Ids : Delivered(w, c, j)' => InParent(w, c, j)
    BY <1>2 DEF Delivered
  <2>3. Lost(w, c, i) => Lost(w, c, i)'
    BY <2>2, <1>2 DEF Lost, Delivered
  <2>4. Pending(w, c, i) => Lost(w, c, i)'
    BY <2>2, <1>2 DEF Lost, Flow, StageOrder
  <2> QED
    BY <2>1, <2>3, <2>4, <1>1
<1> QED
  BY <1>4, <1>5, <1>6, <1>7 DEF Flow

-----------------------------------------------------------------------------
(* The inductive invariant *)

LEMMA IInvParts == IInv <=> TypeOK /\ Flow /\ Control
BY DEF IInv, Flow, Control

LEMMA FlowInit == Init => Flow
<1> SUFFICES ASSUME Init PROVE Flow
  OBVIOUS
<1>1. /\ \A w \in Workers : inq[w] = <<>> /\ dq[w] = <<>>
      /\ \A w \in Workers, c \in Cells : held[w][c] = {} /\ out[w][c] = {}
      /\ \A c \in Cells : parent[c] = {}
      /\ accepted = <<>>
  BY DEF Init, NoCounts
<1>2. /\ \A w \in Workers : \A i : ~InInput(w, i)
      /\ \A w \in Workers : \A c, i : ~InDelta(w, c, i)
      /\ \A c, i : ~Counts(i, c)
  BY <1>1 DEF InInput, InDelta, Counts
<1>3. InputQueues /\ DeltaOrder
  BY <1>1 DEF InputQueues, DeltaOrder
<1>4. Placed /\ StageOrder /\ Accounted
  BY <1>1, <1>2 DEF Placed, StageOrder, Accounted, InParent
<1> QED
  BY <1>3, <1>4 DEF Flow

\* The caller moves increments only by insert; all else it queues is control.
LEMMA FlowCaller ==
  ASSUME TypeOK, TypeOK', Flow, Call \/ CallerStep
  PROVE  Flow'
<1> USE DEF callerData, channels, threads, workerVars, aggVars, readVars
<1>1. CASE SendInput
  BY <1>1, FlowSendInput
<1>2. CASE SendFlush
  BY <1>2, FlowControlSent DEF SendFlush, TypeOK
<1>3. CASE SendEnd
  <2>1. CASE inq' = inq
    BY <1>3, <2>1, FlowFrame DEF SendEnd, Intact
  <2>2. CASE inq' = [inq EXCEPT ![step] = Append(@, EndMsg)]
    BY <1>3, <2>2, FlowControlSent DEF SendEnd, TypeOK
  <2> QED
    BY <1>3, <2>1, <2>2 DEF SendEnd
<1>4. ASSUME ~SendInput, ~SendFlush, ~SendEnd
      PROVE  UNCHANGED <<accepted, inq, held, out, dq, parent, wpc, apc>>
  BY <1>4 DEF Call, CallerStep, BeginInsert, InsertAfterClose, BeginFlush, Close, Finish, Drop, Leave,
              CollectAck, SendDrain, FlushReturns, JoinWorker, TakeParent, CallPanics
<1>5. CASE ~SendInput /\ ~SendFlush /\ ~SendEnd
  BY <1>4, <1>5, FlowFrame DEF Intact
<1> QED
  BY <1>1, <1>2, <1>3, <1>5

LEMMA FlowWorker ==
  ASSUME TypeOK, TypeOK', Flow, NEW v \in Workers, WorkerStep(v) \/ WorkerPanic(v)
  PROVE  Flow'
<1>1. CASE WorkerProcess(v)
  BY <1>1, FlowProcess
<1>2. CASE WorkerFlush(v)
  BY <1>2, FlowFlush
<1>3. CASE \E c \in Cells : WorkerSend(v, c)
  BY <1>3, FlowSend
<1>4. CASE WorkerSendFails(v) \/ WorkerPanic(v)
  BY <1>4, FlowDies DEF WorkerSendFails, WorkerPanic
<1>5. CASE WorkerAck(v) \/ WorkerReturns(v)
  <2>1. /\ UNCHANGED <<accepted, inq, held, out, dq, parent, apc>>
        /\ \A w \in Workers : wpc'[w] = wpc[w] \/ (w = v /\ wpc[v] \in {"run", "flush", "end"})
    BY <1>5 DEF WorkerAck, WorkerReturns, callerData, channels, aggVars, TypeOK
  <2>2. \A w \in Workers : Intact(w)' => Intact(w)
    BY <2>1 DEF Intact
  <2> QED
    BY <2>1, <2>2, FlowFrame
<1> QED
  BY <1>1, <1>2, <1>3, <1>4, <1>5 DEF WorkerStep

LEMMA FlowAggregator ==
  ASSUME TypeOK, TypeOK', Flow, AggStep \/ AggPanic
  PROVE  Flow'
<1>1. CASE AggApply
  BY <1>1, FlowApply
<1>2. CASE AggPanic
  BY <1>2, FlowAggPanic
<1>3. CASE AggPass \/ AggAdjust \/ AggEndSweep
  <2>1. UNCHANGED <<accepted, inq, held, out, dq, parent, wpc>> /\ apc # "panicked"
    BY <1>3 DEF AggPass, AggAdjust, AggEndSweep, callerData, channels, workerVars
  <2> QED
    BY <2>1, FlowFrame DEF Intact
<1> QED
  BY <1>1, <1>2, <1>3 DEF AggStep

\* Readers, and steps of nobody, leave calls, channels and threads alone.
LEMMA IInvFrame ==
  ASSUME TypeOK, TypeOK', Flow, Control,
         (\E r \in Readers : ReadUpgrade(r) \/ ReadStep(r)) \/ UNCHANGED vars
  PROVE  Flow' /\ Control'
<1>1. UNCHANGED <<pc, step, closed, accepted, inq, held, out, dq, parent, wpc, apc, connected>>
  BY DEF ReadUpgrade, ReadStep, ReadLock, ReadDone, Moves, vars, channels, threads, workerVars, aggVars,
         callerData
<1>2. Flow'
  BY <1>1, FlowFrame DEF Intact
<1>3. Control'
  BY <1>1, ControlFrame
<1> QED
  BY <1>2, <1>3

LEMMA IInvStep == IInv /\ [Next]_vars => IInv'
<1> SUFFICES ASSUME TypeOK, Flow, Control, [Next]_vars PROVE TypeOK' /\ Flow' /\ Control'
  BY IInvParts DEF IInv, Flow, Control
<1>1. TypeOK'
  <2>1. CASE UNCHANGED vars
    BY <2>1 DEF TypeOK, vars, channels, threads, workerVars, aggVars, readVars, callerData
  <2> QED
    BY <2>1, TypeCaller, TypeWorker, TypeAggregator, TypeReader DEF Next
<1>2. CASE Call \/ CallerStep
  BY <1>1, <1>2, FlowCaller, ControlCaller
<1>3. CASE \E w \in Workers : WorkerStep(w) \/ WorkerPanic(w)
  BY <1>1, <1>3, FlowWorker, ControlWorker
<1>4. CASE AggStep \/ AggPanic
  BY <1>1, <1>4, FlowAggregator, ControlAggregator
<1>5. CASE (\E r \in Readers : ReadUpgrade(r) \/ ReadStep(r)) \/ UNCHANGED vars
  BY <1>1, <1>5, IInvFrame
<1> QED
  BY <1>1, <1>2, <1>3, <1>4, <1>5 DEF Next

\* The inductive invariant holds in every instance of the runtime: increments
\* leave insert() for the parent in order, whatever the threads do.
THEOREM InvariantCorrect == Spec => []IInv
<1>1. Init => IInv
  BY TypeInit, FlowInit, ControlInit, IInvParts
<1> QED
  BY <1>1, IInvStep, PTL DEF Spec

-----------------------------------------------------------------------------
(* What follows from it *)

\* Every accepted input is on its way or counted, once no thread has panicked
\* (insert, process, flush, End and the sweep between them lose nothing).
THEOREM ConservationCorrect == Spec => []Conservation
<1>1. IInv => Conservation
  <2> SUFFICES ASSUME IInv, NEW c \in Cells PROVE
        /\ \A i \in DOMAIN accepted : Counts(i, c) /\ Intact(Owner(i)) =>
             Pending(Owner(i), c, i) \/ i \in parent[c]
        /\ \A i \in parent[c] : Counts(i, c)
    BY DEF Conservation
  <2>1. \A i \in DOMAIN accepted : i \in Ids /\ Owner(i) \in Workers
    BY AcceptedType DEF IInv
  <2>2. 1 \in Workers
    BY SizeAssumption DEF Workers
  <2> QED
    BY <2>1, <2>2 DEF IInv, Accounted, Lost, Placed
<1> QED
  BY <1>1, InvariantCorrect, PTL

\* No increment is in two places at once, so none is counted twice.
THEOREM CountedOnceCorrect == Spec => []CountedOnce
<1>1. IInv => CountedOnce
  <2> SUFFICES ASSUME IInv, NEW w \in Workers, NEW c \in Cells, NEW i \in Ids
      PROVE  /\ Pending(w, c, i) /\ Counts(i, c) => i \notin parent[c]
             /\ i \in out[w][c] => i \notin held[w][c]
             /\ InDelta(w, c, i) => i \notin out[w][c] /\ i \notin held[w][c]
    BY DEF CountedOnce
  <2>1. ~(i < i)
    BY DEF Ids
  <2>2. Pending(w, c, i) => Owner(i) = w
    <3>1. Flow /\ TypeOK
      BY DEF IInv, Flow
    <3>2. InInput(w, i) => Owner(i) = w
      BY <3>1, InFlightAccepted
    <3> QED
      BY <3>1, <3>2 DEF Flow, Placed, Pending
  <2>3. Pending(w, c, i) => i \notin parent[c]
    BY <2>1, <2>2 DEF IInv, StageOrder, InParent
  <2> QED
    BY <2>1, <2>3 DEF IInv, StageOrder
<1> QED
  BY <1>1, InvariantCorrect, PTL

\* Stages are in order, and nothing before a delivered increment is lost.
LEMMA PrefixOfInv == IInv => AppliedIsPrefix
<1> SUFFICES ASSUME IInv, NEW w \in Workers, NEW c \in Cells,
                    NEW i \in DOMAIN accepted, NEW j \in DOMAIN accepted,
                    InParent(w, c, j), i < j, Owner(i) = w, Counts(i, c)
             PROVE  i \in parent[c]
  BY DEF AppliedIsPrefix
<1>1. i \in Ids /\ j \in Ids
  BY AcceptedType DEF IInv
<1>2. ~(j < i)
  BY <1>1 DEF Ids
<1>3. ~Pending(w, c, i)
  BY <1>1, <1>2 DEF IInv, StageOrder
<1>4. ~Lost(w, c, i)
  BY <1>1, <1>2 DEF Lost, Delivered
<1> QED
  BY <1>1, <1>3, <1>4 DEF IInv, Accounted

\* In each cell the parent holds a prefix of each worker's stream, even after
\* a panic: a query sees an earlier moment of it, never a gap.
THEOREM AppliedIsPrefixCorrect == Spec => []AppliedIsPrefix
BY PrefixOfInv, InvariantCorrect, PTL

\* End is the last message of every worker: close and finish send it once.
THEOREM EndIsLastCorrect == Spec => []EndIsLast
<1>1. IInv => EndIsLast
  BY DEF IInv, Endings, EndIsLast
<1> QED
  BY <1>1, InvariantCorrect, PTL

\* With nothing on its way and no thread broken, the parent is exact.
LEMMA EmptiedIsExact ==
  ASSUME IInv, \A w \in Workers : Intact(w),
         \A w \in Workers, c \in Cells, i \in Ids : ~Pending(w, c, i)
  PROVE  ParentExact
<1> SUFFICES ASSUME NEW c \in Cells PROVE parent[c] = {i \in DOMAIN accepted : Counts(i, c)}
  BY DEF ParentExact
<1>1. \A i \in parent[c] : Counts(i, c)
  <2>1. 1 \in Workers
    BY SizeAssumption DEF Workers
  <2> QED
    BY <2>1 DEF IInv, Placed
<1>2. ASSUME NEW i \in DOMAIN accepted, Counts(i, c) PROVE i \in parent[c]
  <2>1. i \in Ids /\ Owner(i) \in Workers
    BY AcceptedType DEF IInv
  <2>2. ~Lost(Owner(i), c, i)
    BY <2>1 DEF Lost
  <2> QED
    BY <1>2, <2>1, <2>2 DEF IInv, Accounted
<1>3. \A i : Counts(i, c) => i \in DOMAIN accepted
  BY DEF Counts
<1> QED
  BY <1>1, <1>2, <1>3

\* Once every worker has stopped and the aggregator is done, nothing is on its
\* way.
LEMMA StoppedIsExact ==
  ASSUME IInv, apc = "done", \A w \in Workers : wpc[w] = "stopped"
  PROVE  ParentExact
<1>1. \A w \in Workers : inq[w] = <<>> /\ held[w] = NoCounts /\ out[w] = NoCounts /\ dq[w] = <<>>
  BY DEF IInv, Endings, Closings
<1>2. \A w \in Workers, c \in Cells, i \in Ids : ~Pending(w, c, i)
  BY <1>1 DEF Pending, InDelta, InInput, NoCounts
<1>3. \A w \in Workers : Intact(w)
  BY DEF Intact
<1> QED
  BY <1>2, <1>3, EmptiedIsExact

LEMMA DoneIsExact == IInv => FinishIsExact
<1> SUFFICES ASSUME IInv, pc = "done"
             PROVE  ParentExact /\ apc = "done" /\ \A w \in Workers : wpc[w] = "stopped"
  BY DEF FinishIsExact
<1>1. apc = "done" /\ \A w \in Workers : wpc[w] = "stopped"
  BY DEF IInv, CallOrder
<1> QED
  BY <1>1, StoppedIsExact

\* finish() returns nothing but the exact parent.
THEOREM FinishIsExactCorrect == Spec => []FinishIsExact
BY DoneIsExact, InvariantCorrect, PTL

\* Only apply() writes the parent, and it adds: no query ever sees a cell fall.
THEOREM ParentGrowsCorrect == Spec => ParentGrows
<1>1. TypeOK /\ [Next]_vars => [\A c \in Cells : parent[c] \subseteq parent'[c]]_parent
  <2> SUFFICES ASSUME TypeOK, [Next]_vars, parent' # parent
               PROVE  \A c \in Cells : parent[c] \subseteq parent'[c]
    OBVIOUS
  <2>1. AggApply
    BY DEF Next, Call, CallerStep, BeginInsert, InsertAfterClose, BeginFlush, Close, Finish, Drop, Leave,
           SendInput, SendFlush, CollectAck, SendDrain, FlushReturns, SendEnd, JoinWorker, TakeParent,
           CallPanics, WorkerStep, WorkerProcess, WorkerFlush, WorkerAck, WorkerReturns, WorkerSendFails,
           WorkerPanic, WorkerDies, WorkerSend, AggStep, AggPass, AggAdjust, AggEndSweep, AggPanic,
           ReadUpgrade, ReadStep, ReadLock, ReadDone, Moves, vars, channels, threads, workerVars,
           aggVars, readVars, callerData
  <2>2. PICK d : parent' = [parent EXCEPT ![d.cell] = @ \cup d.ids]
    BY <2>1 DEF AggApply, Applied
  <2> QED
    BY <2>2 DEF TypeOK
<1> QED
  BY <1>1, TypeCorrect, PTL DEF Spec, ParentGrows

-----------------------------------------------------------------------------
(* The refinement: OctoRuntime implements OctoPromise *)

\* The runtime starts as the promise does: open, with nothing absorbed.
LEMMA PromiseInit == Init => Promise!Init
BY DEF Init, Promise!Init, Status, CallerGone, NoCounts

\* One delta applied is one prefix absorbed: the delta carries the next inputs
\* its worker counted in the cell, so the last of them names the prefix.
LEMMA ApplyAbsorbs ==
  ASSUME IInv, AppliedIsPrefix', AggApply
  PROVE  \/ \E w \in Workers, c \in Cells, n \in DOMAIN accepted : Promise!Absorb(w, c, n)
         \/ UNCHANGED Promise!vars
<1>1. PICK v \in Workers : v = sweep
  BY DEF IInv, TypeOK
<1>2. PICK d : d = Head(dq[v])
  OBVIOUS
<1>3. /\ dq[v] # <<>> /\ parent' = [parent EXCEPT ![d.cell] = @ \cup d.ids]
      /\ UNCHANGED <<accepted, pc>> /\ apc = "poll"
  BY <1>1, <1>2 DEF AggApply, Applied, callerData
<1>4. dq[v] \in Seq(Deltas) /\ parent \in [Cells -> SUBSET Ids]
  BY DEF IInv, TypeOK
<1>5. Len(dq[v]) \in Nat /\ 1 <= Len(dq[v]) /\ d = dq[v][1]
  BY <1>2, <1>3, <1>4, TailHas
<1>6. d.cell \in Cells /\ d.ids \in SUBSET Ids
  <2>1. 1 \in 1..Len(dq[v])
    BY <1>5
  <2>2. d \in Deltas
    BY <2>1, <1>4, <1>5, ElementOf
  <2> QED
    BY <2>2 DEF Deltas
<1>7. CASE d.ids = {}
  <2>1. parent' = parent
    BY <1>3, <1>4, <1>6, <1>7
  <2> QED
    BY <2>1, <1>3 DEF Promise!vars, Status, CallerGone
<1>8. CASE d.ids # {}
  <2> DEFINE c == d.cell
  <2>1. PICK n \in d.ids : \A i \in d.ids : i <= n
    BY <1>6, <1>8, GreatestNumber, SizeAssumption DEF Ids
  <2>2. \A i \in d.ids : InDelta(v, c, i) /\ Counts(i, c) /\ Owner(i) = v /\ i \in Ids
    <3>1. \A i \in d.ids : InDelta(v, c, i) /\ i \in Ids
      BY <1>5, <1>6 DEF InDelta
    <3> QED
      BY <3>1, <1>6 DEF IInv, Placed
  <2>3. n \in DOMAIN accepted /\ n \in Ids
    BY <2>1, <2>2 DEF Counts
  <2>4. DOMAIN accepted = 1..Len(accepted) /\ Len(accepted) \in Nat
    BY ElementOf DEF IInv, TypeOK
  <2>5. \A i \in parent[c] : Counts(i, c) /\ i \in Ids
    BY <1>4, <1>6, <1>1 DEF IInv, Placed
  <2> DEFINE upTo == {i \in 1..n : accepted[i].worker = v /\ c \in CellsOf[accepted[i].key]}
             seen == {i \in parent[c] : accepted[i].worker = v}
  <2>6. \A i \in 1..n : i \in DOMAIN accepted /\ i \in Ids
    BY <2>3, <2>4, SizeAssumption DEF Ids
  <2>7. \A i \in seen : i < n /\ i \in 1..n
    <3> SUFFICES ASSUME NEW i \in seen PROVE i < n /\ i \in 1..n
      OBVIOUS
    <3>1. InParent(v, c, i) /\ Pending(v, c, n) /\ i \in Ids
      BY <2>1, <2>2, <2>5 DEF InParent, Owner, Pending
    <3>2. i < n
      BY <3>1, <1>6, <2>3 DEF IInv, StageOrder
    <3> QED
      BY <3>1, <3>2, <2>3 DEF Ids
  <2>8. seen \subseteq upTo
    BY <2>7, <2>5 DEF Counts
  <2>9. n \in upTo /\ n \notin seen
    <3>1. n \in upTo
      BY <2>1, <2>2, <2>3 DEF Counts, Owner, Ids
    <3>2. n \notin seen
      BY <2>7, <2>3 DEF Ids
    <3> QED
      BY <3>1, <3>2
  <2>10. parent'[c] = parent[c] \cup d.ids
    BY <1>3, <1>4, <1>6
  <2>11. d.ids \subseteq upTo
    <3> SUFFICES ASSUME NEW i \in d.ids PROVE i \in upTo
      OBVIOUS
    <3>1. i <= n /\ i \in Ids /\ Counts(i, c) /\ Owner(i) = v
      BY <2>1, <2>2
    <3>2. i \in 1..n
      BY <3>1, <2>3 DEF Ids
    <3> QED
      BY <3>1, <3>2 DEF Counts, Owner
  <2>12. upTo \subseteq parent'[c]
    <3> SUFFICES ASSUME NEW i \in upTo PROVE i \in parent'[c]
      OBVIOUS
    <3>1. InParent(v, c, n)'
      BY <2>1, <2>2, <2>10, <1>3 DEF InParent, Owner
    <3>2. i \in DOMAIN accepted' /\ n \in DOMAIN accepted' /\ Owner(i)' = v /\ Counts(i, c)'
      BY <2>6, <2>3, <1>3 DEF Owner, Counts
    <3>3. CASE i = n
      BY <3>3, <2>1, <2>10
    <3>4. CASE i < n
      BY <3>1, <3>2, <3>4, <1>6 DEF AppliedIsPrefix
    <3> QED
      BY <3>3, <3>4, <2>3 DEF Ids
  <2>13. parent' = [parent EXCEPT ![c] = @ \cup upTo]
    <3>1. parent[c] \cup d.ids = parent[c] \cup upTo
      BY <2>10, <2>11, <2>12
    <3> QED
      BY <3>1, <1>3, <1>4
  <2>14. Status # "finished" /\ Status' = Status
    BY <1>3 DEF Status, CallerGone, IInv, CallOrder
  <2>15. Promise!Absorb(v, c, n)
    BY <2>8, <2>9, <2>13, <2>14, <1>3 DEF Promise!Absorb, Promise!Hits
  <2> QED
    BY <2>3, <2>15, <1>6
<1> QED
  BY <1>7, <1>8

\* What a call of the caller, or a step inside one, is to the promise.
LEMMA CallerKeepsPromise ==
  ASSUME IInv, FinishIsExact', Call \/ CallerStep
  PROVE  Promise!Next \/ UNCHANGED Promise!vars
<1> USE DEF callerData, channels, threads, workerVars, aggVars, readVars
<1>1. CASE SendInput
  <2>1. Len(accepted) < MaxInputs
    <3>1. pc = "insert" /\ Len(accepted) \in Nat
      BY <1>1 DEF SendInput, IInv, TypeOK
    <3> QED
      BY <3>1, SizeAssumption DEF IInv, TypeOK
  <2>2. accepted' = Append(accepted, [key |-> arg, worker |-> Route(arg)]) /\ arg \in Keys /\ Route(arg) \in Workers
    BY <1>1, RouteIsWorker DEF SendInput, IInv, TypeOK
  <2>3. Status = "open" /\ Status' = "open" /\ parent' = parent
    BY <1>1 DEF SendInput, Status, CallerGone
  <2>4. Promise!Accept
    BY <2>1, <2>2, <2>3 DEF Promise!Accept
  <2> QED
    BY <2>4 DEF Promise!Next
<1>2. CASE TakeParent /\ pc' = "done"
  <2>1. Status = "open" /\ Status' = "finished" /\ UNCHANGED <<accepted, parent>>
    BY <1>2 DEF TakeParent, Leave, Status, CallerGone
  <2>2. ParentExact'
    BY <1>2 DEF FinishIsExact
  <2>3. \A c \in Cells : parent[c] = {i \in DOMAIN accepted : Promise!Hits(i, c)}
    BY <2>1, <2>2 DEF ParentExact, Counts, Promise!Hits
  <2>4. Promise!Finished
    BY <2>1, <2>3 DEF Promise!Finished
  <2> QED
    BY <2>4 DEF Promise!Next
<1>3. CASE \/ TakeParent /\ pc' # "done"
           \/ CallPanics \/ InsertAfterClose \/ Drop
  <2>1. Status = "open" /\ Status' = "abandoned" /\ UNCHANGED <<accepted, parent>>
    BY <1>3 DEF TakeParent, CallPanics, InsertAfterClose, Drop, Ready, Leave, Status, CallerGone
  <2> QED
    BY <2>1 DEF Promise!Abandoned, Promise!Next
<1>4. CASE \/ \E k \in Keys : BeginInsert(k)
           \/ BeginFlush \/ Close \/ Finish \/ CollectAck \/ SendFlush \/ SendDrain \/ FlushReturns
           \/ SendEnd \/ JoinWorker
  <2>1. UNCHANGED <<accepted, parent>>
    BY <1>4 DEF BeginInsert, BeginFlush, Close, Finish, CollectAck, SendFlush, SendDrain, FlushReturns,
                SendEnd, JoinWorker
  <2>2. ~CallerGone /\ ~CallerGone'
    BY <1>4 DEF BeginInsert, BeginFlush, Close, Finish, CollectAck, SendFlush, SendDrain, FlushReturns,
                SendEnd, JoinWorker, CallerGone, Ready, NextWorker
  <2>3. Status = "open" /\ Status' = "open"
    BY <2>2 DEF Status, CallerGone
  <2> QED
    BY <2>1, <2>3 DEF Promise!vars
<1> QED
  BY <1>1, <1>2, <1>3, <1>4 DEF Call, CallerStep

\* Of the threads only an applied delta is seen by the promise.
LEMMA ThreadsKeepPromise ==
  ASSUME IInv, AppliedIsPrefix',
         \/ \E w \in Workers : WorkerStep(w) \/ WorkerPanic(w)
         \/ AggStep \/ AggPanic
         \/ \E r \in Readers : ReadUpgrade(r) \/ ReadStep(r)
         \/ UNCHANGED vars
  PROVE  Promise!Next \/ UNCHANGED Promise!vars
<1>1. CASE AggApply
  BY <1>1, ApplyAbsorbs DEF Promise!Next
<1>2. CASE ~AggApply
  <2>1. UNCHANGED <<accepted, parent, pc>>
    BY <1>2 DEF WorkerStep, WorkerProcess, WorkerFlush, WorkerAck, WorkerReturns, WorkerSendFails,
           WorkerPanic, WorkerDies, WorkerSend, AggStep, AggPass, AggAdjust, AggEndSweep, AggPanic,
           ReadUpgrade, ReadStep, ReadLock, ReadDone, Moves, vars, channels, threads, workerVars,
           aggVars, readVars, callerData
  <2> QED
    BY <2>1 DEF Promise!vars, Status, CallerGone
<1> QED
  BY <1>1, <1>2

\* Whatever its threads do, the runtime keeps the promise made to its caller:
\* per shard and cell the parent absorbs a growing prefix of the inputs, and a
\* finish hands it back with all of them.
THEOREM PromiseCorrect == Spec => KeepsPromise
<1>1. IInv /\ AppliedIsPrefix' /\ FinishIsExact' /\ [Next]_vars => [Promise!Next]_Promise!vars
  BY CallerKeepsPromise, ThreadsKeepPromise DEF Next
<1> QED
  BY <1>1, PromiseInit, InvariantCorrect, AppliedIsPrefixCorrect, FinishIsExactCorrect, PTL DEF Spec, KeepsPromise, Promise!Spec

-----------------------------------------------------------------------------
(* Who may change what *)

\* The caller's steps touch its own state and its ends of the channels.
LEMMA CallerFrame ==
  ASSUME Call \/ CallerStep
  PROVE  UNCHANGED <<wpc, held, out, dq, apc, sweep, connected, progress, tau, parent, rpc, reads, faults>>
BY DEF Call, CallerStep, BeginInsert, InsertAfterClose, BeginFlush, Close, Finish, Drop, Leave,
       SendInput, SendFlush, CollectAck, SendDrain, FlushReturns, SendEnd, JoinWorker, TakeParent,
       CallPanics, threads, workerVars, aggVars, readVars, channels

\* A worker touches its own state and queues, and sends acknowledgements.
LEMMA WorkerFrame ==
  ASSUME TypeOK, NEW v \in Workers, WorkerStep(v) \/ WorkerPanic(v)
  PROVE  /\ UNCHANGED <<pc, step, accepted, closed, quiet, control>>
         /\ UNCHANGED <<apc, sweep, connected, progress, tau, parent, rpc, reads>>
         /\ \A w \in Workers : w # v => /\ inq'[w] = inq[w] /\ wpc'[w] = wpc[w] /\ held'[w] = held[w]
                                        /\ out'[w] = out[w] /\ dq'[w] = dq[w]
         /\ faults' = faults \/ (WorkerPanic(v) /\ faults' = faults + 1)
         /\ acks' = acks \/ WorkerAck(v)
         /\ held'[v] = held[v] \/ WorkerProcess(v) \/ WorkerFlush(v)
         /\ dq'[v] = dq[v] \/ \E c \in Cells : WorkerSend(v, c)
<1> USE DEF TypeOK, aggVars, readVars, callerData, channels
<1>1. CASE WorkerProcess(v) \/ WorkerFlush(v)
  BY <1>1 DEF WorkerProcess, WorkerFlush
<1>2. CASE WorkerAck(v) \/ WorkerReturns(v)
  BY <1>2 DEF WorkerAck, WorkerReturns
<1>3. CASE WorkerSendFails(v) \/ WorkerPanic(v)
  BY <1>3 DEF WorkerSendFails, WorkerPanic, WorkerDies
<1>4. CASE \E c \in Cells : WorkerSend(v, c)
  BY <1>4 DEF WorkerSend
<1> QED
  BY <1>1, <1>2, <1>3, <1>4 DEF WorkerStep

\* The aggregator takes deltas, answers the drain and moves tau.
LEMMA AggFrame ==
  ASSUME AggStep \/ AggPanic
  PROVE  /\ UNCHANGED <<pc, step, accepted, closed, quiet, inq, acks, wpc, held, out, rpc, reads>>
         /\ faults' = faults \/ (AggPanic /\ faults' = faults + 1)
         /\ tau' = tau \/ AggAdjust
         /\ control' = control \/ AggEndSweep
BY DEF AggStep, AggApply, AggPass, AggAdjust, AggEndSweep, AggPanic, workerVars, readVars, callerData, channels

\* A reader changes nothing but its own place, and nobody at all changes nothing.
LEMMA ReaderFrame ==
  ASSUME (\E r \in Readers : ReadUpgrade(r) \/ ReadStep(r)) \/ UNCHANGED vars
  PROVE  /\ UNCHANGED <<pc, step, accepted, closed, quiet, inq, acks, control, dq, wpc, held, out>>
         /\ UNCHANGED <<apc, sweep, connected, progress, tau, parent, faults>>
BY DEF ReadUpgrade, ReadStep, ReadLock, ReadDone, Moves, vars, channels, threads, workerVars,
       aggVars, readVars, callerData

-----------------------------------------------------------------------------
(* How much a worker holds back *)

TauTop == IF Adaptive /\ MaxTau > InitTau THEN MaxTau ELSE InitTau

LEMMA IdsFinite ==
  ASSUME NEW S \in SUBSET Ids
  PROVE  IsFiniteSet(S) /\ Cardinality(S) \in Nat
<1>1. IsFiniteSet(Ids)
  BY FS_Interval, SizeAssumption DEF Ids
<1>2. IsFiniteSet(S)
  BY <1>1, FS_Subset
<1> QED
  BY <1>2, FS_CardinalityType

\* Only the controller moves tau, and it clamps it.
LEMMA TauStep == TypeOK /\ tau <= TauTop /\ [Next]_vars => tau' <= TauTop
<1> SUFFICES ASSUME TypeOK, tau <= TauTop, [Next]_vars PROVE tau' <= TauTop
  OBVIOUS
<1>1. CASE AggAdjust
  <2>1. tau \in Int /\ MinTau \in Int /\ MaxTau \in Int /\ MinTau <= MaxTau
    BY TauAssumption DEF TypeOK
  <2>2. \A t \in Int : Clamp(t) <= MaxTau
    BY <2>1 DEF Clamp
  <2>3. tau' = tau \/ (Adaptive /\ tau' <= MaxTau /\ tau' \in Int)
    <3>1. Clamp(tau - 1) \in Int /\ Clamp(tau) \in Int /\ Clamp(tau + 1) \in Int
      BY <2>1 DEF Clamp
    <3> QED
      BY <1>1, <2>1, <2>2, <3>1 DEF AggAdjust
  <2> QED
    BY <2>1, <2>3, TauAssumption DEF TauTop
<1>2. CASE ~AggAdjust
  <2>1. tau' = tau
    BY <1>2, CallerFrame, WorkerFrame, AggFrame, ReaderFrame DEF Next
  <2> QED
    BY <2>1
<1> QED
  BY <1>1, <1>2

\* A counter that reaches the threshold is promoted in the same call, so what
\* is left stands below it.
LEMMA CounterStep ==
  TypeOK /\ TypeOK' /\ tau <= TauTop /\ CounterBelowTau /\ [Next]_vars => CounterBelowTau'
<1> SUFFICES ASSUME TypeOK, TypeOK', tau <= TauTop, [Next]_vars, NEW w \in Workers, NEW c \in Cells,
                    Cardinality(held[w][c]) < TauTop
             PROVE  Cardinality(held'[w][c]) < TauTop
  BY DEF CounterBelowTau, TauTop
<1>a. TauTop \in Nat /\ 1 <= TauTop /\ tau \in Nat
  BY TauAssumption DEF TauTop, TypeOK
<1>b. Cardinality({}) = 0
  BY FS_EmptySet
<1>1. CASE WorkerProcess(w)
  <2> DEFINE i      == Head(inq[w]).id
             counts == Counted(w, i)
             full   == Promoted(counts, i)
  <2>1. held' = [held EXCEPT ![w] = Without(counts, full)]
    BY <1>1 DEF WorkerProcess
  <2>2. held'[w] = Without(counts, full)
    BY <2>1 DEF TypeOK
  <2>3. held'[w][c] = IF c \in full THEN {} ELSE counts[c]
    BY <2>2 DEF Without
  <2>4. CASE c \in full
    BY <2>3, <2>4, <1>a, <1>b
  <2>5. CASE c \notin full /\ c \in CellsOf[accepted[i].key]
    <3>1. ~(Cardinality(counts[c]) >= Promask)
      BY <2>5 DEF Promoted
    <3>2. held'[w][c] \in SUBSET Ids
      BY DEF TypeOK
    <3>3. Cardinality(held'[w][c]) \in Nat
      BY <3>2, IdsFinite
    <3>4. Promask \in Nat /\ Promask <= TauTop
      BY <1>a, TauAssumption DEF Promask
    <3> QED
      BY <3>1, <3>3, <3>4, <2>3, <2>5, <1>a
  <2>6. CASE c \notin full /\ c \notin CellsOf[accepted[i].key]
    BY <2>3, <2>6 DEF Counted
  <2> QED
    BY <2>4, <2>5, <2>6
<1>2. CASE WorkerFlush(w)
  <2>1. held'[w][c] = {}
    BY <1>2 DEF WorkerFlush, TypeOK, NoCounts
  <2> QED
    BY <2>1, <1>a, <1>b
<1>3. CASE ~WorkerProcess(w) /\ ~WorkerFlush(w)
  <2>1. CASE \E v \in Workers : WorkerStep(v) \/ WorkerPanic(v)
    <3>1. PICK v \in Workers : WorkerStep(v) \/ WorkerPanic(v)
      BY <2>1
    <3>2. held'[w] = held[w]
      BY <1>3, <3>1, WorkerFrame
    <3> QED
      BY <3>2
  <2>2. CASE \/ Call \/ CallerStep \/ AggStep \/ AggPanic
             \/ (\E r \in Readers : ReadUpgrade(r) \/ ReadStep(r)) \/ UNCHANGED vars
    <3>1. held' = held
      BY <2>2, CallerFrame, AggFrame, ReaderFrame
    <3> QED
      BY <3>1
  <2> QED
    BY <2>1, <2>2 DEF Next
<1> QED
  BY <1>1, <1>2, <1>3

\* No counter of a worker ever reaches the largest threshold tau has had,
\* however the controller moves it between two inserts (insert_hashes_emit_delta
\* promotes at the threshold it read, which is clamped to a byte).
THEOREM CounterBelowTauCorrect == Spec => []CounterBelowTau
<1>1. Init => TypeOK /\ tau <= TauTop /\ CounterBelowTau
  <2> SUFFICES ASSUME Init PROVE tau <= TauTop /\ CounterBelowTau
    BY TypeInit
  <2>1. TauTop \in Nat /\ InitTau <= TauTop /\ 0 < TauTop
    BY TauAssumption DEF TauTop
  <2>2. \A w \in Workers, c \in Cells : held[w][c] = {}
    BY DEF Init, NoCounts
  <2>3. Cardinality({}) = 0
    BY FS_EmptySet
  <2> QED
    BY <2>1, <2>2, <2>3 DEF Init, CounterBelowTau, TauTop
<1>2. TypeOK /\ TypeOK' /\ (tau <= TauTop /\ CounterBelowTau) /\ [Next]_vars => (tau <= TauTop /\ CounterBelowTau)'
  <2>1. TauTop' = TauTop
    BY DEF TauTop
  <2> QED
    BY <2>1, TauStep, CounterStep
<1> QED
  BY <1>1, <1>2, TypeCorrect, PTL DEF Spec

-----------------------------------------------------------------------------
(* The rounds of a flush: who still owes an answer, and what the caller may  *)
(* conclude from the answers it has                                          *)

\* A thread is broken only by a panic, or by the drop of the runtime; a reader
\* has asked; and a runtime that could not take its parent back had finished.
Causes ==
  /\ apc = "panicked" => faults > 0
  /\ \A w \in Workers : /\ wpc[w] = "panicked" => faults > 0
                        /\ wpc[w] = "orphaned" => CallerGone
  /\ pc = "failed" => faults > 0
  /\ \A r \in Readers : rpc[r] # "idle" => reads > 0
  /\ pc = "pinned" => /\ reads > 0 /\ apc = "done"
                      /\ \A w \in Workers : wpc[w] = "stopped"

\* The workers that still owe the running flush an acknowledgement.
Owing == {w \in Workers : wpc[w] = "flush" \/ \E p \in 1..Len(inq[w]) : inq[w][p] = FlushMsg}

\* A Flush message is the last of its queue, and the worker that took it has
\* nothing else to do.
FlushLast == \A w \in Workers :
  /\ \A p \in 1..Len(inq[w]) : inq[w][p] = FlushMsg => p = Len(inq[w])
  /\ wpc[w] = "flush" => inq[w] = <<>> /\ held[w] = NoCounts

\* Nothing of worker w is short of its delta queue.
Dry(w) ==
  /\ wpc[w] # "panicked" /\ held[w] = NoCounts /\ out[w] = NoCounts
  /\ \A p \in 1..Len(inq[w]) : inq[w][p].type # "data"

\* Of the workers of S, sent their Flush, n are yet to be heard by the caller:
\* an acknowledgement that is missing has died with its worker, and if none is
\* missing every worker that answered is dry.
Answered(S, n) ==
  /\ Owing \subseteq S
  /\ acks + Cardinality(Owing) <= n
  /\ faults = 0 => acks + Cardinality(Owing) = n
  /\ acks + Cardinality(Owing) = n => \A w \in S : w \in Owing \/ Dry(w)

FlushRound ==
  /\ pc = "flushSend" => Answered(1..(step - 1), step - 1)
  /\ pc = "flushAck" => Answered(Workers, NumWorkers - step + 1)
  /\ ~CallerGone /\ pc \notin {"flushSend", "flushAck"} => Owing = {}
  /\ pc \in {"drainSend", "drainWait"} => \A w \in Workers : Dry(w)

Rounds == Causes /\ FlushLast /\ FlushRound

LEMMA WorkersFinite ==
  ASSUME NEW S \in SUBSET Workers
  PROVE  IsFiniteSet(S) /\ Cardinality(S) \in Nat
<1>1. IsFiniteSet(Workers)
  BY FS_Interval, SizeAssumption DEF Workers
<1> QED
  BY <1>1, FS_Subset, FS_CardinalityType

\* The three kinds of message are told apart by their type.
LEMMA KindOfMessage ==
  ASSUME NEW m \in Messages
  PROVE  /\ m.type = "flush" <=> m = FlushMsg
         /\ m.type = "end" <=> m = EndMsg
         /\ m.type \in {"data", "flush", "end"}
<1>1. CASE \E i \in Ids : m = DataMsg(i)
  BY <1>1 DEF DataMsg, FlushMsg, EndMsg
<1>2. CASE m = FlushMsg
  BY <1>2 DEF FlushMsg, EndMsg
<1>3. CASE m = EndMsg
  BY <1>3 DEF FlushMsg, EndMsg
<1> QED
  BY <1>1, <1>2, <1>3 DEF Messages

\* What taking the head of a queue leaves in it.
LEMMA TakeHead ==
  ASSUME TypeOK, NEW v \in Workers, inq[v] # <<>>, inq' = [inq EXCEPT ![v] = Tail(@)]
  PROVE  /\ Len(inq[v]) \in Nat /\ 1 <= Len(inq[v]) /\ 1 \in 1..Len(inq[v])
         /\ Head(inq[v]) = inq[v][1] /\ inq[v][1] \in Messages /\ Len(inq'[v]) = Len(inq[v]) - 1
         /\ \A p \in 1..Len(inq'[v]) : p + 1 \in 1..Len(inq[v]) /\ inq'[v][p] = inq[v][p + 1]
         /\ \A p \in 1..Len(inq[v]) : p # 1 => p - 1 \in 1..Len(inq'[v]) /\ inq'[v][p - 1] = inq[v][p]
<1>1. inq[v] \in Seq(Messages) /\ inq'[v] = Tail(inq[v])
  BY DEF TypeOK
<1>2. /\ Len(inq[v]) \in Nat /\ 1 <= Len(inq[v])
      /\ Head(inq[v]) = inq[v][1] /\ Len(inq'[v]) = Len(inq[v]) - 1
      /\ \A p \in 1..(Len(inq[v]) - 1) : inq'[v][p] = inq[v][p + 1]
  BY <1>1, TailHas
<1>3. \A p \in 1..Len(inq[v]) : inq[v][p] \in Messages
  BY <1>1, ElementOf
<1> QED
  BY <1>2, <1>3

\* What a worker's steps do to those that owe an answer: an acknowledgement
\* pays, a death defaults, and nothing else matters.
LEMMA OwingWorker ==
  ASSUME TypeOK, TypeOK', Endings, FlushLast, NEW v \in Workers, WorkerStep(v) \/ WorkerPanic(v)
  PROVE  /\ WorkerAck(v) => v \in Owing /\ Owing' = Owing \ {v}
         /\ WorkerDies(v) => Owing' = Owing \ {v}
         /\ ~WorkerAck(v) /\ ~WorkerDies(v) => Owing' = Owing
<1> DEFINE Owes(w) == wpc[w] = "flush" \/ \E p \in 1..Len(inq[w]) : inq[w][p] = FlushMsg
<1>1. \A w \in Workers : w # v => (Owes(w)' <=> Owes(w))
  BY WorkerFrame
<1>2. \A w \in Workers : w \in Owing <=> Owes(w)
  BY DEF Owing
<1>3. \A w \in Workers : w \in Owing' <=> Owes(w)'
  BY DEF Owing
<1>4. Owing \subseteq Workers /\ Owing' \subseteq Workers
  BY DEF Owing
<1>5. CASE WorkerAck(v)
  <2>1. Owes(v) /\ inq' = inq /\ inq[v] = <<>> /\ wpc'[v] = "run"
    BY <1>5 DEF WorkerAck, FlushLast, TypeOK
  <2>2. ~Owes(v)'
    BY <2>1
  <2>3. ~WorkerDies(v)
    BY <2>1 DEF WorkerDies, TypeOK
  <2> QED
    BY <1>1, <1>2, <1>3, <1>4, <1>5, <2>1, <2>2, <2>3
<1>6. CASE WorkerDies(v)
  <2>1. inq'[v] = <<>> /\ wpc'[v] = "panicked"
    BY <1>6 DEF WorkerDies, TypeOK
  <2>2. ~Owes(v)'
    BY <2>1
  <2>3. ~WorkerAck(v)
    BY <2>1 DEF WorkerAck, TypeOK
  <2> QED
    BY <1>1, <1>2, <1>3, <1>4, <1>6, <2>2, <2>3
<1>7. CASE WorkerProcess(v)
  <2>1. /\ inq[v] # <<>> /\ inq' = [inq EXCEPT ![v] = Tail(@)] /\ Head(inq[v]).type = "data"
        /\ wpc' = wpc /\ wpc[v] = "run"
    BY <1>7 DEF WorkerProcess, Receives
  <2>a. /\ \A p \in 1..Len(inq'[v]) : p + 1 \in 1..Len(inq[v]) /\ inq'[v][p] = inq[v][p + 1]
        /\ \A p \in 1..Len(inq[v]) : p # 1 => p - 1 \in 1..Len(inq'[v]) /\ inq'[v][p - 1] = inq[v][p]
        /\ Head(inq[v]) = inq[v][1]
    BY <2>1, TakeHead
  <2>2. inq[v][1] # FlushMsg
    BY <2>1, <2>a DEF FlushMsg
  <2>3. Owes(v)' <=> Owes(v)
    BY <2>1, <2>2, <2>a
  <2>4. ~WorkerAck(v) /\ ~WorkerDies(v)
    BY <2>1 DEF WorkerAck, WorkerDies, TypeOK
  <2> QED
    BY <1>1, <1>2, <1>3, <1>4, <2>3, <2>4
<1>8. CASE WorkerFlush(v)
  <2>1. PICK t \in {"flush", "end"} : Receives(v, t) /\ wpc' = [wpc EXCEPT ![v] = t]
    BY <1>8 DEF WorkerFlush
  <2>2. /\ inq[v] # <<>> /\ inq' = [inq EXCEPT ![v] = Tail(@)] /\ Head(inq[v]).type = t
        /\ wpc[v] = "run" /\ wpc'[v] = t
    BY <1>8, <2>1 DEF WorkerFlush, Receives, TypeOK
  <2>3. ~WorkerAck(v) /\ ~WorkerDies(v)
    BY <2>2 DEF WorkerAck, WorkerDies, TypeOK
  <2>4. CASE t = "flush"
    <3>a. inq[v][1].type = "flush" /\ inq[v][1] \in Messages /\ 1 \in 1..Len(inq[v])
      BY <2>2, <2>4, TakeHead
    <3>1. inq[v][1] = FlushMsg /\ 1 \in 1..Len(inq[v])
      BY <3>a, KindOfMessage
    <3>2. Owes(v) /\ Owes(v)'
      BY <2>2, <2>4, <3>1
    <3> QED
      BY <1>1, <1>2, <1>3, <1>4, <2>3, <3>2
  <2>5. CASE t = "end"
    <3>a. inq[v][1].type = "end" /\ inq[v][1] \in Messages /\ 1 \in 1..Len(inq[v]) /\ Len(inq'[v]) = Len(inq[v]) - 1
      BY <2>2, <2>5, TakeHead
    <3>1. inq[v][1] = EndMsg /\ 1 \in 1..Len(inq[v])
      BY <3>a, KindOfMessage
    <3>b. 1 = Len(inq[v])
      BY <3>1 DEF Endings
    <3>2. Len(inq[v]) = 1 /\ Len(inq'[v]) = 0
      BY <3>a, <3>b
    <3>3. EndMsg # FlushMsg
      BY DEF EndMsg, FlushMsg
    <3>4. ~Owes(v)
      BY <2>2, <3>1, <3>2, <3>3
    <3>5. ~Owes(v)'
      BY <2>2, <2>5, <3>2
    <3> QED
      BY <1>1, <1>2, <1>3, <1>4, <2>3, <3>4, <3>5
  <2> QED
    BY <2>4, <2>5
<1>9. CASE WorkerReturns(v) \/ \E c \in Cells : WorkerSend(v, c)
  <2>1. /\ inq' = inq
        /\ wpc'[v] # "panicked"
        /\ wpc'[v] = wpc[v] \/ (wpc[v] # "flush" /\ wpc'[v] # "flush")
    BY <1>9 DEF WorkerReturns, WorkerSend, WorkerGone, channels, TypeOK
  <2>2. Owes(v)' <=> Owes(v)
    BY <2>1
  <2>3. ~WorkerDies(v)
    BY <2>1 DEF WorkerDies, TypeOK
  <2>4. ~WorkerAck(v)
    BY <1>9 DEF WorkerReturns, WorkerSend, WorkerAck, NextOut, AllSent, NoCounts, TypeOK
  <2> QED
    BY <1>1, <1>2, <1>3, <1>4, <2>2, <2>3, <2>4
<1> QED
  BY <1>5, <1>6, <1>7, <1>8, <1>9 DEF WorkerStep, WorkerSendFails, WorkerPanic

\* A dry worker stays dry until the next insert.
LEMMA DryWorker ==
  ASSUME TypeOK, TypeOK', NEW v \in Workers, WorkerStep(v) \/ WorkerPanic(v), NEW w \in Workers, Dry(w)
  PROVE  Dry(w)' /\ (w = v => ~WorkerDies(v))
<1>1. CASE w # v
  BY <1>1, WorkerFrame DEF Dry
<1>2. CASE w = v
  <2>1. ~WorkerProcess(v) /\ ~WorkerPanic(v)
    <3>1. ASSUME Receives(v, "data") PROVE FALSE
      <4>1. inq[v] \in Seq(Messages) /\ inq[v] # <<>> /\ Head(inq[v]).type = "data"
        BY <3>1 DEF Receives, TypeOK
      <4>2. 1 \in 1..Len(inq[v]) /\ inq[v][1].type = "data"
        BY <4>1, TailHas
      <4> QED
        BY <4>2, <1>2 DEF Dry
    <3> QED
      BY <3>1 DEF WorkerProcess, WorkerPanic
  <2>2. ~WorkerSendFails(v) /\ \A c \in Cells : ~WorkerSend(v, c)
    BY <1>2 DEF WorkerSendFails, WorkerSend, NextOut, Dry, AllSent, NoCounts
  <2>3. CASE WorkerFlush(v)
    <3>1. /\ inq[v] # <<>> /\ inq' = [inq EXCEPT ![v] = Tail(@)]
          /\ held'[v] = NoCounts /\ out'[v] = NoCounts /\ wpc'[v] # "panicked"
      BY <2>3, <1>2 DEF WorkerFlush, Receives, TypeOK, Dry, Residue
    <3>2. \A p \in 1..Len(inq'[v]) : inq'[v][p].type # "data"
      BY <3>1, <1>2, TakeHead DEF Dry
    <3>3. ~WorkerDies(v)
      BY <3>1 DEF WorkerDies, TypeOK
    <3> QED
      BY <1>2, <3>1, <3>2, <3>3 DEF Dry
  <2>4. CASE WorkerAck(v) \/ WorkerReturns(v)
    <3>1. UNCHANGED <<inq, held, out>> /\ wpc'[v] # "panicked"
      BY <2>4 DEF WorkerAck, WorkerReturns, TypeOK, channels
    <3>2. ~WorkerDies(v)
      BY <3>1 DEF WorkerDies, TypeOK
    <3> QED
      BY <1>2, <3>1, <3>2 DEF Dry
  <2> QED
    BY <2>1, <2>2, <2>3, <2>4 DEF WorkerStep
<1> QED
  BY <1>1, <1>2

\* A dead aggregator is a panicked one as long as some worker runs.
LEMMA DeadAggregator ==
  ASSUME TypeOK, Closings, Causes, AggGone, NEW v \in Workers, ~WorkerGone(v)
  PROVE  faults > 0
BY DEF AggGone, Closings, Causes

\* Whatever a worker does, the answers the caller can still get are either all
\* it waits for, or some died with their workers.
LEMMA AnsweredWorker ==
  ASSUME TypeOK, TypeOK', Endings, Closings, Causes, FlushLast,
         NEW v \in Workers, WorkerStep(v) \/ WorkerPanic(v),
         NEW S \in SUBSET Workers, NEW n \in Int, Answered(S, n)
  PROVE  Answered(S, n)'
<1> DEFINE k == Cardinality(Owing)
<1>1. Owing \in SUBSET Workers /\ Owing' \in SUBSET Workers
  BY DEF Owing
<1>2. IsFiniteSet(Owing) /\ k \in Nat /\ k' \in Nat /\ acks \in Nat /\ acks' \in Nat /\ faults \in Nat
  BY <1>1, WorkersFinite DEF TypeOK
<1>3. \A w \in Workers : Dry(w) => Dry(w)'
  BY DryWorker
<1>4. CASE WorkerAck(v)
  <2>1. v \in Owing /\ Owing' = Owing \ {v}
    BY <1>4, OwingWorker
  <2>2. k' = k - 1
    BY <1>2, <2>1, FS_RemoveElement
  <2>3. acks' = acks + 1 /\ faults' = faults
    BY <1>4 DEF WorkerAck
  <2>4. Dry(v)'
    <3>1. /\ UNCHANGED <<inq, held, out>> /\ wpc'[v] = "run"
          /\ inq[v] = <<>> /\ held[v] = NoCounts /\ out[v] = NoCounts
      BY <1>4 DEF WorkerAck, FlushLast, AllSent, TypeOK
    <3> QED
      BY <3>1 DEF Dry
  <2>5. acks' + k' = acks + k
    BY <1>2, <2>2, <2>3
  <2>6. ASSUME acks' + k' = n, NEW w \in S PROVE w \in Owing' \/ Dry(w)'
    <3>1. w \in Owing \/ Dry(w)
      BY <2>5, <2>6 DEF Answered
    <3> QED
      BY <3>1, <2>1, <2>4, <1>3
  <2> QED
    BY <2>1, <2>3, <2>5, <2>6 DEF Answered
<1>5. CASE WorkerDies(v)
  <2>1. Owing' = Owing \ {v} /\ ~WorkerAck(v)
    <3>1. wpc'[v] = "panicked"
      BY <1>5 DEF WorkerDies, TypeOK
    <3>2. ~WorkerAck(v)
      BY <3>1 DEF WorkerAck, TypeOK
    <3> QED
      BY <1>5, <3>2, OwingWorker
  <2>2. acks' = acks
    BY <2>1, WorkerFrame
  <2>3. faults' > 0
    <3>1. CASE WorkerPanic(v)
      BY <3>1, <1>2 DEF WorkerPanic
    <3>2. CASE WorkerSendFails(v)
      <4>1. AggGone /\ ~WorkerGone(v) /\ faults' = faults
        BY <3>2 DEF WorkerSendFails
      <4> QED
        BY <4>1, DeadAggregator
    <3>3. CASE WorkerStep(v) /\ ~WorkerSendFails(v)
      <4>1. wpc'[v] # "panicked"
        BY <3>3, <1>5 DEF WorkerStep, WorkerProcess, WorkerFlush, WorkerAck, WorkerReturns, WorkerSend,
                          Receives, WorkerGone, TypeOK
      <4> QED
        BY <4>1, <1>5 DEF WorkerDies, TypeOK
    <3> QED
      BY <3>1, <3>2, <3>3
  <2>4. CASE v \in Owing
    <3>1. k' = k - 1
      BY <1>2, <2>1, <2>4, FS_RemoveElement
    <3>2. acks' + k' < n
      BY <1>2, <2>2, <3>1 DEF Answered
    <3> QED
      BY <2>1, <2>3, <3>2, <1>2 DEF Answered
  <2>5. CASE v \notin Owing
    <3>1. Owing' = Owing
      BY <2>1, <2>5
    <3>2. ASSUME acks' + k' = n, NEW w \in S PROVE w \in Owing' \/ Dry(w)'
      BY <3>1, <3>2, <2>2, <1>3 DEF Answered
    <3> QED
      BY <2>2, <2>3, <3>1, <3>2, <1>2 DEF Answered
  <2> QED
    BY <2>4, <2>5
<1>6. CASE ~WorkerAck(v) /\ ~WorkerDies(v)
  <2>1. Owing' = Owing /\ acks' = acks /\ (faults' = 0 => faults = 0)
    <3>1. faults' = faults
      BY <1>6, WorkerFrame DEF WorkerPanic
    <3> QED
      BY <1>6, <3>1, OwingWorker, WorkerFrame
  <2>2. ASSUME acks' + k' = n, NEW w \in S PROVE w \in Owing' \/ Dry(w)'
    BY <2>1, <2>2, <1>3 DEF Answered
  <2> QED
    BY <2>1, <2>2 DEF Answered
<1> QED
  BY <1>4, <1>5, <1>6

\* Appending m to the queue of v: only a Flush makes v owe an answer.
LEMMA OwingAppend ==
  ASSUME TypeOK, NEW v \in Workers, NEW m \in Messages, UNCHANGED wpc,
         inq' = [inq EXCEPT ![v] = Append(@, m)]
  PROVE  Owing' = IF m = FlushMsg THEN Owing \cup {v} ELSE Owing
<1> DEFINE Queued(w) == \E p \in 1..Len(inq[w]) : inq[w][p] = FlushMsg
<1>1. inq[v] \in Seq(Messages) /\ inq'[v] = Append(inq[v], m) /\ \A w \in Workers : w # v => inq'[w] = inq[w]
  BY DEF TypeOK
<1>2. /\ Len(inq[v]) \in Nat /\ Len(inq'[v]) = Len(inq[v]) + 1 /\ inq'[v][Len(inq[v]) + 1] = m
      /\ \A p \in 1..Len(inq[v]) : inq'[v][p] = inq[v][p]
  BY <1>1, AppendHas, ElementOf
<1>3. Queued(v)' <=> Queued(v) \/ m = FlushMsg
  BY <1>2
<1>4. \A w \in Workers : w # v => (Queued(w)' <=> Queued(w))
  BY <1>1
<1>5. /\ \A w \in Workers : w \in Owing <=> wpc[w] = "flush" \/ Queued(w)
      /\ \A w \in Workers : w \in Owing' <=> wpc[w] = "flush" \/ Queued(w)'
      /\ Owing \subseteq Workers /\ Owing' \subseteq Workers
  BY DEF Owing
<1> HIDE DEF Queued
<1> QED
  BY <1>3, <1>4, <1>5

\* A Flush is appended to a queue that holds none.
LEMMA FlushLastAppend ==
  ASSUME TypeOK, FlushLast, NEW v \in Workers, v \notin Owing, NEW m \in Messages, UNCHANGED <<wpc, held>>,
         inq' = [inq EXCEPT ![v] = Append(@, m)]
  PROVE  FlushLast'
<1>1. inq[v] \in Seq(Messages) /\ inq'[v] = Append(inq[v], m) /\ \A w \in Workers : w # v => inq'[w] = inq[w]
  BY DEF TypeOK
<1>2. /\ Len(inq[v]) \in Nat /\ Len(inq'[v]) = Len(inq[v]) + 1 /\ inq'[v][Len(inq[v]) + 1] = m
      /\ \A p \in 1..Len(inq[v]) : inq'[v][p] = inq[v][p]
  BY <1>1, AppendHas, ElementOf
<1>3. wpc[v] # "flush" /\ \A p \in 1..Len(inq[v]) : inq[v][p] # FlushMsg
  BY DEF Owing
<1>4. ASSUME NEW p \in 1..Len(inq'[v]), inq'[v][p] = FlushMsg PROVE p = Len(inq'[v])
  <2>1. p \notin 1..Len(inq[v])
    BY <1>2, <1>3, <1>4
  <2> QED
    BY <1>2, <2>1
<1> SUFFICES ASSUME NEW w \in Workers
             PROVE  /\ \A p \in 1..Len(inq'[w]) : inq'[w][p] = FlushMsg => p = Len(inq'[w])
                    /\ wpc[w] = "flush" => inq'[w] = <<>> /\ held[w] = NoCounts
  BY DEF FlushLast
<1>5. CASE w = v
  BY <1>3, <1>4, <1>5
<1>6. CASE w # v
  BY <1>1, <1>6 DEF FlushLast
<1> QED
  BY <1>5, <1>6

LEMMA FlushLastCaller ==
  ASSUME TypeOK, FlushLast, FlushRound, CallOrder, Call \/ CallerStep
  PROVE  FlushLast'
<1>1. UNCHANGED <<wpc, held>>
  BY CallerFrame
<1>2. CASE inq' = inq
  BY <1>1, <1>2 DEF FlushLast
<1>3. CASE inq' # inq
  <2>1. PICK v \in Workers, m \in Messages : v \notin Owing /\ inq' = [inq EXCEPT ![v] = Append(@, m)]
    <3>1. CASE SendInput
      <4>1. Route(arg) \in Workers /\ DataMsg(Len(accepted) + 1) \in Messages
        <5>1. Len(accepted) + 1 \in Ids
          BY <3>1, SizeAssumption DEF SendInput, TypeOK, Ids
        <5> QED
          BY <5>1, RouteIsWorker DEF Messages, TypeOK
      <4>2. Owing = {}
        BY <3>1 DEF SendInput, FlushRound, CallerGone
      <4> QED
        BY <3>1, <4>1, <4>2 DEF SendInput
    <3>2. CASE SendFlush
      <4>1. step \in Workers /\ Owing \subseteq 1..(step - 1)
        BY <3>2 DEF SendFlush, FlushRound, Answered, TypeOK
      <4>2. step \notin Owing
        BY <4>1 DEF Workers
      <4> QED
        BY <3>2, <4>1, <4>2 DEF SendFlush, Messages
    <3>3. CASE SendEnd
      <4>1. Owing = {}
        BY <3>3 DEF SendEnd, FlushRound, CallerGone
      <4> QED
        BY <3>3, <4>1, <1>3 DEF SendEnd, Messages, TypeOK
    <3>4. CASE ~SendInput /\ ~SendFlush /\ ~SendEnd
      BY <3>4, <1>3 DEF Call, CallerStep, BeginInsert, InsertAfterClose, BeginFlush, Close, Finish, Drop, Leave,
              CollectAck, SendDrain, FlushReturns, JoinWorker, TakeParent, CallPanics, channels
    <3> QED
      BY <3>1, <3>2, <3>3, <3>4
  <2> QED
    BY <2>1, <1>1, FlushLastAppend
<1> QED
  BY <1>2, <1>3

LEMMA FlushLastWorker ==
  ASSUME TypeOK, TypeOK', FlushLast, Endings, NEW v \in Workers, WorkerStep(v) \/ WorkerPanic(v)
  PROVE  FlushLast'
<1> DEFINE Last(w) == /\ \A p \in 1..Len(inq[w]) : inq[w][p] = FlushMsg => p = Len(inq[w])
                      /\ wpc[w] = "flush" => inq[w] = <<>> /\ held[w] = NoCounts
<1>1. \A w \in Workers : Last(w)
  BY DEF FlushLast
<1>2. \A w \in Workers : w # v => Last(w)'
  BY <1>1, WorkerFrame
<1>3. Last(v)'
  <2>1. CASE WorkerProcess(v) \/ WorkerFlush(v)
    <3>1. inq[v] # <<>> /\ inq' = [inq EXCEPT ![v] = Tail(@)] /\ wpc[v] = "run"
      BY <2>1 DEF WorkerProcess, WorkerFlush, Receives
    <3>2. /\ Len(inq[v]) \in Nat /\ Len(inq'[v]) = Len(inq[v]) - 1
          /\ \A p \in 1..Len(inq'[v]) : p + 1 \in 1..Len(inq[v]) /\ inq'[v][p] = inq[v][p + 1]
          /\ Head(inq[v]) = inq[v][1] /\ 1 \in 1..Len(inq[v]) /\ inq[v][1] \in Messages
      BY <3>1, TakeHead
    <3>3. ASSUME NEW p \in 1..Len(inq'[v]), inq'[v][p] = FlushMsg PROVE p = Len(inq'[v])
      <4>1. p + 1 = Len(inq[v])
        BY <3>2, <3>3, <1>1
      <4> QED
        BY <4>1, <3>2
    <3>4. ASSUME wpc'[v] = "flush" PROVE inq'[v] = <<>> /\ held'[v] = NoCounts
      <4>1. WorkerFlush(v) /\ Head(inq[v]).type = "flush"
        BY <2>1, <3>1, <3>4 DEF WorkerProcess, WorkerFlush, Receives, TypeOK
      <4>2. 1 = Len(inq[v])
        BY <4>1, <3>2, <1>1, KindOfMessage
      <4>3. inq'[v] \in Seq(Messages) /\ Len(inq'[v]) = 0
        BY <4>2, <3>2 DEF TypeOK
      <4>4. inq'[v] = <<>>
        BY <4>3
      <4>5. held'[v] = NoCounts
        BY <4>1 DEF WorkerFlush, TypeOK
      <4> QED
        BY <4>4, <4>5
    <3> QED
      BY <3>3, <3>4
  <2>2. CASE WorkerAck(v) \/ WorkerReturns(v) \/ \E c \in Cells : WorkerSend(v, c)
    <3>1. UNCHANGED <<inq, held>> /\ (wpc'[v] = "flush" => wpc[v] = "flush")
      BY <2>2 DEF WorkerAck, WorkerReturns, WorkerSend, channels, TypeOK
    <3> QED
      BY <3>1, <1>1
  <2>3. CASE WorkerSendFails(v) \/ WorkerPanic(v)
    <3>1. inq'[v] = <<>> /\ wpc'[v] = "panicked"
      BY <2>3 DEF WorkerSendFails, WorkerPanic, WorkerDies, TypeOK
    <3> QED
      BY <3>1
  <2> QED
    BY <2>1, <2>2, <2>3 DEF WorkerStep
<1> HIDE DEF Last
<1>4. \A w \in Workers : Last(w)'
  BY <1>2, <1>3
<1> QED
  BY <1>4 DEF Last, FlushLast

\* Dry and Owing speak of the workers alone.
LEMMA RoundSame ==
  ASSUME UNCHANGED <<inq, wpc, held, out>>
  PROVE  Owing' = Owing /\ \A w : Dry(w)' <=> Dry(w)
BY DEF Owing, Dry

\* Control messages leave a dry worker dry.
LEMMA DryAppend ==
  ASSUME TypeOK, NEW v \in Workers, NEW m \in Messages, m.type # "data", UNCHANGED <<wpc, held, out>>,
         inq' = [inq EXCEPT ![v] = Append(@, m)], NEW w \in Workers, Dry(w)
  PROVE  Dry(w)'
<1>1. inq[v] \in Seq(Messages) /\ inq'[v] = Append(inq[v], m) /\ \A u \in Workers : u # v => inq'[u] = inq[u]
  BY DEF TypeOK
<1>2. /\ Len(inq[v]) \in Nat /\ Len(inq'[v]) = Len(inq[v]) + 1 /\ inq'[v][Len(inq[v]) + 1] = m
      /\ \A p \in 1..Len(inq[v]) : inq'[v][p] = inq[v][p]
  BY <1>1, AppendHas, ElementOf
<1>3. \A p \in 1..Len(inq'[w]) : inq'[w][p].type # "data"
  <2>1. CASE w # v
    BY <2>1, <1>1 DEF Dry
  <2>2. CASE w = v
    BY <2>2, <1>2 DEF Dry
  <2> QED
    BY <2>1, <2>2
<1> QED
  BY <1>3 DEF Dry

\* Sending worker k its Flush: k owes an answer from now on.
LEMMA RoundSendFlush ==
  ASSUME TypeOK, TypeOK', FlushRound, SendFlush
  PROVE  FlushRound'
<1>1. PICK k \in Workers : k = step
  BY DEF TypeOK
<1>2. /\ pc = "flushSend" /\ inq' = [inq EXCEPT ![k] = Append(@, FlushMsg)]
      /\ UNCHANGED <<wpc, held, out, acks, faults>>
      /\ \/ k < NumWorkers /\ step' = k + 1 /\ pc' = "flushSend"
         \/ ~(k < NumWorkers) /\ step' = 1 /\ pc' = "flushAck"
  BY <1>1 DEF SendFlush, NextWorker, threads, workerVars
<1>3. Answered(1..(k - 1), k - 1)
  BY <1>1, <1>2 DEF FlushRound
<1>4. FlushMsg \in Messages /\ FlushMsg.type # "data"
  BY DEF Messages, FlushMsg
<1>5. Owing' = Owing \cup {k}
  BY <1>2, <1>4, OwingAppend
<1>6. k \in Nat /\ NumWorkers \in Nat /\ k <= NumWorkers /\ 1 <= k /\ acks \in Nat
  BY SizeAssumption DEF Workers, TypeOK
<1>7. k \notin Owing /\ Owing \in SUBSET Workers
  BY <1>3, <1>6 DEF Answered, Owing
<1>8. Cardinality(Owing') = Cardinality(Owing) + 1 /\ Cardinality(Owing) \in Nat
  BY <1>5, <1>7, WorkersFinite, FS_AddElement
<1>9. \A w \in Workers : Dry(w) => Dry(w)'
  BY <1>2, <1>4, DryAppend
<1>10. Answered(1..k, k)'
  <2>1. Owing' \subseteq 1..k
    BY <1>3, <1>5, <1>6 DEF Answered
  <2>2. ASSUME acks' + Cardinality(Owing') = k, NEW w \in 1..k PROVE w \in Owing' \/ Dry(w)'
    <3>1. acks + Cardinality(Owing) = k - 1
      BY <2>2, <1>2, <1>6, <1>8
    <3>2. w \in 1..(k - 1) \/ w = k
      BY <1>6
    <3>3. w \in Workers
      BY <1>6 DEF Workers
    <3> QED
      BY <3>1, <3>2, <3>3, <1>3, <1>5, <1>9 DEF Answered
  <2>3. acks' + Cardinality(Owing') <= k /\ (faults' = 0 => acks' + Cardinality(Owing') = k)
    BY <1>2, <1>3, <1>6, <1>8 DEF Answered
  <2> QED
    BY <2>1, <2>2, <2>3 DEF Answered
<1>11. CASE k < NumWorkers
  <2>1. 1..(step' - 1) = 1..k /\ step' - 1 = k /\ pc' = "flushSend"
    BY <1>2, <1>6, <1>11
  <2> QED
    BY <2>1, <1>10 DEF FlushRound
<1>12. CASE ~(k < NumWorkers)
  <2>1. 1..k = Workers /\ NumWorkers - step' + 1 = k /\ pc' = "flushAck"
    BY <1>2, <1>6, <1>12 DEF Workers
  <2> QED
    BY <2>1, <1>10 DEF FlushRound
<1> QED
  BY <1>11, <1>12

\* Taking an acknowledgement: the last one tells that all workers are dry.
LEMMA RoundCollectAck ==
  ASSUME TypeOK, TypeOK', FlushRound, CollectAck
  PROVE  FlushRound'
<1>1. PICK k \in Workers : k = step
  BY DEF TypeOK
<1>2. /\ pc = "flushAck" /\ acks > 0 /\ acks' = acks - 1
      /\ UNCHANGED <<inq, wpc, held, out, faults>>
      /\ \/ k < NumWorkers /\ step' = k + 1 /\ pc' = "flushAck"
         \/ ~(k < NumWorkers) /\ step' = 1 /\ pc' = "drainSend"
  BY <1>1 DEF CollectAck, NextWorker, threads, workerVars
<1>3. Answered(Workers, NumWorkers - k + 1)
  BY <1>1, <1>2 DEF FlushRound
<1>4. Owing' = Owing /\ \A w : Dry(w)' <=> Dry(w)
  BY <1>2, RoundSame
<1>5. k \in Nat /\ NumWorkers \in Nat /\ k <= NumWorkers /\ 1 <= k /\ acks \in Nat
  BY SizeAssumption DEF Workers, TypeOK
<1>6. Owing \in SUBSET Workers
  BY DEF Owing
<1>7. IsFiniteSet(Owing) /\ Cardinality(Owing) \in Nat
  BY <1>6, WorkersFinite
<1>8. CASE k < NumWorkers
  <2>1. NumWorkers - step' + 1 = NumWorkers - k /\ pc' = "flushAck"
    BY <1>2, <1>5, <1>8
  <2>2. acks' + Cardinality(Owing') = acks + Cardinality(Owing) - 1
    BY <1>2, <1>4, <1>5, <1>7
  <2>3. Answered(Workers, NumWorkers - k)'
    <3>1. /\ acks' + Cardinality(Owing') <= NumWorkers - k
          /\ faults' = 0 => acks' + Cardinality(Owing') = NumWorkers - k
      BY <1>2, <1>3, <1>5, <1>7, <2>2 DEF Answered
    <3>2. acks' + Cardinality(Owing') = NumWorkers - k => acks + Cardinality(Owing) = NumWorkers - k + 1
      BY <1>5, <1>7, <2>2
    <3> QED
      BY <3>1, <3>2, <1>3, <1>4 DEF Answered
  <2> QED
    BY <2>1, <2>3 DEF FlushRound
<1>9. CASE ~(k < NumWorkers)
  <2>1. NumWorkers - k + 1 = 1 /\ pc' = "drainSend"
    BY <1>2, <1>5, <1>9
  <2>2. Cardinality(Owing) = 0 /\ acks + Cardinality(Owing) = 1
    BY <1>2, <1>3, <1>5, <1>7, <2>1 DEF Answered
  <2>3. Owing = {}
    BY <2>2, <1>7, FS_EmptySet
  <2>4. \A w \in Workers : Dry(w)
    BY <1>3, <2>1, <2>2, <2>3 DEF Answered
  <2> QED
    BY <2>1, <2>3, <2>4, <1>4 DEF FlushRound
<1> QED
  BY <1>8, <1>9

LEMMA RoundCaller ==
  ASSUME TypeOK, TypeOK', FlushRound, Call \/ CallerStep
  PROVE  FlushRound'
<1>1. UNCHANGED <<wpc, held, out, faults>>
  BY CallerFrame
<1>2. CASE BeginFlush
  <2>1. /\ pc' = "flushSend" /\ step' = 1 /\ acks' = 0 /\ inq' = inq
        /\ ~CallerGone /\ pc \notin {"flushSend", "flushAck"}
    BY <1>2 DEF BeginFlush, Ready, CallerGone
  <2>2. Owing' = {}
    BY <2>1, <1>1, RoundSame DEF FlushRound
  <2>3. Cardinality({}) = 0
    BY FS_EmptySet
  <2>4. 1..(step' - 1) = {} /\ step' - 1 = 0
    BY <2>1
  <2>5. Answered({}, 0)'
    BY <2>1, <2>2, <2>3 DEF Answered
  <2> QED
    BY <2>1, <2>4, <2>5 DEF FlushRound
<1>3. CASE SendFlush
  BY <1>3, RoundSendFlush
<1>4. CASE CollectAck
  BY <1>4, RoundCollectAck
<1>5. CASE SendDrain
  <2>1. pc = "drainSend" /\ pc' = "drainWait" /\ inq' = inq
    BY <1>5 DEF SendDrain
  <2> QED
    BY <2>1, <1>1, RoundSame DEF FlushRound, CallerGone
<1>6. CASE SendInput \/ SendEnd
  <2>1. Owing = {}
    BY <1>6 DEF SendInput, SendEnd, FlushRound, CallerGone
  <2>2. pc' \notin {"flushSend", "flushAck", "drainSend", "drainWait"}
    BY <1>6 DEF SendInput, SendEnd, NextWorker
  <2>3. CASE inq' = inq
    BY <2>1, <2>2, <2>3, <1>1, RoundSame DEF FlushRound
  <2>4. CASE inq' # inq
    <3>1. PICK v \in Workers, m \in Messages : m # FlushMsg /\ inq' = [inq EXCEPT ![v] = Append(@, m)]
      <4>1. CASE SendInput
        <5>1. Route(arg) \in Workers /\ Len(accepted) + 1 \in Ids
          BY <4>1, RouteIsWorker, SizeAssumption DEF SendInput, TypeOK, Ids
        <5>2. DataMsg(Len(accepted) + 1) \in Messages /\ DataMsg(Len(accepted) + 1) # FlushMsg
          BY <5>1 DEF Messages, DataMsg, FlushMsg
        <5> QED
          BY <4>1, <5>1, <5>2 DEF SendInput
      <4>2. CASE SendEnd
        <5>1. EndMsg \in Messages /\ EndMsg # FlushMsg
          BY DEF Messages, EndMsg, FlushMsg
        <5> QED
          BY <4>2, <2>4, <5>1 DEF SendEnd, TypeOK
      <4> QED
        BY <1>6, <4>1, <4>2
    <3>2. Owing' = {}
      BY <3>1, <2>1, <1>1, OwingAppend
    <3> QED
      BY <3>2, <2>2 DEF FlushRound
  <2> QED
    BY <2>3, <2>4
<1>7. CASE CallPanics \/ InsertAfterClose \/ Drop \/ TakeParent
  <2>1. CallerGone' /\ pc' \notin {"flushSend", "flushAck", "drainSend", "drainWait"}
    BY <1>7 DEF CallPanics, InsertAfterClose, Drop, TakeParent, Leave, CallerGone
  <2> QED
    BY <2>1 DEF FlushRound
<1>8. CASE (\E k \in Keys : BeginInsert(k)) \/ Close \/ Finish \/ FlushReturns \/ JoinWorker
  <2>1. /\ ~CallerGone /\ pc \notin {"flushSend", "flushAck"} /\ inq' = inq
        /\ pc' \notin {"flushSend", "flushAck", "drainSend", "drainWait"}
    BY <1>8 DEF BeginInsert, Close, Finish, FlushReturns, JoinWorker, Ready, CallerGone, NextWorker, channels
  <2> QED
    BY <2>1, <1>1, RoundSame DEF FlushRound
<1> QED
  BY <1>2, <1>3, <1>4, <1>5, <1>6, <1>7, <1>8 DEF Call, CallerStep

LEMMA RoundWorker ==
  ASSUME TypeOK, TypeOK', Endings, Closings, Causes, FlushLast, FlushRound,
         NEW v \in Workers, WorkerStep(v) \/ WorkerPanic(v)
  PROVE  FlushRound'
<1>1. UNCHANGED <<pc, step>> /\ (CallerGone' <=> CallerGone)
  BY WorkerFrame DEF CallerGone
<1>2. ASSUME pc = "flushSend" PROVE Answered(1..(step - 1), step - 1)'
  <2>a. step \in 1..NumWorkers /\ NumWorkers \in Nat
    BY SizeAssumption DEF TypeOK, Workers
  <2>1. PICK k \in Int : k = step - 1 /\ 1..k \in SUBSET Workers
    BY <2>a DEF Workers
  <2>2. Answered(1..k, k)'
    BY <2>1, <1>2, AnsweredWorker DEF FlushRound
  <2> QED
    BY <2>1, <2>2, <1>1
<1>3. ASSUME pc = "flushAck" PROVE Answered(Workers, NumWorkers - step + 1)'
  <2>1. PICK k \in Int : k = NumWorkers - step + 1
    BY SizeAssumption DEF TypeOK, Workers
  <2>2. Answered(Workers, k)'
    BY <2>1, <1>3, AnsweredWorker DEF FlushRound
  <2> QED
    BY <2>1, <2>2, <1>1
<1>4. Owing = {} => Owing' = {}
  BY OwingWorker
<1>5. \A w \in Workers : Dry(w) => Dry(w)'
  BY DryWorker
<1> QED
  BY <1>1, <1>2, <1>3, <1>4, <1>5 DEF FlushRound

\* Neither the aggregator nor a reader takes part in the round.
LEMMA RoundOthers ==
  ASSUME TypeOK, FlushLast, FlushRound, UNCHANGED <<pc, step, inq, acks, wpc, held, out>>, faults' = faults \/ faults' > 0
  PROVE  FlushLast' /\ FlushRound'
<1>1. FlushLast'
  BY DEF FlushLast
<1>2. Owing' = Owing /\ (\A w : Dry(w)' <=> Dry(w)) /\ (CallerGone' <=> CallerGone)
  BY RoundSame DEF CallerGone
<1>3. \A S, n : Answered(S, n) => Answered(S, n)'
  <2>1. faults' = 0 => faults = 0
    BY DEF TypeOK
  <2> QED
    BY <1>2, <2>1 DEF Answered
<1>4. FlushRound'
  BY <1>2, <1>3 DEF FlushRound
<1> QED
  BY <1>1, <1>4

-----------------------------------------------------------------------------
(* Why calls fail *)

\* Before close no worker has left its loop in good order.
LEMMA GoneIsPanicked ==
  ASSUME IInv, Causes, ~closed, ~CallerGone, NEW w \in Workers, WorkerGone(w)
  PROVE  faults > 0
<1>1. wpc[w] # "stopped"
  BY DEF IInv, Endings, EndSent
<1> QED
  BY <1>1 DEF Causes, WorkerGone

\* A call panics only on a dead thread, and a thread dies only of a panic: an
\* acknowledgement that cannot come is one whose worker has died.
LEMMA PanicHasCause ==
  ASSUME IInv, Causes, FlushRound, CallPanics
  PROVE  faults > 0
<1> USE DEF IInv
<1>1. CASE pc = "insert" /\ WorkerGone(Route(arg))
  <2>1. Route(arg) \in Workers
    BY RouteIsWorker DEF TypeOK
  <2> QED
    BY <1>1, <2>1, GoneIsPanicked DEF CallOrder, CallerGone
<1>2. CASE pc = "flushSend" /\ WorkerGone(step)
  BY <1>2, GoneIsPanicked DEF CallOrder, CallerGone, TypeOK
<1>3. CASE pc = "flushAck" /\ acks = 0 /\ ~AckPending
  <2>1. Owing = {}
    BY <1>3 DEF Owing, AckPending
  <2>2. Cardinality(Owing) = 0
    BY <2>1, FS_EmptySet
  <2>3. Answered(Workers, NumWorkers - step + 1)
    BY <1>3 DEF FlushRound
  <2>4. step \in 1..NumWorkers /\ NumWorkers \in Nat /\ faults \in Nat
    BY SizeAssumption DEF TypeOK, Workers
  <2>5. NumWorkers - step + 1 # 0
    BY <2>4
  <2> QED
    BY <1>3, <2>2, <2>3, <2>4, <2>5 DEF Answered
<1>4. CASE pc \in {"drainSend", "drainWait"} /\ AggGone
  <2>1. ~closed /\ ~CallerGone
    BY <1>4 DEF CallOrder, CallerGone
  <2>2. CASE apc = "panicked"
    BY <2>2 DEF Causes
  <2>3. CASE apc = "done"
    <3>1. 1 \in Workers
      BY SizeAssumption DEF Workers
    <3>2. WorkerGone(1)
      BY <2>3, <3>1 DEF Closings
    <3> QED
      BY <2>1, <3>1, <3>2, GoneIsPanicked
  <2> QED
    BY <1>4, <2>2, <2>3 DEF AggGone
<1>5. CASE \/ pc = "join" /\ wpc[step] = "panicked"
           \/ pc = "joinAgg" /\ apc = "panicked"
  BY <1>5 DEF Causes, TypeOK
<1> QED
  BY <1>1, <1>2, <1>3, <1>4, <1>5 DEF CallPanics

LEMMA CausesCaller ==
  ASSUME IInv, Causes, FlushRound, Call \/ CallerStep
  PROVE  Causes'
<1>1. UNCHANGED <<wpc, apc, rpc, reads, faults>>
  BY CallerFrame
<1>2. ~CallerGone
  BY DEF Call, CallerStep, BeginInsert, InsertAfterClose, BeginFlush, Close, Finish, Drop, Ready,
         SendInput, SendFlush, CollectAck, SendDrain, FlushReturns, SendEnd, JoinWorker, TakeParent,
         CallPanics, CallerGone
<1>3. \A w \in Workers : wpc[w] # "orphaned"
  BY <1>2 DEF Causes
<1>4. CASE CallPanics
  <2>1. pc' = "failed" /\ faults > 0
    BY <1>4, PanicHasCause DEF CallPanics, Leave
  <2> QED
    BY <2>1, <1>1, <1>3 DEF Causes
<1>5. CASE TakeParent
  <2>1. /\ pc = "joinAgg" /\ apc = "done" /\ pc' \in {"pinned", "done"}
        /\ pc' = "pinned" => \E r \in Readers : rpc[r] \in {"holding", "reading"}
    BY <1>5 DEF TakeParent, Leave, AggJoined
  <2>2. \A w \in Workers : wpc[w] = "stopped"
    BY <2>1 DEF IInv, CallOrder
  <2>3. pc' = "pinned" => reads > 0
    BY <2>1 DEF Causes
  <2> QED
    BY <2>1, <2>2, <2>3, <1>1, <1>3 DEF Causes
<1>6. CASE ~CallPanics /\ ~TakeParent
  <2>1. pc' # "failed" /\ pc' # "pinned"
    BY <1>6, <1>2 DEF Call, CallerStep, BeginInsert, InsertAfterClose, BeginFlush, Close, Finish, Drop, Leave,
           SendInput, SendFlush, CollectAck, SendDrain, FlushReturns, SendEnd, JoinWorker, NextWorker, CallerGone
  <2> QED
    BY <2>1, <1>1, <1>3 DEF Causes
<1> QED
  BY <1>4, <1>5, <1>6

LEMMA CausesWorker ==
  ASSUME IInv, Causes, NEW v \in Workers, WorkerStep(v) \/ WorkerPanic(v)
  PROVE  Causes'
<1>1. /\ UNCHANGED <<pc, apc, rpc, reads>>
      /\ \A w \in Workers : w # v => wpc'[w] = wpc[w]
      /\ faults' = faults \/ (WorkerPanic(v) /\ faults' = faults + 1)
  BY WorkerFrame DEF IInv
<1>2. faults \in Nat
  BY DEF IInv, TypeOK
<1>3. faults > 0 => faults' > 0
  BY <1>1, <1>2
<1>4. CallerGone' <=> CallerGone
  BY <1>1 DEF CallerGone
<1>5. wpc'[v] = "panicked" => wpc[v] = "panicked" \/ faults' > 0
  <2>1. CASE WorkerPanic(v)
    BY <2>1, <1>2 DEF WorkerPanic
  <2>2. CASE WorkerSendFails(v)
    <3>1. AggGone /\ ~WorkerGone(v) /\ faults' = faults
      BY <2>2 DEF WorkerSendFails
    <3> QED
      BY <3>1, DeadAggregator DEF IInv
  <2>3. CASE WorkerStep(v) /\ ~WorkerSendFails(v)
    BY <2>3 DEF WorkerStep, WorkerProcess, WorkerFlush, WorkerAck, WorkerReturns, WorkerSend, IInv, TypeOK
  <2> QED
    BY <2>1, <2>2, <2>3
<1>6. wpc'[v] = "orphaned" => wpc[v] = "orphaned" \/ CallerGone
  BY DEF WorkerStep, WorkerProcess, WorkerFlush, WorkerAck, WorkerReturns, WorkerSend, WorkerSendFails,
         WorkerPanic, WorkerDies, SenderDropped, IInv, TypeOK
<1>7. wpc[v] = "stopped" => wpc'[v] = "stopped"
  BY DEF WorkerStep, WorkerProcess, WorkerFlush, WorkerAck, WorkerReturns, WorkerSend, WorkerSendFails,
         WorkerPanic, WorkerDies, Receives, WorkerGone, IInv, TypeOK
<1> QED
  BY <1>1, <1>3, <1>4, <1>5, <1>6, <1>7 DEF Causes

LEMMA CausesAggregator ==
  ASSUME IInv, Causes, AggStep \/ AggPanic
  PROVE  Causes' /\ (faults' = faults \/ faults' > 0)
<1>1. /\ UNCHANGED <<pc, wpc, rpc, reads>>
      /\ faults' = faults \/ (AggPanic /\ faults' = faults + 1)
  BY AggFrame
<1>2. faults \in Nat
  BY DEF IInv, TypeOK
<1>3. (faults > 0 => faults' > 0) /\ (faults' = faults \/ faults' > 0)
  BY <1>1, <1>2
<1>4. apc \notin {"done", "panicked"}
  BY DEF AggStep, AggApply, AggPass, AggAdjust, AggEndSweep, AggPanic
<1>5. apc' = "panicked" => faults' > 0
  <2>1. CASE AggPanic
    BY <2>1, <1>2 DEF AggPanic
  <2>2. CASE AggStep
    BY <2>2, <1>4, NextReceiverType DEF AggStep, AggApply, AggPass, AggAdjust, AggEndSweep, IInv
  <2> QED
    BY <2>1, <2>2
<1> QED
  BY <1>1, <1>3, <1>4, <1>5 DEF Causes, CallerGone

LEMMA CausesReader ==
  ASSUME IInv, Causes, (\E r \in Readers : ReadUpgrade(r) \/ ReadStep(r)) \/ UNCHANGED vars
  PROVE  Causes'
<1>1. UNCHANGED <<pc, wpc, apc, faults>>
  BY ReaderFrame
<1>2. reads \in Nat /\ rpc \in [Readers -> {"idle", "holding", "reading", "refused"}]
  BY DEF IInv, TypeOK
<1>3. reads > 0 => reads' > 0
  BY <1>2 DEF ReadUpgrade, ReadStep, ReadLock, ReadDone, vars, threads, readVars
<1>4. \A r \in Readers : rpc'[r] # "idle" => reads' > 0
  <2> SUFFICES ASSUME NEW r \in Readers, rpc'[r] # "idle" PROVE reads' > 0
    OBVIOUS
  <2>1. CASE rpc'[r] = rpc[r]
    BY <2>1, <1>3 DEF Causes
  <2>2. CASE rpc'[r] # rpc[r]
    <3>1. ReadUpgrade(r) \/ ReadStep(r)
      BY <2>2, <1>2 DEF ReadUpgrade, ReadStep, ReadLock, ReadDone, Moves, vars, threads, readVars
    <3>2. CASE ReadUpgrade(r)
      BY <3>2, <1>2 DEF ReadUpgrade
    <3>3. CASE ReadStep(r)
      <4>1. rpc[r] # "idle"
        BY <3>3 DEF ReadStep, ReadLock, ReadDone
      <4> QED
        BY <4>1, <1>3 DEF Causes
    <3> QED
      BY <3>1, <3>2, <3>3
  <2> QED
    BY <2>1, <2>2
<1> QED
  BY <1>1, <1>3, <1>4 DEF Causes, CallerGone

LEMMA RoundsInit == Init => Rounds
<1> SUFFICES ASSUME Init PROVE Rounds
  OBVIOUS
<1>1. \A w \in Workers : wpc[w] = "run" /\ inq[w] = <<>>
  BY DEF Init
<1>2. Owing = {}
  BY <1>1 DEF Owing
<1>3. Causes
  BY DEF Init, Causes
<1>4. FlushLast
  BY <1>1 DEF FlushLast
<1>5. FlushRound
  BY <1>2 DEF Init, FlushRound
<1> QED
  BY <1>3, <1>4, <1>5 DEF Rounds

LEMMA RoundsStep == IInv /\ IInv' /\ Rounds /\ [Next]_vars => Rounds'
<1> SUFFICES ASSUME IInv, IInv', Causes, FlushLast, FlushRound, [Next]_vars
             PROVE  Causes' /\ FlushLast' /\ FlushRound'
  BY DEF Rounds
<1> USE DEF IInv
<1>1. CASE Call \/ CallerStep
  BY <1>1, CausesCaller, FlushLastCaller, RoundCaller
<1>2. CASE \E w \in Workers : WorkerStep(w) \/ WorkerPanic(w)
  BY <1>2, CausesWorker, FlushLastWorker, RoundWorker
<1>3. CASE AggStep \/ AggPanic
  <2>1. Causes' /\ (faults' = faults \/ faults' > 0)
    BY <1>3, CausesAggregator
  <2>2. UNCHANGED <<pc, step, inq, acks, wpc, held, out>>
    BY <1>3, AggFrame
  <2> QED
    BY <2>1, <2>2, RoundOthers
<1>4. CASE (\E r \in Readers : ReadUpgrade(r) \/ ReadStep(r)) \/ UNCHANGED vars
  <2>1. UNCHANGED <<pc, step, inq, acks, wpc, held, out, faults>>
    BY <1>4, ReaderFrame
  <2> QED
    BY <2>1, <1>4, CausesReader, RoundOthers
<1> QED
  BY <1>1, <1>2, <1>3, <1>4 DEF Next

\* The rounds of flush are kept, and every failure has its cause.
THEOREM RoundsCorrect == Spec => []Rounds
BY RoundsInit, RoundsStep, InvariantCorrect, PTL DEF Spec

\* A call panics only if a thread has (a worker's process, or an apply), and
\* finish() is refused the parent only while a query holds it, which then sees
\* the complete parent.
THEOREM FailsForCauseCorrect == Spec => []FailsForCause
<1>1. IInv /\ Rounds => FailsForCause
  <2> SUFFICES ASSUME IInv, Rounds, pc = "pinned" PROVE ParentExact
    BY DEF Rounds, Causes, FailsForCause
  <2> QED
    BY StoppedIsExact DEF Rounds, Causes
<1> QED
  BY <1>1, InvariantCorrect, RoundsCorrect, PTL

-----------------------------------------------------------------------------
(* What two flushes with no insert between them deliver *)

\* A sweep that has taken nothing leaves nothing behind it.
Swept == ~progress =>
  /\ apc = "poll" => \A w \in Workers : w < sweep => dq[w] = <<>>
  /\ apc \in {"adjust", "check"} => \A w \in Workers : dq[w] = <<>>

Settled == apc # "panicked" /\ \A w \in Workers : dq[w] = <<>>

\* The aggregator has answered the drain the caller waits for.
DrainAnswered == pc = "drainWait" /\ control = "acked"

\* From the first flush's answer on nothing enters a delta queue, so the sweep
\* under way began after the queues were filled; the second flush's answer is
\* that of such a sweep.
Drains ==
  /\ apc \in {"adjust", "check"} => sweep = 1
  /\ quiet >= 1 => \A w \in Workers : Dry(w)
  /\ quiet >= 1 \/ DrainAnswered => Swept
  /\ quiet = 2 \/ (quiet >= 1 /\ DrainAnswered) => Settled

LEMMA DrainsCaller ==
  ASSUME IInv, Rounds, Drains, Call \/ CallerStep
  PROVE  Drains'
<1>1. UNCHANGED <<wpc, held, out, dq, apc, sweep, progress>>
  BY CallerFrame
<1>2. (Swept' <=> Swept) /\ (Settled' <=> Settled)
  BY <1>1 DEF Swept, Settled
<1>3. quiet \in 0..2
  BY DEF IInv, TypeOK
<1>4. CASE FlushReturns
  <2>1. DrainAnswered /\ pc' # "drainWait" /\ inq' = inq /\ (quiet' = 2 => quiet >= 1)
    BY <1>3, <1>4 DEF FlushReturns, DrainAnswered
  <2>2. \A w \in Workers : Dry(w)'
    BY <2>1, <1>1, RoundSame DEF DrainAnswered, Rounds, FlushRound
  <2> QED
    BY <2>1, <2>2, <1>1, <1>2 DEF Drains, DrainAnswered
<1>5. CASE SendInput
  <2>1. quiet' = 0 /\ pc' # "drainWait"
    BY <1>5 DEF SendInput
  <2> QED
    BY <2>1, <1>1 DEF Drains, DrainAnswered
<1>6. CASE ~FlushReturns /\ ~SendInput
  <2>1. quiet' = quiet /\ (DrainAnswered' => DrainAnswered)
    BY <1>6 DEF Call, CallerStep, BeginInsert, InsertAfterClose, BeginFlush, Close, Finish, Drop, Leave,
           SendFlush, CollectAck, SendDrain, SendEnd, JoinWorker, TakeParent, CallPanics, NextWorker,
           DrainAnswered, callerData, Ready
  <2>2. ASSUME NEW w \in Workers, Dry(w) PROVE Dry(w)'
    <3>1. CASE inq' = inq
      BY <3>1, <2>2, <1>1, RoundSame
    <3>2. CASE inq' # inq
      <4>1. SendFlush \/ SendEnd
        BY <1>6, <3>2 DEF Call, CallerStep, BeginInsert, InsertAfterClose, BeginFlush, Close, Finish, Drop, Leave,
           CollectAck, SendDrain, JoinWorker, TakeParent, CallPanics, channels
      <4>2. /\ FlushMsg \in Messages /\ EndMsg \in Messages
            /\ FlushMsg.type # "data" /\ EndMsg.type # "data" /\ step \in Workers
        BY DEF Messages, FlushMsg, EndMsg, IInv, TypeOK
      <4>3. CASE SendFlush
        BY <4>2, <4>3, <2>2, <1>1, DryAppend DEF SendFlush, IInv
      <4>4. CASE SendEnd
        BY <4>2, <4>4, <3>2, <2>2, <1>1, DryAppend DEF SendEnd, IInv
      <4> QED
        BY <4>1, <4>3, <4>4
    <3> QED
      BY <3>1, <3>2
  <2> QED
    BY <2>1, <2>2, <1>1, <1>2 DEF Drains
<1> QED
  BY <1>4, <1>5, <1>6

LEMMA DrainsWorker ==
  ASSUME IInv, IInv', Rounds, Drains, NEW v \in Workers, WorkerStep(v) \/ WorkerPanic(v)
  PROVE  Drains'
<1>1. /\ UNCHANGED <<pc, quiet, control, apc, sweep, progress>>
      /\ \A w \in Workers : w # v => dq'[w] = dq[w]
      /\ dq'[v] = dq[v] \/ \E c \in Cells : WorkerSend(v, c)
  BY WorkerFrame DEF IInv
<1>2. \A w \in Workers : Dry(w) => Dry(w)'
  BY DryWorker DEF IInv
<1>3. DrainAnswered' <=> DrainAnswered
  BY <1>1 DEF DrainAnswered
<1>4. ASSUME quiet >= 1 \/ DrainAnswered PROVE \A w \in Workers : dq'[w] = dq[w]
  <2>1. Dry(v)
    BY <1>4 DEF DrainAnswered, Drains, Rounds, FlushRound
  <2>2. \A c \in Cells : ~WorkerSend(v, c)
    BY <2>1 DEF Dry, WorkerSend, NextOut, NoCounts
  <2> QED
    BY <2>2, <1>1
<1>5. quiet = 2 => quiet >= 1
  OBVIOUS
<1>6. quiet >= 1 \/ DrainAnswered => Swept'
  BY <1>1, <1>4 DEF Drains, Swept
<1>7. quiet = 2 \/ (quiet >= 1 /\ DrainAnswered) => Settled'
  BY <1>1, <1>4, <1>5 DEF Drains, Settled
<1> QED
  BY <1>1, <1>2, <1>3, <1>6, <1>7 DEF Drains

LEMMA DrainsAggregator ==
  ASSUME IInv, Drains, AggStep \/ AggPanic
  PROVE  Drains'
<1>1. UNCHANGED <<pc, quiet, inq, wpc, held, out>>
  BY AggFrame
<1>2. \A w \in Workers : Dry(w)' <=> Dry(w)
  BY <1>1, RoundSame
<1>3. sweep \in 1..NumWorkers /\ NumWorkers \in Nat
  BY SizeAssumption DEF IInv, TypeOK, Workers
<1>4. dq \in [Workers -> Seq(Deltas)]
  BY DEF IInv, TypeOK
<1>5. CASE AggEndSweep
  <2>1. /\ apc = "check" /\ sweep' = sweep /\ dq' = dq /\ progress' = FALSE
        /\ apc' \in {"poll", "done"} /\ (control' = control \/ (control' = "acked" /\ ~progress))
    BY <1>5 DEF AggEndSweep, Answers
  <2>2. sweep' = 1
    BY <2>1 DEF Drains
  <2>3. Swept'
    BY <2>1, <2>2 DEF Swept, Workers
  <2>4. CASE quiet >= 1 /\ ~progress
    <3>1. Settled'
      BY <2>1, <2>4 DEF Drains, Swept, Settled
    <3> QED
      BY <3>1, <2>1, <2>2, <2>3, <1>1, <1>2 DEF Drains
  <2>5. CASE ~(quiet >= 1 /\ ~progress)
    <3>1. quiet = 2 \/ (quiet >= 1 /\ DrainAnswered') => quiet = 2 \/ (quiet >= 1 /\ DrainAnswered)
      BY <2>1, <2>5, <1>1 DEF DrainAnswered
    <3>2. Settled => Settled'
      BY <2>1 DEF Settled
    <3> QED
      BY <3>1, <3>2, <2>1, <2>2, <2>3, <1>1, <1>2 DEF Drains
  <2> QED
    BY <2>4, <2>5
<1>6. CASE ~AggEndSweep
  <2>1. control' = control /\ (DrainAnswered' <=> DrainAnswered)
    BY <1>1, <1>6, AggFrame DEF DrainAnswered
  <2>2. apc' \in {"adjust", "check"} => sweep' = 1
    BY <1>3, <1>6 DEF AggStep, AggApply, AggPass, AggAdjust, AggPanic, NextReceiver, Drains
  <2>3. ASSUME Swept PROVE Swept'
    <3>1. CASE AggApply
      BY <3>1 DEF AggApply, Swept
    <3>2. CASE AggPass
      <4>1. dq[sweep] = <<>> /\ sweep \in Workers
        BY <3>2 DEF AggPass, IInv, Closings, TypeOK
      <4>2. /\ apc = "poll" /\ dq' = dq /\ progress' = progress
            /\ \/ sweep < NumWorkers /\ sweep' = sweep + 1 /\ apc' = "poll"
               \/ ~(sweep < NumWorkers) /\ sweep' = 1 /\ apc' = "adjust"
        BY <3>2 DEF AggPass, NextReceiver, channels
      <4>3. ASSUME ~progress, NEW w \in Workers, w <= sweep PROVE dq[w] = <<>>
        <5>1. w < sweep \/ w = sweep
          BY <4>3, <1>3 DEF Workers
        <5> QED
          BY <5>1, <4>1, <4>2, <4>3, <2>3 DEF Swept
      <4>4. CASE sweep < NumWorkers
        <5>1. \A w \in Workers : w < sweep' => w <= sweep
          BY <4>2, <4>4, <1>3 DEF Workers
        <5>2. sweep' = sweep + 1 /\ apc' = "poll"
          BY <4>2, <4>4
        <5> QED
          BY <5>1, <5>2, <4>2, <4>3 DEF Swept
      <4>5. CASE ~(sweep < NumWorkers)
        <5>1. \A w \in Workers : w <= sweep
          BY <4>5, <1>3 DEF Workers
        <5>2. apc' = "adjust"
          BY <4>2, <4>5
        <5> QED
          BY <5>1, <5>2, <4>2, <4>3 DEF Swept
      <4> QED
        BY <4>4, <4>5
    <3>3. CASE AggAdjust
      BY <2>3, <3>3 DEF AggAdjust, Swept, channels
    <3>4. CASE AggPanic
      BY <3>4 DEF AggPanic, Swept
    <3> QED
      BY <1>6, <3>1, <3>2, <3>3, <3>4 DEF AggStep
  <2>4. ASSUME Settled PROVE Settled'
    <3>1. ~AggApply /\ ~AggPanic
      BY <2>4 DEF AggApply, AggPanic, Settled, IInv, TypeOK
    <3>2. dq' = dq /\ apc' # "panicked"
      BY <1>6, <3>1, <2>4, NextReceiverType DEF AggStep, AggPass, AggAdjust, channels, IInv, Settled
    <3> QED
      BY <3>2, <2>4 DEF Settled
  <2> QED
    BY <2>1, <2>2, <2>3, <2>4, <1>1, <1>2 DEF Drains
<1> QED
  BY <1>5, <1>6

LEMMA DrainsStep == IInv /\ IInv' /\ Rounds /\ Drains /\ [Next]_vars => Drains'
<1> SUFFICES ASSUME IInv, IInv', Rounds, Drains, [Next]_vars PROVE Drains'
  OBVIOUS
<1>1. CASE (\E r \in Readers : ReadUpgrade(r) \/ ReadStep(r)) \/ UNCHANGED vars
  <2>1. UNCHANGED <<pc, quiet, inq, control, dq, wpc, held, out, apc, sweep, progress>>
    BY <1>1, ReaderFrame
  <2> QED
    BY <2>1, RoundSame DEF Drains, DrainAnswered, Swept, Settled
<1> QED
  BY <1>1, DrainsCaller, DrainsWorker, DrainsAggregator DEF Next

\* What flush does deliver: after two flushes with no insert between them the
\* parent answers for every accepted input, whatever the sweeps were doing when
\* the first one returned.
THEOREM SecondFlushIsExactCorrect == Spec => []SecondFlushIsExact
<1>1. Init => Drains
  BY DEF Init, Drains, DrainAnswered
<1>2. IInv /\ Rounds /\ Drains => SecondFlushIsExact
  <2> SUFFICES ASSUME IInv, Rounds, Drains, pc = "flushed", quiet = 2 PROVE ParentExact
    BY DEF SecondFlushIsExact
  <2>1. Settled /\ \A w \in Workers : Dry(w)
    BY DEF Drains
  <2>2. \A w \in Workers : Intact(w)
    BY <2>1 DEF Settled, Dry, Intact, Rounds, Causes, CallerGone
  <2>3. \A w \in Workers, c \in Cells, i \in Ids : ~Pending(w, c, i)
    <3>1. \A w \in Workers, i \in Ids : ~InInput(w, i)
      BY <2>1 DEF Dry, InInput, DataMsg
    <3>2. \A w \in Workers, c \in Cells, i \in Ids : ~InDelta(w, c, i)
      BY <2>1 DEF Settled, InDelta
    <3> QED
      BY <3>1, <3>2, <2>1 DEF Pending, Dry, NoCounts
  <2> QED
    BY <2>2, <2>3, EmptiedIsExact
<1> QED
  BY <1>1, <1>2, DrainsStep, InvariantCorrect, RoundsCorrect, PTL DEF Spec

=============================================================================
