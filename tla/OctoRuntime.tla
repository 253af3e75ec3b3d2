------------------------------ MODULE OctoRuntime ------------------------------
(***************************************************************************)
(* The streaming runtime of src/src/sketch_framework/octo.rs running the   *)
(* Count-Min plan: a caller thread, one worker thread per shard and one    *)
(* aggregator thread that owns the parent sketch.                          *)
(*                                                                         *)
(*   caller --inq[w]--> worker w --dq[w]--> aggregator --> parent          *)
(*                                                                         *)
(* Every channel is bounded and a send blocks while its channel is full.   *)
(* The unit of data is one accepted input, named by its position in        *)
(* `accepted'.  A counter is the set of inputs it currently stands for, so *)
(* its value is the cardinality of that set; a delta carries the set the   *)
(* worker cleared, and a parent cell is the set of inputs added to it.     *)
(* A lost, doubled or reordered increment is therefore visible.            *)
(*                                                                         *)
(* Three reductions.  A receive and the write-locked `apply' that follows  *)
(* it are one step (nobody can see a delta between the two).  The Arc and  *)
(* the read guard of a reader are dropped in one step.  The aggregator's   *)
(* control law is left to which way it moves tau, since its input is a     *)
(* sum of queue lengths that change while it is being read.                *)
(***************************************************************************)
EXTENDS Integers, Sequences, FiniteSets

CONSTANTS
  NumWorkers,    \* OctoConfig.num_workers, after max(1)
  NumCells,      \* cells of the sketch, numbered row by row
  Keys,          \* keys the caller may insert
  CellsOf,       \* the cell of each row a key hashes to, as a set of cells
  WorkerOf,      \* hash64_seeded(0, key) % workers
  Partition,     \* OctoConfig.partition: "HashByKey" or "RoundRobin"
  QueueCap,      \* OctoConfig.queue_capacity, after max(1)
  InitTau,       \* initial value of the shared threshold
  MinTau,        \* OctoAdaptiveThreshold.min_threshold, normalised
  MaxTau,        \* OctoAdaptiveThreshold.max_threshold, normalised
  MaxPromask,    \* MAX_PROMASK, what a one-byte counter can hold
  Adaptive,      \* OctoConfig.adaptive is Some
  Readers,       \* threads holding an OctoReadHandle
  MaxInputs,     \* bound: inputs the caller accepts
  MaxFlushes,    \* bound: flushes the caller starts
  MaxReads,      \* bound: queries all readers start
  MaxFaults      \* bound: panics inside process or apply

Workers == 1..NumWorkers
Cells   == 1..NumCells
Ids     == 1..MaxInputs

ASSUME SizeAssumption ==
  /\ NumWorkers \in Nat \ {0}
  /\ NumCells \in Nat \ {0}
  /\ QueueCap \in Nat \ {0}
  /\ MaxInputs \in Nat
  /\ MaxFlushes \in Nat
  /\ MaxReads \in Nat
  /\ MaxFaults \in Nat

ASSUME HashAssumption ==
  /\ Keys # {}
  /\ CellsOf \in [Keys -> SUBSET Cells]
  /\ WorkerOf \in [Keys -> Workers]

ASSUME TauAssumption ==
  /\ InitTau \in Nat /\ MinTau \in Nat /\ MaxTau \in Nat /\ MaxPromask \in Nat
  /\ 1 <= InitTau /\ InitTau <= MaxPromask
  /\ 1 <= MinTau /\ MinTau <= MaxTau /\ MaxTau <= MaxPromask
  /\ Adaptive \in BOOLEAN

VARIABLES
  accepted,      \* history: [key, worker] of each input insert() has queued
  pc,            \* where the caller is
  step,          \* index of the caller's loop over the workers
  arg,           \* the key the caller is inserting
  closed,        \* OctoCore.closed
  nextWorker,    \* OctoCore.next_worker
  flushes,       \* flushes started so far
  quiet,         \* history: flushes completed since the last insert, up to 2
  inq,           \* worker_input channels
  acks,          \* acknowledgements waiting in the flush channel
  wpc,           \* where each worker is
  held,          \* CmWorkerSketch.counters of each worker
  out,           \* deltas a worker has promoted and not sent yet, by cell
  dq,            \* delta channels
  apc,           \* where the aggregator is in its sweep
  sweep,         \* the receiver it polls next
  connected,     \* delta_rxs slots that are still Some
  progress,      \* made_progress
  control,       \* the drain request: none, queued or acknowledged
  tau,           \* the shared OctoThreshold
  parent,        \* the parent sketch
  rpc,           \* where each reader is
  reads,         \* queries started so far
  faults         \* panics injected so far

callerData == <<accepted, arg, closed, nextWorker, flushes, quiet>>
workerVars == <<wpc, held, out>>
aggVars    == <<apc, sweep, connected, progress, tau, parent>>
readVars   == <<rpc, reads>>
channels   == <<inq, acks, dq, control>>
threads    == <<workerVars, aggVars, readVars, faults>>
vars == <<pc, step, callerData, channels, threads>>

-----------------------------------------------------------------------------
(* Messages, channels and threads *)

DataMsg(i) == [type |-> "data",  id |-> i]
FlushMsg   == [type |-> "flush", id |-> 0]
EndMsg     == [type |-> "end",   id |-> 0]

Messages == {DataMsg(i) : i \in Ids} \cup {FlushMsg, EndMsg}
Deltas   == [cell : Cells, ids : SUBSET Ids]

NoKey    == CHOOSE k \in Keys : TRUE
NoCounts == [c \in Cells |-> {}]

HasRoom(q) == Len(q) < QueueCap

\* The runtime value, and with it every input sender, is gone.
CallerGone == pc \in {"done", "failed", "pinned", "misused", "dropped"}
\* The worker thread is over: its input receiver and delta sender are dropped.
WorkerGone(w) == wpc[w] \in {"stopped", "orphaned", "panicked"}
\* The aggregator thread is over: delta and control receivers are dropped.
AggGone == apc \in {"done", "panicked"}

\* The deltas of the message in hand have all been sent.
AllSent_Assumed(w) == TRUE
AllSent(w) == out[w] = NoCounts

\* A worker is back in its receive loop and this kind of message is next.
Receives(w, t) == /\ wpc[w] = "run" /\ AllSent(w)
                  /\ inq[w] # <<>> /\ Head(inq[w]).type = t

-----------------------------------------------------------------------------
(* Initial state: OctoRuntime::new *)

Init ==
  /\ accepted = <<>> /\ pc = "ready" /\ step = 1 /\ arg = NoKey
  /\ closed = FALSE /\ nextWorker = 0 /\ flushes = 0 /\ quiet = 0
  /\ inq = [w \in Workers |-> <<>>] /\ acks = 0
  /\ dq = [w \in Workers |-> <<>>] /\ control = "none"
  /\ wpc = [w \in Workers |-> "run"]
  /\ held = [w \in Workers |-> NoCounts]
  /\ out = [w \in Workers |-> NoCounts]
  /\ apc = "poll" /\ sweep = 1 /\ connected = Workers /\ progress = FALSE
  /\ tau = InitTau
  /\ parent = NoCounts
  /\ rpc = [r \in Readers |-> "idle"] /\ reads = 0
  /\ faults = 0

-----------------------------------------------------------------------------
(* The caller.  insert and flush take &mut self and finish takes self, so   *)
(* one thread makes these calls one at a time.                              *)

Ready == pc \in {"ready", "flushed"}

Leave(how) == pc' = how /\ UNCHANGED <<step, callerData, channels, threads>>

\* One loop over the workers: go to the next one, or on to `after'.
NextWorker(after) ==
  IF step < NumWorkers THEN step' = step + 1 /\ pc' = pc
                       ELSE step' = 1 /\ pc' = after

\* OctoCore::worker_for
Route(k) == IF Partition = "RoundRobin" THEN (nextWorker % NumWorkers) + 1
                                        ELSE WorkerOf[k]

BeginInsert(k) ==
  /\ Ready /\ ~closed /\ Len(accepted) < MaxInputs
  /\ pc' = "insert" /\ arg' = k
  /\ UNCHANGED <<step, accepted, closed, nextWorker, flushes, quiet, channels, threads>>

\* insert on a closed runtime panics, and the unwinding drops the runtime.
InsertAfterClose == Ready /\ closed /\ Leave("misused")

SendInput ==
  LET w == Route(arg) IN
  /\ pc = "insert" /\ ~WorkerGone(w) /\ HasRoom(inq[w])
  /\ accepted' = Append(accepted, [key |-> arg, worker |-> w])
  /\ inq' = [inq EXCEPT ![w] = Append(@, DataMsg(Len(accepted) + 1))]
  /\ nextWorker' = IF Partition = "RoundRobin" THEN nextWorker + 1 ELSE nextWorker
  /\ pc' = "ready" /\ arg' = NoKey /\ quiet' = 0
  /\ UNCHANGED <<step, closed, flushes, acks, dq, control, threads>>

\* flush on a closed runtime returns at once and changes nothing.
BeginFlush ==
  /\ Ready /\ ~closed /\ flushes < MaxFlushes
  /\ pc' = "flushSend" /\ step' = 1 /\ flushes' = flushes + 1 /\ acks' = 0
  /\ UNCHANGED <<accepted, arg, closed, nextWorker, quiet, inq, dq, control, threads>>

SendFlush ==
  /\ pc = "flushSend" /\ ~WorkerGone(step) /\ HasRoom(inq[step])
  /\ inq' = [inq EXCEPT ![step] = Append(@, FlushMsg)]
  /\ NextWorker("flushAck")
  /\ UNCHANGED <<callerData, acks, dq, control, threads>>

CollectAck ==
  /\ pc = "flushAck" /\ acks > 0
  /\ acks' = acks - 1
  /\ NextWorker("drainSend")
  /\ UNCHANGED <<callerData, inq, dq, control, threads>>

AckPending == \E w \in Workers :
  \/ wpc[w] = "flush"
  \/ \E p \in 1..Len(inq[w]) : inq[w][p] = FlushMsg

SendDrain ==
  /\ pc = "drainSend" /\ ~AggGone /\ control = "none"
  /\ pc' = "drainWait" /\ control' = "queued"
  /\ UNCHANGED <<step, callerData, inq, acks, dq, threads>>

FlushReturns ==
  /\ pc = "drainWait" /\ control = "acked"
  /\ pc' = "flushed" /\ control' = "none"
  /\ quiet' = IF quiet < 2 THEN quiet + 1 ELSE 2
  /\ UNCHANGED <<step, accepted, arg, closed, nextWorker, flushes, inq, acks, dq, threads>>

\* closed.swap(true) tells whether End has been sent before.
AlreadyClosed == closed

\* close on a closed runtime returns at once.
Close ==
  /\ Ready /\ ~AlreadyClosed
  /\ closed' = TRUE /\ pc' = "closeSend" /\ step' = 1
  /\ UNCHANGED <<accepted, arg, nextWorker, flushes, quiet, channels, threads>>

Finish ==
  /\ Ready
  /\ closed' = TRUE /\ step' = 1
  /\ pc' = IF AlreadyClosed THEN "join" ELSE "finishSend"
  /\ UNCHANGED <<accepted, arg, nextWorker, flushes, quiet, channels, threads>>

\* The End loop of OctoCore::close; an error of the send is ignored.
SendEnd ==
  /\ pc \in {"closeSend", "finishSend"}
  /\ \/ WorkerGone(step) /\ inq' = inq
     \/ /\ ~WorkerGone(step) /\ HasRoom(inq[step])
        /\ inq' = [inq EXCEPT ![step] = Append(@, EndMsg)]
  /\ NextWorker(IF pc = "closeSend" THEN "ready" ELSE "join")
  /\ UNCHANGED <<callerData, acks, dq, control, threads>>

\* join() of a thread returns Ok.
Joined_PanicIgnored(w) == WorkerGone(w)
Joined(w) == wpc[w] = "stopped"
AggJoined_Skipped == TRUE
AggJoined == apc = "done"

JoinWorker ==
  /\ pc = "join" /\ Joined(step)
  /\ NextWorker("joinAgg")
  /\ UNCHANGED <<callerData, channels, threads>>

\* Arc::try_unwrap succeeds only if no reader holds a strong reference.
TakeParent ==
  /\ pc = "joinAgg" /\ AggJoined
  /\ Leave(IF \E r \in Readers : rpc[r] \in {"holding", "reading"} THEN "pinned" ELSE "done")

\* A call panics on a dropped receiver, a dropped sender or a failed join.
CallPanics ==
  /\ \/ pc = "insert" /\ WorkerGone(Route(arg))
     \/ pc = "flushSend" /\ WorkerGone(step)
     \/ pc = "flushAck" /\ acks = 0 /\ ~AckPending
     \/ pc = "drainSend" /\ AggGone
     \/ pc = "drainWait" /\ AggGone /\ control # "acked"
     \/ pc = "join" /\ wpc[step] = "panicked"
     \/ pc = "joinAgg" /\ apc = "panicked"
  /\ Leave("failed")

\* The runtime value goes out of scope without finish.
Drop == Ready /\ Leave("dropped")

\* The calls a caller may make, and the steps it owes once it is in one.
Call == (\E k \in Keys : BeginInsert(k)) \/ InsertAfterClose \/ BeginFlush \/ Close \/ Finish \/ Drop

CallerStep ==
  \/ SendInput \/ SendFlush \/ CollectAck \/ SendDrain \/ FlushReturns
  \/ SendEnd \/ JoinWorker \/ TakeParent \/ CallPanics

-----------------------------------------------------------------------------
(* A worker thread *)

\* insert_hashes_emit_delta clamps the threshold it read.
Promask == IF tau > MaxPromask THEN MaxPromask ELSE tau

Counted(w, i) == [c \in Cells |->
  IF c \in CellsOf[accepted[i].key] THEN held[w][c] \cup {i} ELSE held[w][c]]

\* Of a counter array, the cells this input touched that reach the threshold.
Promoted_Above(counts, i) ==
  {c \in CellsOf[accepted[i].key] : Cardinality(counts[c]) > Promask}
Promoted(counts, i) ==
  {c \in CellsOf[accepted[i].key] : Cardinality(counts[c]) >= Promask}

\* What promoting the cells of S sends, and what it leaves in the counters.
Only(counts, S)    == [c \in Cells |-> IF c \in S THEN counts[c] ELSE {}]
Without(counts, S) == [c \in Cells |-> IF c \in S THEN {} ELSE counts[c]]

WorkerProcess(w) ==
  /\ Receives(w, "data")
  /\ LET i      == Head(inq[w]).id
         counts == Counted(w, i)
         full   == Promoted(counts, i)
     IN  /\ held' = [held EXCEPT ![w] = Without(counts, full)]
         /\ out'  = [out  EXCEPT ![w] = Only(counts, full)]
  /\ inq' = [inq EXCEPT ![w] = Tail(@)]
  /\ UNCHANGED <<pc, step, callerData, acks, dq, control, wpc, aggVars, readVars, faults>>

\* CmWorkerSketch::flush: every non-zero counter is promoted and cleared.
Residue_NotSent(counts) == NoCounts
Residue(counts) == counts

\* Flush and End are handled alike up to what follows the last delta.
WorkerFlush(w) ==
  /\ \E t \in {"flush", "end"} : Receives(w, t) /\ wpc' = [wpc EXCEPT ![w] = t]
  /\ out'  = [out  EXCEPT ![w] = Residue(held[w])]
  /\ held' = [held EXCEPT ![w] = NoCounts]
  /\ inq'  = [inq  EXCEPT ![w] = Tail(@)]
  /\ UNCHANGED <<pc, step, callerData, acks, dq, control, aggVars, readVars, faults>>

\* Deltas leave in cell order, one blocking send each.
NextOut(w, c) ==
  /\ out[w][c] # {}
  /\ \A d \in Cells : out[w][d] # {} => c <= d

WorkerSend(w, c) ==
  /\ NextOut(w, c)
  /\ ~WorkerGone(w) /\ ~AggGone /\ HasRoom(dq[w])
  /\ dq'  = [dq  EXCEPT ![w] = Append(@, [cell |-> c, ids |-> out[w][c]])]
  /\ out' = [out EXCEPT ![w] = Without(out[w], {c})]
  /\ UNCHANGED <<pc, step, callerData, inq, acks, control, wpc, held, aggVars, readVars, faults>>

\* The ack's receiver may be gone; the error is ignored.
WorkerAck(w) ==
  /\ wpc[w] = "flush" /\ AllSent(w)
  /\ acks' = acks + 1
  /\ wpc' = [wpc EXCEPT ![w] = "run"]
  /\ UNCHANGED <<pc, step, callerData, inq, dq, control, held, out, aggVars, readVars, faults>>

\* recv() fails once the queue is empty and its sender is dropped.
SenderDropped_Never == FALSE
SenderDropped == CallerGone

\* The thread returns: after End's residue, or, with no flush at all, when the
\* runtime was dropped.  Whatever were still queued would be dropped.
WorkerReturns(w) ==
  /\ AllSent(w)
  /\ \/ wpc[w] = "end" /\ wpc' = [wpc EXCEPT ![w] = "stopped"]
     \/ /\ wpc[w] = "run" /\ inq[w] = <<>> /\ SenderDropped
        /\ wpc' = [wpc EXCEPT ![w] = "orphaned"]
  /\ UNCHANGED <<pc, step, callerData, channels, held, out, aggVars, readVars, faults>>

\* A thread that panics drops its receiver with what it holds.
WorkerDies(w) ==
  /\ wpc' = [wpc EXCEPT ![w] = "panicked"]
  /\ inq' = [inq EXCEPT ![w] = <<>>]
  /\ UNCHANGED <<pc, step, callerData, acks, dq, control, held, out, aggVars, readVars>>

\* The send of a delta to a dropped receiver panics.
WorkerSendFails(w) ==
  /\ ~WorkerGone(w) /\ AggGone /\ ~AllSent(w)
  /\ WorkerDies(w) /\ UNCHANGED faults

\* process() panics, for instance in a worker the user supplied.
WorkerPanic(w) ==
  /\ faults < MaxFaults /\ Receives(w, "data")
  /\ WorkerDies(w) /\ faults' = faults + 1

WorkerStep(w) ==
  \/ WorkerProcess(w) \/ WorkerFlush(w) \/ WorkerAck(w) \/ WorkerReturns(w)
  \/ WorkerSendFails(w) \/ \E c \in Cells : WorkerSend(w, c)

-----------------------------------------------------------------------------
(* The aggregator thread *)

\* The for loop over delta_rxs: one try_recv per slot, in order.
NextReceiver ==
  IF sweep < NumWorkers THEN sweep' = sweep + 1 /\ apc' = apc
                        ELSE sweep' = 1 /\ apc' = "adjust"

\* Taking the write lock waits for every reader inside with_parent.
NoReader == \A r \in Readers : rpc[r] # "reading"

\* OctoAggregator::apply for Count-Min: add the delta to its cell.
Applied_Overwrites(d) == [parent EXCEPT ![d.cell] = d.ids]
Applied(d) == [parent EXCEPT ![d.cell] = @ \cup d.ids]

AggApply ==
  /\ apc = "poll" /\ sweep \in connected /\ dq[sweep] # <<>> /\ NoReader
  /\ parent' = Applied(Head(dq[sweep]))
  /\ dq' = [dq EXCEPT ![sweep] = Tail(@)]
  /\ progress' = TRUE
  /\ NextReceiver
  /\ UNCHANGED <<pc, step, callerData, inq, acks, control, workerVars, connected, tau, readVars, faults>>

\* Receivers still open once this sweep has found a worker's sender dropped.
Remaining == connected \ {sweep}

\* A slot that is None or empty is passed over; a disconnected one is closed.
AggPass ==
  /\ apc = "poll" /\ (sweep \in connected => dq[sweep] = <<>>)
  /\ connected' = IF sweep \in connected /\ WorkerGone(sweep) THEN Remaining ELSE connected
  /\ NextReceiver
  /\ UNCHANGED <<pc, step, callerData, channels, workerVars, progress, tau, parent, readVars, faults>>

\* ThresholdController::maybe_adjust: by one either way, then clamped, or
\* nothing while the next check is not due.
Clamp(t) == IF t < MinTau THEN MinTau ELSE IF t > MaxTau THEN MaxTau ELSE t

AggAdjust ==
  /\ apc = "adjust"
  /\ apc' = "check"
  /\ tau' \in {tau} \cup (IF Adaptive THEN {Clamp(tau - 1), Clamp(tau), Clamp(tau + 1)} ELSE {})
  /\ UNCHANGED <<pc, step, callerData, channels, workerVars, sweep, connected, progress, parent,
                 readVars, faults>>

\* A sweep that moved nothing looks at the control channel.
Answers_MidSweep == control = "queued"
Answers == ~progress /\ control = "queued"

AggEndSweep ==
  /\ apc = "check"
  /\ control' = IF Answers THEN "acked" ELSE control
  /\ progress' = FALSE
  /\ apc' = IF connected = {} THEN "done" ELSE "poll"
  /\ UNCHANGED <<pc, step, callerData, inq, acks, dq, workerVars, sweep, connected, tau, parent,
                 readVars, faults>>

\* apply() panics: the lock is poisoned and every receiver is dropped.
AggPanic ==
  /\ faults < MaxFaults
  /\ apc = "poll" /\ sweep \in connected /\ dq[sweep] # <<>> /\ NoReader
  /\ faults' = faults + 1
  /\ apc' = "panicked"
  /\ dq' = [w \in Workers |-> <<>>]
  /\ UNCHANGED <<pc, step, callerData, inq, acks, control, workerVars,
                 sweep, connected, progress, tau, parent, readVars>>

AggStep == AggApply \/ AggPass \/ AggAdjust \/ AggEndSweep

-----------------------------------------------------------------------------
(* OctoReadHandle::with_parent, called on any number of other threads *)

\* A strong reference exists: the core's, the aggregator's or a reader's.
ParentAlive == ~CallerGone \/ ~AggGone \/ \E r \in Readers : rpc[r] \in {"holding", "reading"}

Moves(r, to) ==
  /\ rpc' = [rpc EXCEPT ![r] = to]
  /\ UNCHANGED <<pc, step, callerData, channels, workerVars, aggVars, faults>>

\* Weak::upgrade, refused once the parent is gone.
ReadUpgrade(r) ==
  /\ rpc[r] = "idle" /\ reads < MaxReads
  /\ reads' = reads + 1
  /\ Moves(r, IF ParentAlive THEN "holding" ELSE "refused")

\* parent.read() panics on a poisoned lock.
ReadLock(r) ==
  /\ rpc[r] = "holding" /\ UNCHANGED reads
  /\ Moves(r, IF apc = "panicked" THEN "refused" ELSE "reading")

ReadDone(r) == rpc[r] = "reading" /\ UNCHANGED reads /\ Moves(r, "idle")

ReadStep(r) == ReadLock(r) \/ ReadDone(r)

-----------------------------------------------------------------------------
(* The whole system *)

Next ==
  \/ Call \/ CallerStep
  \/ \E w \in Workers : WorkerStep(w) \/ WorkerPanic(w)
  \/ AggStep \/ AggPanic
  \/ \E r \in Readers : ReadUpgrade(r) \/ ReadStep(r)

\* Threads are scheduled and a query returns; what the caller does next, and
\* whether anything panics, is its own business.
Fairness ==
  /\ WF_vars(CallerStep)
  /\ \A w \in Workers : WF_vars(WorkerStep(w))
  /\ WF_vars(AggStep)
  /\ \A r \in Readers : WF_vars(ReadStep(r))

Spec     == Init /\ [][Next]_vars
FairSpec == Spec /\ Fairness

-----------------------------------------------------------------------------
(* Type invariant *)

\* Shapes of every variable of the runtime (octo.rs, OctoCore and its threads).
TypeOK ==
  /\ accepted \in Seq([key : Keys, worker : Workers])
  /\ Len(accepted) + (IF pc = "insert" THEN 1 ELSE 0) <= MaxInputs
  /\ pc \in {"ready", "flushed", "insert", "flushSend", "flushAck", "drainSend", "drainWait",
             "closeSend", "finishSend", "join", "joinAgg",
             "done", "failed", "pinned", "misused", "dropped"}
  /\ step \in Workers /\ arg \in Keys /\ closed \in BOOLEAN
  /\ nextWorker \in Nat /\ flushes \in Nat /\ quiet \in 0..2
  /\ inq \in [Workers -> Seq(Messages)]
  /\ acks \in Nat
  /\ wpc \in [Workers -> {"run", "flush", "end", "stopped", "orphaned", "panicked"}]
  /\ held \in [Workers -> [Cells -> SUBSET Ids]]
  /\ out \in [Workers -> [Cells -> SUBSET Ids]]
  /\ dq \in [Workers -> Seq(Deltas)]
  /\ apc \in {"poll", "adjust", "check", "done", "panicked"}
  /\ sweep \in Workers /\ connected \in SUBSET Workers /\ progress \in BOOLEAN
  /\ control \in {"none", "queued", "acked"}
  /\ tau \in 1..MaxPromask
  /\ parent \in [Cells -> SUBSET Ids]
  /\ rpc \in [Readers -> {"idle", "holding", "reading", "refused"}]
  /\ reads \in Nat /\ faults \in Nat

-----------------------------------------------------------------------------
(* Where one input is, for one of its cells *)

Owner(i) == accepted[i].worker
Counts(i, c) == i \in DOMAIN accepted /\ c \in CellsOf[accepted[i].key]

InInput(w, i)    == \E p \in 1..Len(inq[w]) : inq[w][p] = DataMsg(i)
InDelta(w, c, i) == \E p \in 1..Len(dq[w]) : dq[w][p].cell = c /\ i \in dq[w][p].ids
InParent(w, c, i) == i \in parent[c] /\ Owner(i) = w

\* The stages an increment passes through, in order.
Pending(w, c, i) == InDelta(w, c, i) \/ i \in out[w][c] \/ i \in held[w][c] \/ InInput(w, i)

\* No thread has panicked, and no worker was abandoned by a dropped runtime.
Intact(w) == wpc[w] \notin {"panicked", "orphaned"} /\ apc # "panicked"

\* Every accepted input is, in each of its cells, still on its way through the
\* worker insert() chose or counted in the parent, and nothing else is in the
\* parent: no interleaving of promotion, flush, End and sweep loses or invents
\* an increment.
Conservation == \A c \in Cells :
  /\ \A i \in DOMAIN accepted : Counts(i, c) /\ Intact(Owner(i)) =>
       Pending(Owner(i), c, i) \/ i \in parent[c]
  /\ \A i \in parent[c] : Counts(i, c)

\* No increment is counted twice: what is still on its way is not yet in the
\* parent, and is in one place only.
CountedOnce == \A w \in Workers, c \in Cells, i \in Ids :
  /\ Pending(w, c, i) /\ Counts(i, c) => i \notin parent[c]
  /\ i \in out[w][c] => i \notin held[w][c]
  /\ InDelta(w, c, i) => i \notin out[w][c] /\ i \notin held[w][c]

\* Of what one worker counts in one cell, the parent holds a prefix in input
\* order: a query always sees some earlier moment of every worker's stream.
AppliedIsPrefix == \A w \in Workers, c \in Cells :
  \A i, j \in DOMAIN accepted :
    InParent(w, c, j) /\ i < j /\ Owner(i) = w /\ Counts(i, c) => i \in parent[c]

\* A worker's one-byte counter never reaches the largest threshold tau has
\* had, so it fits the byte however tau moves between two inserts: the bound
\* on how far a cell trails the stream (octo_delta.rs, MAX_PROMASK).
CounterBelowTau ==
  LET top == IF Adaptive /\ MaxTau > InitTau THEN MaxTau ELSE InitTau
  IN  \A w \in Workers, c \in Cells : Cardinality(held[w][c]) < top

\* The parent answers for every accepted input.
ParentExact == \A c \in Cells : parent[c] = {i \in DOMAIN accepted : Counts(i, c)}

\* flush() as its comment describes it: once it returns, the parent answers
\* against every input accepted so far.
FlushAppliesEverything == pc = "flushed" => ParentExact

\* What flush() does deliver: after two flushes with no insert between them
\* the parent is exact, since the second Drain can only be answered by a sweep
\* that began after the first flush filled the delta queues.
SecondFlushIsExact == pc = "flushed" /\ quiet = 2 => ParentExact

\* finish() returns only the exact parent, and never once a thread has
\* panicked: a fault surfaces as a panic instead of a short count.
FinishIsExact ==
  pc = "done" =>
    /\ ParentExact
    /\ apc = "done" /\ \A w \in Workers : wpc[w] = "stopped"

\* End is the last message a worker is sent, so leaving the loop at End drops
\* nothing: no interleaving of insert, flush, close and finish sends more.
EndIsLast == \A w \in Workers :
  /\ wpc[w] \in {"end", "stopped"} => inq[w] = <<>>
  /\ \A p \in 1..Len(inq[w]) : inq[w][p] = EndMsg => p = Len(inq[w])

\* No call gives up without a cause: one panics only if a thread has, and
\* finish() is refused the parent only if a query was still inside with_parent
\* (and the parent that query sees is complete).
FailsForCause ==
  /\ pc = "failed" => faults > 0
  /\ pc = "pinned" => reads > 0 /\ ParentExact

\* Applying a delta only adds, and adds only what was missing.
ParentGrows == [][\A c \in Cells : parent[c] \subseteq parent'[c]]_parent

-----------------------------------------------------------------------------
(* The inductive invariant behind the safety properties *)

\* What is queued for w is w's, in input order.
InputQueues == \A w \in Workers : \A p \in 1..Len(inq[w]) : inq[w][p].type = "data" =>
  /\ inq[w][p].id \in DOMAIN accepted /\ Owner(inq[w][p].id) = w
  /\ \A q \in 1..Len(inq[w]) : p < q /\ inq[w][q].type = "data" => inq[w][p].id < inq[w][q].id

\* Nothing stands in a counter, a delta or the parent but inputs that hit it.
Placed == \A w \in Workers, c \in Cells :
  /\ \A i \in held[w][c] \cup out[w][c] : Counts(i, c) /\ Owner(i) = w
  /\ \A i \in Ids : InDelta(w, c, i) => Counts(i, c) /\ Owner(i) = w
  /\ \A i \in parent[c] : Counts(i, c)

\* Per worker and cell every stage holds earlier inputs than the one before.
StageOrder == \A w \in Workers, c \in Cells, i, j \in Ids :
  /\ i \in held[w][c] /\ InInput(w, j) => i < j
  /\ i \in out[w][c] /\ (j \in held[w][c] \/ InInput(w, j)) => i < j
  /\ InDelta(w, c, i) /\ (j \in out[w][c] \/ j \in held[w][c] \/ InInput(w, j)) => i < j
  /\ InParent(w, c, i) /\ Pending(w, c, j) => i < j

\* The same within a delta queue.
DeltaOrder == \A w \in Workers : \A p, q \in 1..Len(dq[w]) :
  p < q /\ dq[w][p].cell = dq[w][q].cell =>
    \A i \in dq[w][p].ids, j \in dq[w][q].ids : i < j

\* An increment is on its way or applied; after a panic it may be lost, and
\* then nothing that came after it in its worker's stream gets through.
Delivered(w, c, j) == InParent(w, c, j) \/ InDelta(w, c, j)
Lost(w, c, i) == ~Intact(w) /\ \A j \in Ids : Delivered(w, c, j) => j < i
Accounted == \A w \in Workers, c \in Cells, i \in Ids : Counts(i, c) /\ Owner(i) = w =>
  Pending(w, c, i) \/ i \in parent[c] \/ Lost(w, c, i)

\* close() has sent w its End.
EndSent(w) == closed /\ ~(pc \in {"closeSend", "finishSend"} /\ step <= w)

CallOrder ==
  /\ pc \in {"closeSend", "finishSend", "join", "joinAgg", "done"} => closed
  /\ pc \in {"insert", "flushSend", "flushAck", "drainSend", "drainWait"} => ~closed
  /\ pc = "join" => \A w \in Workers : w < step => wpc[w] = "stopped"
  /\ pc \in {"joinAgg", "done"} => \A w \in Workers : wpc[w] = "stopped"
  /\ pc = "done" => apc = "done"

Endings == \A w \in Workers :
  /\ \A p \in 1..Len(inq[w]) : inq[w][p] = EndMsg => p = Len(inq[w]) /\ EndSent(w)
  /\ wpc[w] \in {"end", "stopped"} => inq[w] = <<>> /\ EndSent(w) /\ held[w] = NoCounts
  /\ wpc[w] = "stopped" => out[w] = NoCounts

Closings ==
  /\ \A w \in Workers : w \notin connected => WorkerGone(w) /\ dq[w] = <<>>
  /\ apc = "done" => connected = {}
  /\ apc = "panicked" => \A w \in Workers : dq[w] = <<>>

IInv ==
  /\ TypeOK /\ InputQueues /\ Placed /\ StageOrder /\ DeltaOrder /\ Accounted
  /\ CallOrder /\ Endings /\ Closings

-----------------------------------------------------------------------------
(* Liveness *)

\* flush() returns: it hands over through bounded queues that the aggregator
\* keeps emptying, and fails rather than hangs when a thread has died.
FlushEnds == pc = "flushSend" ~> pc \in {"flushed", "failed"}

\* finish() returns or panics.
FinishEnds == pc = "finishSend" ~> pc \in {"done", "failed", "pinned"}


\* Once the runtime is gone, by whichever route, every thread it started ends.
ThreadsEnd == CallerGone ~> AggGone /\ \A w \in Workers : WorkerGone(w)

-----------------------------------------------------------------------------
(* Refinement *)

Status == IF pc = "done" THEN "finished" ELSE IF CallerGone THEN "abandoned" ELSE "open"

Promise == INSTANCE OctoPromise WITH status <- Status

\* The runtime implements OctoPromise: whatever the threads do, the parent
\* absorbs per shard and cell a growing prefix, and finish waits for all of it.
KeepsPromise == Promise!Spec
=============================================================================
