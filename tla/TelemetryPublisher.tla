------------------------- MODULE TelemetryPublisher -------------------------
(***************************************************************************)
(* The telemetry queue and its background thread, telemetry.hpp.           *)
(*                                                                         *)
(* Producers (the engine threads and the status loop) push under mu_ and   *)
(* notify after unlocking.  The worker waits for cv_ with the predicate    *)
(* "something queued or not running", takes the whole queue and writes it  *)
(* to the sinks without the lock.  One thread, main, calls start() and     *)
(* stop(); stop() writes the sinks too, after it joined the worker.        *)
(*                                                                         *)
(* mu_ is held across two steps at one place only: where the worker has    *)
(* found the predicate false and is about to block.  running_ is not       *)
(* guarded by mu_, so stop() can come in between.                          *)
(***************************************************************************)
EXTENDS Integers, SequencesExt

CONSTANTS
    Producers,   \* threads that publish
    MaxRecords,  \* bound: records per producer
    MaxStarts    \* bound: calls of start() that start a worker

ASSUME BoundsAssumption == MaxRecords \in Nat /\ MaxStarts \in Nat

VARIABLES
    running,  \* running_
    queue,    \* queue_
    worker,   \* where the worker is in run(), "none" when there is no thread
    main,     \* where the main thread is in stop(), "idle" between calls
    batch,    \* thread -> the local vector of records it still has to write
    pushed,   \* producers between push_back and notify_one
    sent,     \* producer -> records published
    log,      \* lines the sinks were given
    flushed,  \* how many of them were flushed
    owed,     \* records published before the current or last stop() began
    starts    \* workers started

vars == <<running, queue, worker, main, batch, pushed, sent, log, flushed, owed, starts>>

Records == Producers \X (1..MaxRecords)

Init ==
    /\ running = FALSE
    /\ queue = <<>>
    /\ worker = "none" /\ main = "idle"
    /\ batch = [t \in {"worker", "main"} |-> <<>>]
    /\ pushed = {}
    /\ sent = [p \in Producers |-> 0]
    /\ log = <<>> /\ flushed = 0
    /\ owed = {}
    /\ starts = 0

MutexFree == worker # "block"

-----------------------------------------------------------------------------
(* publish(), on any producer's thread.                                    *)

Push(p) ==
    /\ p \notin pushed
    /\ sent[p] < MaxRecords
    /\ MutexFree
    /\ sent' = [sent EXCEPT ![p] = @ + 1]
    /\ queue' = Append(queue, <<p, sent'[p]>>)
    /\ pushed' = pushed \cup {p}
    /\ UNCHANGED <<running, worker, main, batch, log, flushed, owed, starts>>

\* Mutant of Woken: nobody is notified.
NotWoken == worker

\* Where a notification leaves the worker, the only thread that ever waits.
Woken == IF worker = "wait" THEN "lock" ELSE worker

Notify(p) ==
    /\ p \in pushed
    /\ pushed' = pushed \ {p}
    /\ worker' = Woken
    /\ UNCHANGED <<running, queue, main, batch, sent, log, flushed, owed, starts>>

-----------------------------------------------------------------------------
(* run(), on the worker thread.                                            *)

\* Mutant of Grab: assign without clear.
GrabCopy(t) ==
    /\ batch' = [batch EXCEPT ![t] = queue]
    /\ UNCHANGED queue

\* Mutant of Grab: one record is assigned, the queue cleared all the same.
GrabOne(t) ==
    /\ batch' = [batch EXCEPT ![t] = SubSeq(queue, 1, Min({1, Len(queue)}))]
    /\ queue' = <<>>

\* batch.assign(queue_...); queue_.clear()
Grab(t) ==
    /\ batch' = [batch EXCEPT ![t] = queue]
    /\ queue' = <<>>

\* With mu_: take what is queued, or leave, or decide to wait.
WorkerCheck ==
    /\ worker = "lock"
    /\ \/ /\ queue # <<>>
          /\ Grab("worker")
          /\ worker' = "emit"
       \/ /\ queue = <<>> /\ ~running
          /\ worker' = "done"
          /\ UNCHANGED <<queue, batch>>
       \/ /\ queue = <<>> /\ running
          /\ worker' = "block"
          /\ UNCHANGED <<queue, batch>>
    /\ UNCHANGED <<running, main, pushed, sent, log, flushed, owed, starts>>

\* cv_.wait gives mu_ back and blocks, in one step.
WorkerBlock ==
    /\ worker = "block"
    /\ worker' = "wait"
    /\ UNCHANGED <<running, queue, main, batch, pushed, sent, log, flushed, owed, starts>>

WakeSpuriously ==
    /\ worker = "wait"
    /\ worker' = "lock"
    /\ UNCHANGED <<running, queue, main, batch, pushed, sent, log, flushed, owed, starts>>

\* One record of the batch: formatted once, handed to every sink.
Emit(t) ==
    /\ batch[t] # <<>>
    /\ log' = Append(log, Head(batch[t]))
    /\ batch' = [batch EXCEPT ![t] = Tail(@)]

WorkerEmit ==
    /\ worker = "emit"
    /\ Emit("worker")
    /\ UNCHANGED <<running, queue, worker, main, pushed, sent, flushed, owed, starts>>

WorkerFlush ==
    /\ worker = "emit" /\ batch["worker"] = <<>>
    /\ flushed' = Len(log)
    /\ worker' = "lock"
    /\ UNCHANGED <<running, queue, main, batch, pushed, sent, log, owed, starts>>

Worker == WorkerCheck \/ WorkerBlock \/ WorkerEmit \/ WorkerFlush

-----------------------------------------------------------------------------
(* start() and stop(), on the main thread.  A start() while running and a  *)
(* stop() while not running return at once and change nothing.             *)

Start ==
    /\ main = "idle" /\ ~running
    /\ starts < MaxStarts
    /\ starts' = starts + 1
    /\ running' = TRUE
    /\ worker' = "lock"
    /\ UNCHANGED <<queue, main, batch, pushed, sent, log, flushed, owed>>

StopBegin ==
    /\ main = "idle" /\ running
    /\ running' = FALSE
    /\ main' = "notify"
    /\ owed' = {r \in Records : r[2] <= sent[r[1]]}
    /\ UNCHANGED <<queue, worker, batch, pushed, sent, log, flushed, starts>>

StopNotify ==
    /\ main = "notify"
    /\ worker' = Woken
    /\ main' = "join"
    /\ UNCHANGED <<running, queue, batch, pushed, sent, log, flushed, owed, starts>>

\* Mutant of StopJoin: the worker is left running.
StopDetach ==
    /\ main = "join"
    /\ main' = "drain"
    /\ UNCHANGED <<running, queue, worker, batch, pushed, sent, log, flushed, owed, starts>>

StopJoin ==
    /\ main = "join" /\ worker = "done"
    /\ worker' = "none"
    /\ main' = "drain"
    /\ UNCHANGED <<running, queue, batch, pushed, sent, log, flushed, owed, starts>>

StopDrain ==
    /\ main = "drain" /\ MutexFree
    /\ Grab("main")
    /\ main' = "emit"
    /\ UNCHANGED <<running, worker, pushed, sent, log, flushed, owed, starts>>

StopEmit ==
    /\ main = "emit"
    /\ Emit("main")
    /\ UNCHANGED <<running, queue, worker, main, pushed, sent, flushed, owed, starts>>

StopFlush ==
    /\ main = "emit" /\ batch["main"] = <<>>
    /\ flushed' = Len(log)
    /\ main' = "idle"
    /\ UNCHANGED <<running, queue, worker, batch, pushed, sent, log, owed, starts>>

Stop == StopNotify \/ StopJoin \/ StopDrain \/ StopEmit \/ StopFlush

-----------------------------------------------------------------------------
Next ==
    \/ \E p \in Producers : Push(p) \/ Notify(p)
    \/ Worker
    \/ WakeSpuriously
    \/ Start
    \/ StopBegin
    \/ Stop

Spec == Init /\ [][Next]_vars

\* Threads that have something to do are scheduled.  Nobody has to publish, to
\* call start() or stop(), and no spurious wakeup has to come.
FairSpec ==
    /\ Spec
    /\ WF_vars(Worker)
    /\ WF_vars(Stop)
    /\ \A p \in Producers : WF_vars(Notify(p))

-----------------------------------------------------------------------------
\* The sinks have no lock: the worker and stop() never write them at once.
SinksHaveOneWriter == ~(worker = "emit" /\ main = "emit")

\* When stop() has returned, every record that was published before the call is
\* with the sinks, and flushed.
StopDelivers ==
    main = "idle" /\ ~running =>
        \A r \in owed : \E i \in 1..flushed : log[i] = r

\* A record that is queued while a worker lives gets to the sinks, whoever
\* notified whom.
RecordsReachSinks ==
    \A r \in Records :
        r \in Range(queue) /\ worker # "none" ~> r \in Range(log)

\* Every record is written once, in the order of the push_backs, over all
\* batches, stops and restarts.
Log == INSTANCE RecordLog WITH pending <- batch["worker"] \o batch["main"] \o queue

ImplementsLog == Log!Spec

\* What the tests expect of stop(): "drains and joins".
StopReturns == main # "idle" ~> main = "idle"
=============================================================================
