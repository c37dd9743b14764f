------------------------------ MODULE Pipeline ------------------------------
(***************************************************************************)
(* The threads of live_trade.cpp: for each symbol a feed thread and an     *)
(* engine thread with a queue between them, and the main thread, which     *)
(* starts them, reports their position every two seconds, and stops them.  *)
(* A WebSocket feed has two threads: its callback pushes the ticks, and    *)
(* run() waits for stop() and then ends the callback's thread.             *)
(*                                                                         *)
(* Ticks are numbered.  The queue is a bounded FIFO, which SPSCQueue       *)
(* implements; a try_push or try_pop that fails, for lack of room or of    *)
(* news about the other side, is a turn of its loop that changes nothing.  *)
(* Of the position only the age of each field is kept: how many fills are  *)
(* in it.  Its fields are plain memory, so an unsynchronised copy may take *)
(* each of them from a different moment, in any order.                     *)
(***************************************************************************)
EXTENDS Integers, SequencesExt

CONSTANTS
    Symbols,   \* the pipelines, in the order main goes through them
    Capacity,  \* of a queue
    MaxTicks,  \* bound: symbol -> ticks its feed makes
    NULL

\* There is a pipeline; two for the same symbol are two members of Symbols.
ASSUME SymbolsAssumption ==
    /\ Symbols # <<>> /\ Symbols \in Seq(Range(Symbols))
    /\ \A i, j \in DOMAIN Symbols : Symbols[i] = Symbols[j] => i = j
ASSUME CapacityAssumption == Capacity \in Nat \ {0}
ASSUME BoundAssumption == MaxTicks \in [Range(Symbols) -> Nat]

VARIABLES
    feed_kind, \* "ws": all feeds are WebSocketBinanceFeeds; "poll": all poll
    g_stop,  \* g_stop: set by SIGINT, SIGTERM or the end of --seconds
    main,    \* where main() is, and the pipeline it is at
    report,  \* the fields main has read for the status record
    feed,    \* symbol -> running_ and place of the thread that pushes ticks
    runner,  \* symbol -> place of run() of a stream, whose thread start() made
    made,    \* symbol -> ticks made, the last one may be in the feed's hand
    queue,   \* symbol -> queued ticks
    engine,  \* symbol -> running_ and place of the engine thread
    handled, \* symbol -> the last tick popped
    fills,   \* symbol -> fills traded
    told,    \* symbol -> fills in lat_hist, and fills published
    pos      \* symbol -> field of pos_ -> fills it includes

vars == <<feed_kind, g_stop, main, report, feed, runner, made, queue, engine, handled,
          fills, told, pos>>

Sym == Range(Symbols)
Fields == {"btc_qty", "cash"}
Unread == [f \in Fields |-> NULL]
NoReport == [copy |-> Unread, equity |-> Unread]
NoThread == [running |-> FALSE, at |-> "none"]

Init ==
    /\ feed_kind \in {"ws", "poll"}
    /\ g_stop = FALSE
    /\ main = [at |-> "telemetry_start", i |-> 1]
    /\ report = NoReport
    /\ feed = [s \in Sym |-> NoThread] /\ engine = [s \in Sym |-> NoThread]
    /\ runner = [s \in Sym |-> "none"]
    /\ made = [s \in Sym |-> 0] /\ handled = [s \in Sym |-> 0]
    /\ queue = [s \in Sym |-> <<>>]
    /\ fills = [s \in Sym |-> 0]
    /\ told = [s \in Sym |-> [lat_hist |-> 0, telemetry |-> 0]]
    /\ pos = [s \in Sym |-> [f \in Fields |-> 0]]

Goto(thread, s, place) == [thread EXCEPT ![s].at = place]

-----------------------------------------------------------------------------
(* The feeds.  They differ in where a tick comes from, which is left out.  *)

FeedOnly == UNCHANGED <<feed_kind, g_stop, main, report, engine, handled, fills, told, pos>>

\* A tick is made by a loop that runs, or by a message of a connection that lives,
\* running_ or not; or nothing usable came.
MakeTick(s) ==
    /\ feed[s].at = "check"
    /\ feed[s].running \/ feed_kind = "ws"
    /\ made[s] < MaxTicks[s]
    /\ made' = [made EXCEPT ![s] = @ + 1]
    /\ feed' = Goto(feed, s, "wait")
    /\ UNCHANGED <<runner, queue>> /\ FeedOnly

\* The polling loop ends.
PollEnds(s) ==
    /\ feed[s].at = "check"
    /\ ~feed[s].running /\ feed_kind = "poll"
    /\ feed' = Goto(feed, s, "done")
    /\ UNCHANGED <<runner, made, queue>> /\ FeedOnly

\* Mutant of FeedWait: the push is repeated without a look at running_.
FeedWaitBlind(s) ==
    /\ feed[s].at = "wait"
    /\ feed' = Goto(feed, s, "push")
    /\ UNCHANGED <<runner, made, queue>> /\ FeedOnly

\* while (running_ && ...): a tick that does not get in before stop() is dropped.
FeedWait(s) ==
    /\ feed[s].at = "wait"
    /\ feed' = Goto(feed, s, IF feed[s].running THEN "push" ELSE "check")
    /\ UNCHANGED <<runner, made, queue>> /\ FeedOnly

\* Mutant of FeedPush: no retry, a tick that does not fit is gone.
FeedPushOnce(s) ==
    /\ feed[s].at = "push"
    /\ feed' = Goto(feed, s, "check")
    /\ queue' = [queue EXCEPT ![s] = IF Len(@) < Capacity THEN Append(@, made[s]) ELSE @]
    /\ UNCHANGED <<runner, made>> /\ FeedOnly

\* ... !try_push(ev)
FeedPush(s) ==
    /\ feed[s].at = "push"
    /\ IF Len(queue[s]) < Capacity
       THEN /\ queue' = [queue EXCEPT ![s] = Append(@, made[s])]
            /\ feed' = Goto(feed, s, "check")
       ELSE feed' = Goto(feed, s, "wait") /\ UNCHANGED queue
    /\ UNCHANGED <<runner, made>> /\ FeedOnly

\* run() of a stream looks at running_ every 100 ms ...
StreamCheck(s) ==
    /\ runner[s] = "check" /\ ~feed[s].running
    /\ runner' = [runner EXCEPT ![s] = "ws_stop"]
    /\ UNCHANGED <<feed, made, queue>> /\ FeedOnly

\* ... and ws.stop() waits for a callback that is under way.
StreamEnds(s) ==
    /\ runner[s] = "ws_stop" /\ feed[s].at = "check"
    /\ runner' = [runner EXCEPT ![s] = "done"]
    /\ feed' = Goto(feed, s, "done")
    /\ UNCHANGED <<made, queue>> /\ FeedOnly

FeedRuns(s) == PollEnds(s) \/ FeedWait(s) \/ FeedPush(s)
StreamRuns(s) == StreamCheck(s) \/ StreamEnds(s)

-----------------------------------------------------------------------------
(* The engine thread.                                                      *)

EngineOnly == UNCHANGED <<feed_kind, g_stop, main, report, feed, runner, made>>

EngineCheck(s) ==
    /\ engine[s].at = "check"
    /\ engine' = Goto(engine, s, IF engine[s].running THEN "pop" ELSE "done")
    /\ UNCHANGED <<queue, handled, fills, told, pos>> /\ EngineOnly

\* Mutant of EnginePop: an empty queue ends the thread.
EnginePopBreak(s) ==
    /\ engine[s].at = "pop"
    /\ IF queue[s] = <<>>
       THEN engine' = Goto(engine, s, "done") /\ UNCHANGED <<queue, handled, fills>>
       ELSE /\ handled' = [handled EXCEPT ![s] = Head(queue[s])]
            /\ queue' = [queue EXCEPT ![s] = Tail(@)]
            /\ engine' = Goto(engine, s, "check")
            /\ UNCHANGED fills
    /\ UNCHANGED <<told, pos>> /\ EngineOnly

\* A tick is handled; the strategy may trade on it, and then the fields of the
\* position have to be written.
EnginePop(s) ==
    /\ engine[s].at = "pop"
    /\ IF queue[s] = <<>>
       THEN engine' = Goto(engine, s, "check") /\ UNCHANGED <<queue, handled, fills>>
       ELSE /\ handled' = [handled EXCEPT ![s] = Head(queue[s])]
            /\ queue' = [queue EXCEPT ![s] = Tail(@)]
            /\ \/ engine' = Goto(engine, s, "check") /\ UNCHANGED fills
               \/ /\ engine' = Goto(engine, s, "book")
                  /\ fills' = [fills EXCEPT ![s] = @ + 1]
    /\ UNCHANGED <<told, pos>> /\ EngineOnly

\* pos_ is written field by field, then on_fill is called.
EngineBook(s) ==
    /\ engine[s].at = "book"
    /\ \/ \E f \in Fields :
             /\ pos[s][f] < fills[s]
             /\ pos' = [pos EXCEPT ![s][f] = fills[s]]
             /\ UNCHANGED engine
       \/ /\ \A f \in Fields : pos[s][f] = fills[s]
          /\ engine' = Goto(engine, s, "measure")
          /\ UNCHANGED pos
    /\ UNCHANGED <<queue, handled, fills, told>> /\ EngineOnly

\* on_fill adds to lat_hist under its mutex ...
EngineMeasure(s) ==
    /\ engine[s].at = "measure"
    /\ told' = [told EXCEPT ![s].lat_hist = @ + 1]
    /\ engine' = Goto(engine, s, "publish")
    /\ UNCHANGED <<queue, handled, fills, pos>> /\ EngineOnly

\* ... and then publishes.
EnginePublish(s) ==
    /\ engine[s].at = "publish"
    /\ told' = [told EXCEPT ![s].telemetry = @ + 1]
    /\ engine' = Goto(engine, s, "check")
    /\ UNCHANGED <<queue, handled, fills, pos>> /\ EngineOnly

Engine(s) ==
    \/ EngineCheck(s) \/ EnginePop(s) \/ EngineBook(s)
    \/ EngineMeasure(s) \/ EnginePublish(s)

-----------------------------------------------------------------------------
(* main(): start, the status loop, stop.                                   *)

Here == Symbols[main.i]
At(place) == main.at = place /\ UNCHANGED <<feed_kind, made, queue, handled, fills, told, pos>>
Then(place) == main' = [main EXCEPT !.at = place]

\* On to the next pipeline, or after the last one to `place`.
NextOr(loop, place) ==
    main' = IF main.i < Len(Symbols) THEN [at |-> loop, i |-> main.i + 1]
            ELSE [at |-> place, i |-> 1]

Launch(thread) == [thread EXCEPT ![Here] = [running |-> TRUE, at |-> "check"]]
Halt(thread) == [thread EXCEPT ![Here].running = FALSE]

\* The publisher, if any is wanted, is started and given the meta record.
TelemetryStart ==
    /\ At("telemetry_start")
    /\ Then("feed_start")
    /\ UNCHANGED <<g_stop, report, feed, runner, engine>>

FeedStart ==
    /\ At("feed_start")
    /\ feed' = Launch(feed)
    /\ runner' = [runner EXCEPT ![Here] = IF feed_kind = "ws" THEN "check" ELSE @]
    /\ Then("engine_start")
    /\ UNCHANGED <<g_stop, report, engine>>

EngineStart ==
    /\ At("engine_start")
    /\ engine' = Launch(engine)
    /\ NextOr("feed_start", "sleep")
    /\ UNCHANGED <<g_stop, report, feed, runner>>

\* The loop condition, and two seconds of sleep.
StatusLoop ==
    /\ At("sleep")
    /\ Then(IF g_stop THEN "engine_stop" ELSE "position")
    /\ report' = NoReport
    /\ UNCHANGED <<g_stop, feed, runner, engine>>

ReadInto(part) ==
    \E f \in Fields :
        /\ report[part][f] = NULL
        /\ report' = [report EXCEPT ![part][f] = pos[Here][f]]

AllRead(part) == \A f \in Fields : report[part][f] # NULL

\* position() copies the struct.  While last_mid_ is 0, before the first tick or
\* after one without prices, equity is the copied cash.
ReadPosition ==
    /\ At("position")
    /\ \/ ReadInto("copy") /\ UNCHANGED main
       \/ /\ AllRead("copy")
          /\ \/ handled[Here] > 0 /\ Then("equity") /\ UNCHANGED report
             \/ Then("publish") /\ report' = [report EXCEPT !.equity = report.copy]
    /\ UNCHANGED <<g_stop, feed, runner, engine>>

\* equity_at reads the struct again.
ReadEquity ==
    /\ At("equity")
    /\ \/ ReadInto("equity") /\ UNCHANGED main
       \/ AllRead("equity") /\ Then("publish") /\ UNCHANGED report
    /\ UNCHANGED <<g_stop, feed, runner, engine>>

PublishStatus ==
    /\ At("publish")
    /\ NextOr("position", "elapsed")
    /\ report' = NoReport
    /\ UNCHANGED <<g_stop, feed, runner, engine>>

\* --seconds may be over.
Elapsed ==
    /\ At("elapsed")
    /\ g_stop' \in {g_stop, TRUE}
    /\ Then("sleep")
    /\ UNCHANGED <<report, feed, runner, engine>>

EngineStop ==
    /\ At("engine_stop")
    /\ engine' = Halt(engine)
    /\ Then("engine_join")
    /\ UNCHANGED <<g_stop, report, feed, runner>>

\* Mutant of EngineJoin: the thread is not waited for.
EngineDetach ==
    /\ At("engine_join")
    /\ Then("feed_stop")
    /\ UNCHANGED <<g_stop, report, feed, runner, engine>>

EngineJoin ==
    /\ At("engine_join") /\ engine[Here].at = "done"
    /\ Then("feed_stop")
    /\ UNCHANGED <<g_stop, report, feed, runner, engine>>

FeedStop ==
    /\ At("feed_stop")
    /\ feed' = Halt(feed)
    /\ Then("feed_join")
    /\ UNCHANGED <<g_stop, report, runner, engine>>

\* The thread of start(): the polling one, or run() of a stream.
FeedJoin ==
    /\ At("feed_join")
    /\ IF feed_kind = "ws" THEN runner[Here] = "done" ELSE feed[Here].at = "done"
    /\ NextOr("engine_stop", "telemetry_stop")
    /\ UNCHANGED <<g_stop, report, feed, runner, engine>>

\* tel->stop() returned; the latency statistics, and the end of the pipelines.
Finish ==
    /\ At("telemetry_stop")
    /\ Then("end")
    /\ UNCHANGED <<g_stop, report, feed, runner, engine>>

Main ==
    \/ TelemetryStart \/ FeedStart \/ EngineStart
    \/ StatusLoop \/ ReadPosition \/ ReadEquity \/ PublishStatus \/ Elapsed
    \/ EngineStop \/ EngineJoin \/ FeedStop \/ FeedJoin

\* on_signal
Signal ==
    /\ ~g_stop
    /\ g_stop' = TRUE
    /\ UNCHANGED <<feed_kind, main, report, feed, runner, made, queue, engine, handled,
                   fills, told, pos>>

-----------------------------------------------------------------------------
Next ==
    \/ \E s \in Sym : MakeTick(s) \/ FeedRuns(s) \/ StreamRuns(s) \/ Engine(s)
    \/ Main \/ Finish
    \/ Signal

Spec == Init /\ [][Next]_vars

\* The threads run.  No feed has to make ticks, nobody has to stop the program, and
\* tel->stop() need not return.
FairSpec ==
    /\ Spec
    /\ WF_vars(Main)
    /\ \A s \in Sym : WF_vars(FeedRuns(s)) /\ WF_vars(StreamRuns(s)) /\ WF_vars(Engine(s))

-----------------------------------------------------------------------------
\* While a feed runs, every tick it made was handled, is queued, or is in its hand,
\* in this order and without a gap or a repetition, however often the queue was
\* full; only the shutdown drops ticks.
TicksAccountedFor ==
    \A s \in Sym : feed[s].running =>
        LET inHand == IF feed[s].at \in {"wait", "push"} THEN 1 ELSE 0
        IN  queue[s] = [k \in 1..made[s] - inHand - handled[s] |-> handled[s] + k]

\* When the publisher is stopped nobody is left who publishes, and when main()
\* returns no thread still uses the pipelines it destroys.
NobodyPublishesLate ==
    main.at \in {"telemetry_stop", "end"} => \A s \in Sym :
        engine[s].at = "done" /\ feed[s].at = "done" /\ runner[s] \in {"none", "done"}

\* However the program is stopped, in the middle of a fill too, each fill of each engine
\* is then in its position, its latency statistics and the publisher's queue, once.
EveryFillReported ==
    main.at \in {"telemetry_stop", "end"} => \A s \in Sym :
        /\ \A f \in Fields : pos[s][f] = fills[s]
        /\ told[s] = [lat_hist |-> fills[s], telemetry |-> fills[s]]

\* A tick that was made is handled, unless the program is being stopped.
EveryTickHandled ==
    \A s \in Sym : \A k \in 1..MaxTicks[s] : made[s] >= k ~> handled[s] >= k \/ g_stop

\* Ctrl-C ends all threads of the pipelines: no engine, no feed with a full queue and
\* nobody to empty it, and no join() holds main() up before it stops the publisher.
ShutdownCompletes == g_stop ~> main.at \in {"telemetry_stop", "end"}

\* What the dashboard's documentation says of a status record: its equity is its
\* cash plus its position at the mid.
StatusAddsUp == main.at = "publish" => report.equity = report.copy
=============================================================================
