--------------------------- MODULE PipelineProofs ---------------------------
(***************************************************************************)
(* For every number of pipelines, queue capacity and bound on the ticks,   *)
(* and for both kinds of feed: ticks keep their order, main() waits for    *)
(* every thread before it stops the publisher, and no fill goes unreported.*)
(***************************************************************************)
EXTENDS Pipeline, TLAPS

N == Len(Symbols)

Places ==
    {"telemetry_start", "feed_start", "engine_start", "sleep", "position", "equity",
     "publish", "elapsed", "engine_stop", "engine_join", "feed_stop", "feed_join",
     "telemetry_stop", "end"}
FeedPlaces == {"none", "check", "wait", "push", "done"}
EnginePlaces == {"none", "check", "pop", "book", "measure", "publish", "done"}
Thread(places) == [running : BOOLEAN, at : places]
Stopping == {"engine_stop", "engine_join", "feed_stop", "feed_join"}
Stopped == {"telemetry_stop", "end"}

-----------------------------------------------------------------------------
(* The inductive invariant, in four parts that do not need each other's    *)
(* details: each is about variables of its own.                            *)

\* The shapes of the variables the parts below speak of.
TypeInv ==
    /\ feed_kind \in {"ws", "poll"}
    /\ main \in [at : Places, i : 1..N]
    /\ feed \in [Sym -> Thread(FeedPlaces)]
    /\ runner \in [Sym -> {"none", "check", "ws_stop", "done"}]
    /\ engine \in [Sym -> Thread(EnginePlaces)]
    /\ made \in [Sym -> Nat] /\ handled \in [Sym -> Nat]
    /\ queue \in [Sym -> Seq(Nat)]
    /\ fills \in [Sym -> Nat]
    /\ told \in [Sym -> [lat_hist : Nat, telemetry : Nat]]
    /\ pos \in [Sym -> [Fields -> Nat]]

\* Which pipelines main() has yet to start, and which it has waited for.
FeedUnborn(k) ==
    \/ main.at = "telemetry_start"
    \/ main.at = "feed_start" /\ main.i <= k
    \/ main.at = "engine_start" /\ main.i < k
EngineUnborn(k) ==
    \/ main.at = "telemetry_start"
    \/ main.at \in {"feed_start", "engine_start"} /\ main.i <= k
EngineGone(k) ==
    \/ main.at \in Stopping /\ k < main.i
    \/ main.at \in {"feed_stop", "feed_join"} /\ k <= main.i
    \/ main.at \in Stopped
FeedGone(k) ==
    \/ main.at \in Stopping /\ k < main.i
    \/ main.at \in Stopped

\* Where main() is tells where the threads are.
MainInv ==
    /\ main.at \in {"sleep", "elapsed"} => main.i = 1
    /\ \A k \in 1..N :
          /\ FeedUnborn(k) => feed[Symbols[k]].at = "none"
          /\ EngineUnborn(k) => engine[Symbols[k]].at = "none"
          /\ EngineGone(k) => engine[Symbols[k]].at = "done"
          /\ FeedGone(k) => /\ feed[Symbols[k]].at = "done"
                            /\ runner[Symbols[k]] \in {"none", "done"}

\* run() of a stream outlives its callback.
RunnerInv ==
    \A s \in Sym :
        /\ feed_kind = "poll" => runner[s] = "none"
        /\ runner[s] = "done" => feed[s].at = "done"

InHand(s) == IF feed[s].at \in {"wait", "push"} THEN 1 ELSE 0

\* The queue continues where the engine is, up to what the feed has in its hand.
InOrder(s) ==
    /\ Len(queue[s]) = made[s] - InHand(s) - handled[s]
    /\ \A k \in 1..Len(queue[s]) : queue[s][k] = handled[s] + k

TickInv ==
    \A s \in Sym :
        /\ feed[s].at = "none" => made[s] = 0 /\ handled[s] = 0 /\ queue[s] = <<>>
        /\ feed[s].running => InOrder(s)

\* What of the last fill is still to be told depends on the place of the engine.
FillInv ==
    \A s \in Sym :
        /\ \A f \in Fields : pos[s][f] <= fills[s]
        /\ engine[s].at # "book" => \A f \in Fields : pos[s][f] = fills[s]
        /\ told[s].lat_hist =
              fills[s] - (IF engine[s].at \in {"book", "measure"} THEN 1 ELSE 0)
        /\ told[s].telemetry =
              fills[s] - (IF engine[s].at \in {"book", "measure", "publish"} THEN 1 ELSE 0)

IInv == TypeInv /\ MainInv /\ RunnerInv /\ TickInv /\ FillInv

-----------------------------------------------------------------------------
(* Pipelines.                                                              *)

\* Pipelines are numbered from 1 to N, each by one number.
LEMMA Numbered ==
    /\ N \in Nat \ {0}
    /\ Symbols \in [1..N -> Sym]
    /\ \A k \in 1..N : Symbols[k] \in Sym
    /\ \A s \in Sym : \E k \in 1..N : Symbols[k] = s
    /\ \A j, k \in 1..N : Symbols[j] = Symbols[k] => j = k
<1>1. Symbols \in Seq(Range(Symbols)) /\ Symbols # <<>>  BY SymbolsAssumption
<1>2. N \in Nat /\ DOMAIN Symbols = 1..N  BY <1>1 DEF N
<1>3. N # 0  BY <1>1, <1>2 DEF N
<1>4. \A s \in Sym : \E k \in 1..N : Symbols[k] = s  BY <1>2 DEF Sym, Range
<1>5. Symbols \in [1..N -> Sym]  BY <1>1, <1>2 DEF Sym, N
<1> QED  BY <1>2, <1>3, <1>4, <1>5, SymbolsAssumption

\* The pipeline main() is at.
LEMMA HereIs ==
    ASSUME TypeInv
    PROVE  /\ Here \in Sym /\ main.i \in 1..N
           /\ \A k \in 1..N : Symbols[k] = Here <=> k = main.i
  BY Numbered DEF Here, TypeInv

-----------------------------------------------------------------------------
(* Each part is kept by every step.                                        *)

\* A thread that goes to a place stays as it is otherwise.
LEMMA GotoIs ==
    ASSUME NEW P, NEW thread \in [Sym -> Thread(P)], NEW s \in Sym, NEW place \in P
    PROVE  /\ Goto(thread, s, place) \in [Sym -> Thread(P)]
           /\ Goto(thread, s, place)[s].at = place
           /\ Goto(thread, s, place)[s].running = thread[s].running
           /\ \A r \in Sym : r # s => Goto(thread, s, place)[r] = thread[r]
  BY DEF Goto, Thread

\* Nor do the counts of fills told touch each other.
LEMMA ToldIs ==
    ASSUME NEW t \in [Sym -> [lat_hist : Nat, telemetry : Nat]], NEW s \in Sym
    PROVE  LET measured  == [t EXCEPT ![s].lat_hist = @ + 1]
               published == [t EXCEPT ![s].telemetry = @ + 1]
           IN  /\ measured \in [Sym -> [lat_hist : Nat, telemetry : Nat]]
               /\ measured[s].lat_hist = t[s].lat_hist + 1
               /\ measured[s].telemetry = t[s].telemetry
               /\ \A r \in Sym : r # s => measured[r] = t[r]
               /\ published \in [Sym -> [lat_hist : Nat, telemetry : Nat]]
               /\ published[s].telemetry = t[s].telemetry + 1
               /\ published[s].lat_hist = t[s].lat_hist
               /\ \A r \in Sym : r # s => published[r] = t[r]
  OBVIOUS

\* What the feeds leave alone, and what they keep of their own shape.
LEMMA FeedStep ==
    ASSUME TypeInv, NEW s \in Sym, MakeTick(s) \/ FeedRuns(s) \/ StreamRuns(s)
    PROVE  /\ UNCHANGED <<feed_kind, main, engine, handled, fills, told, pos>>
           /\ TypeInv'
           /\ \A r \in Sym : r # s =>
                 feed'[r] = feed[r] /\ runner'[r] = runner[r] /\ made'[r] = made[r]
                 /\ queue'[r] = queue[r]
           /\ feed'[s].running = feed[s].running
<1>0. \A place \in FeedPlaces :
         /\ Goto(feed, s, place) \in [Sym -> Thread(FeedPlaces)]
         /\ Goto(feed, s, place)[s].running = feed[s].running
         /\ \A r \in Sym : r # s => Goto(feed, s, place)[r] = feed[r]
  <2>1. feed \in [Sym -> Thread(FeedPlaces)]  BY DEF TypeInv
  <2> QED  BY <2>1, GotoIs
<1> USE <1>0 DEF TypeInv, FeedOnly, FeedPlaces
<1>1. CASE MakeTick(s)  BY <1>1 DEF MakeTick
<1>2. CASE PollEnds(s)  BY <1>2 DEF PollEnds
<1>3. CASE FeedWait(s)  BY <1>3 DEF FeedWait
<1>4. CASE FeedPush(s)
  <2>1. Append(queue[s], made[s]) \in Seq(Nat)  OBVIOUS
  <2>2. CASE Len(queue[s]) < Capacity  BY <1>4, <2>1, <2>2 DEF FeedPush
  <2>3. CASE ~(Len(queue[s]) < Capacity)  BY <1>4, <2>3 DEF FeedPush
  <2> QED  BY <2>2, <2>3
<1>5. CASE StreamCheck(s)  BY <1>5 DEF StreamCheck
<1>6. CASE StreamEnds(s)  BY <1>6 DEF StreamEnds
<1> QED  BY <1>1, <1>2, <1>3, <1>4, <1>5, <1>6 DEF FeedRuns, StreamRuns

\* The same of an engine.
LEMMA EngineStep ==
    ASSUME TypeInv, NEW s \in Sym, Engine(s)
    PROVE  /\ UNCHANGED <<feed_kind, main, feed, runner, made>>
           /\ TypeInv'
           /\ \A r \in Sym : r # s =>
                 engine'[r] = engine[r] /\ handled'[r] = handled[r] /\ queue'[r] = queue[r]
                 /\ fills'[r] = fills[r] /\ told'[r] = told[r] /\ pos'[r] = pos[r]
           /\ engine[s].at \notin {"none", "done"}
<1>0. \A place \in EnginePlaces :
         /\ Goto(engine, s, place) \in [Sym -> Thread(EnginePlaces)]
         /\ Goto(engine, s, place)[s].running = engine[s].running
         /\ \A r \in Sym : r # s => Goto(engine, s, place)[r] = engine[r]
  <2>1. engine \in [Sym -> Thread(EnginePlaces)]  BY DEF TypeInv
  <2> QED  BY <2>1, GotoIs
<1> USE <1>0 DEF TypeInv, EngineOnly, EnginePlaces
<1>1. CASE EngineCheck(s)  BY <1>1 DEF EngineCheck
<1>2. CASE EnginePop(s)
  <2>1. CASE queue[s] = <<>>  BY <1>2, <2>1, ZenonT(60) DEF EnginePop
  <2>2. CASE queue[s] # <<>>
    <3>1. Head(queue[s]) \in Nat /\ Tail(queue[s]) \in Seq(Nat)  BY <2>2
    <3>2. /\ handled' = [handled EXCEPT ![s] = Head(queue[s])]
          /\ queue' = [queue EXCEPT ![s] = Tail(@)]
          /\ \/ engine' = Goto(engine, s, "check") /\ UNCHANGED fills
             \/ /\ engine' = Goto(engine, s, "book")
                /\ fills' = [fills EXCEPT ![s] = @ + 1]
          /\ UNCHANGED <<told, pos>> /\ EngineOnly
          /\ engine[s].at = "pop"
      BY <1>2, <2>2 DEF EnginePop
    <3>3. [handled EXCEPT ![s] = Head(queue[s])] \in [Sym -> Nat]
          /\ [queue EXCEPT ![s] = Tail(@)] \in [Sym -> Seq(Nat)]
          /\ [fills EXCEPT ![s] = @ + 1] \in [Sym -> Nat]
      BY <3>1
    <3>4. CASE engine' = Goto(engine, s, "check") /\ UNCHANGED fills  BY <3>2, <3>3, <3>4
    <3>5. CASE engine' = Goto(engine, s, "book") /\ fills' = [fills EXCEPT ![s] = @ + 1]
      BY <3>2, <3>3, <3>5
    <3> QED  BY <3>2, <3>4, <3>5
  <2> QED  BY <2>1, <2>2
<1>3. CASE EngineBook(s)
  <2>1. CASE \E f \in Fields : /\ pos[s][f] < fills[s]
                               /\ pos' = [pos EXCEPT ![s][f] = fills[s]]
                               /\ UNCHANGED engine
    BY <1>3, <2>1 DEF EngineBook
  <2>2. CASE engine' = Goto(engine, s, "measure") /\ UNCHANGED pos
    BY <1>3, <2>2 DEF EngineBook
  <2> QED  BY <1>3, <2>1, <2>2 DEF EngineBook
<1>4. CASE EngineMeasure(s)
  <2>1. LET told2 == [told EXCEPT ![s].lat_hist = @ + 1]
        IN  /\ told2 \in [Sym -> [lat_hist : Nat, telemetry : Nat]]
            /\ \A r \in Sym : r # s => told2[r] = told[r]
    BY ToldIs
  <2> QED  BY <1>4, <2>1 DEF EngineMeasure
<1>5. CASE EnginePublish(s)
  <2>1. LET told2 == [told EXCEPT ![s].telemetry = @ + 1]
        IN  /\ told2 \in [Sym -> [lat_hist : Nat, telemetry : Nat]]
            /\ \A r \in Sym : r # s => told2[r] = told[r]
    BY ToldIs
  <2> QED  BY <1>5, <2>1 DEF EnginePublish
<1> QED  BY <1>1, <1>2, <1>3, <1>4, <1>5 DEF Engine

\* What main() leaves alone, whatever it does.
LEMMA MainStep ==
    ASSUME TypeInv, Main \/ Finish
    PROVE  /\ UNCHANGED <<feed_kind, made, queue, handled, fills, told, pos>>
           /\ TypeInv'
<1> USE DEF TypeInv, At, Then, NextOr, Places, Launch, Halt, Thread, FeedPlaces, EnginePlaces
<1>0. Here \in Sym /\ N \in Nat \ {0} /\ N = Len(Symbols)  BY HereIs, Numbered DEF N
<1>1. CASE TelemetryStart  BY <1>0, <1>1 DEF TelemetryStart
<1>2. CASE FeedStart  BY <1>0, <1>2 DEF FeedStart
<1>3. CASE EngineStart  BY <1>0, <1>3 DEF EngineStart
<1>4. CASE StatusLoop  BY <1>0, <1>4 DEF StatusLoop
<1>5. CASE ReadPosition  BY <1>0, <1>5 DEF ReadPosition
<1>6. CASE ReadEquity  BY <1>0, <1>6 DEF ReadEquity
<1>7. CASE PublishStatus  BY <1>0, <1>7 DEF PublishStatus
<1>8. CASE Elapsed  BY <1>0, <1>8 DEF Elapsed
<1>9. CASE EngineStop  BY <1>0, <1>9, ZenonT(60) DEF EngineStop
<1>10. CASE EngineJoin  BY <1>0, <1>10 DEF EngineJoin
<1>11. CASE FeedStop  BY <1>0, <1>11, ZenonT(60) DEF FeedStop
<1>12. CASE FeedJoin  BY <1>0, <1>12 DEF FeedJoin
<1>13. CASE Finish  BY <1>0, <1>13 DEF Finish
<1> QED
  BY <1>1, <1>2, <1>3, <1>4, <1>5, <1>6, <1>7, <1>8, <1>9, <1>10, <1>11, <1>12, <1>13
  DEF Main

\* A feed's threads neither begin nor come back by themselves, and the callback ends first.
LEMMA FeedKeeps ==
    ASSUME TypeInv, RunnerInv, NEW s \in Sym, MakeTick(s) \/ FeedRuns(s) \/ StreamRuns(s)
    PROVE  /\ feed[s].at \in {"none", "done"} => feed'[s].at = feed[s].at
           /\ runner[s] \in {"none", "done"} => runner'[s] = runner[s]
           /\ RunnerInv'
<1>0. \A place \in FeedPlaces : Goto(feed, s, place)[s].at = place
  <2>1. feed \in [Sym -> Thread(FeedPlaces)]  BY DEF TypeInv
  <2> QED  BY <2>1, GotoIs
<1>1. /\ UNCHANGED feed_kind
      /\ \A r \in Sym : r # s => feed'[r] = feed[r] /\ runner'[r] = runner[r]
      /\ runner \in [Sym -> {"none", "check", "ws_stop", "done"}]
      /\ feed_kind \in {"ws", "poll"}
  BY FeedStep DEF TypeInv
<1> USE DEF FeedPlaces
<1>2. CASE MakeTick(s)  BY <1>0, <1>1, <1>2 DEF MakeTick, RunnerInv
<1>3. CASE PollEnds(s)  BY <1>0, <1>1, <1>3 DEF PollEnds, RunnerInv
<1>4. CASE FeedWait(s)  BY <1>0, <1>1, <1>4 DEF FeedWait, RunnerInv
<1>5. CASE FeedPush(s)  BY <1>0, <1>1, <1>5 DEF FeedPush, RunnerInv
<1>6. CASE StreamCheck(s)  BY <1>0, <1>1, <1>6 DEF StreamCheck, RunnerInv
<1>7. CASE StreamEnds(s)  BY <1>0, <1>1, <1>7 DEF StreamEnds, RunnerInv
<1> QED  BY <1>2, <1>3, <1>4, <1>5, <1>6, <1>7 DEF FeedRuns, StreamRuns

\* What main() does to a thread.
LEMMA LaunchHaltIs ==
    ASSUME NEW P, NEW thread \in [Sym -> Thread(P)], Here \in Sym
    PROVE  /\ Launch(thread)[Here] = [running |-> TRUE, at |-> "check"]
           /\ \A r \in Sym : r # Here => Launch(thread)[r] = thread[r]
           /\ Halt(thread)[Here].running = FALSE
           /\ \A r \in Sym : Halt(thread)[r].at = thread[r].at
           /\ \A r \in Sym : r # Here => Halt(thread)[r] = thread[r]
  BY DEF Launch, Halt, Thread

\* The places of the threads after a step of main().
LEMMA MainMoves ==
    ASSUME TypeInv
    PROVE  /\ \A k \in 1..N : k # main.i =>
                 /\ Launch(feed)[Symbols[k]] = feed[Symbols[k]]
                 /\ Launch(engine)[Symbols[k]] = engine[Symbols[k]]
           /\ \A k \in 1..N :
                 /\ Halt(feed)[Symbols[k]].at = feed[Symbols[k]].at
                 /\ Halt(engine)[Symbols[k]].at = engine[Symbols[k]].at
           /\ feed[Symbols[main.i]] = feed[Here] /\ engine[Symbols[main.i]] = engine[Here]
           /\ runner[Symbols[main.i]] = runner[Here]
           /\ \A k \in 1..N : k # main.i => Symbols[k] # Here
           /\ \A k \in 1..N : Symbols[k] \in Sym
<1>1. feed \in [Sym -> Thread(FeedPlaces)] /\ engine \in [Sym -> Thread(EnginePlaces)]
  BY DEF TypeInv
<1>2. Here \in Sym /\ \A k \in 1..N : Symbols[k] \in Sym /\ (Symbols[k] = Here <=> k = main.i)
  BY HereIs, Numbered
<1>3. /\ \A r \in Sym : r # Here => Launch(feed)[r] = feed[r]
      /\ \A r \in Sym : Halt(feed)[r].at = feed[r].at
  BY <1>1, <1>2, LaunchHaltIs
<1>4. /\ \A r \in Sym : r # Here => Launch(engine)[r] = engine[r]
      /\ \A r \in Sym : Halt(engine)[r].at = engine[r].at
  BY <1>1, <1>2, LaunchHaltIs
<1>5. Symbols[main.i] = Here  BY DEF Here
<1> QED  BY <1>2, <1>3, <1>4, <1>5

\* main() knows of every pipeline what it has still to start and what has ended.
LEMMA MainKeepsOrder ==
    ASSUME TypeInv, MainInv, RunnerInv, Main \/ Finish
    PROVE  MainInv'
<1>0. /\ N \in Nat \ {0} /\ N = Len(Symbols)
      /\ main.i \in 1..N /\ main \in [at : Places, i : 1..N]
  BY Numbered, HereIs DEF N, TypeInv
<1> USE <1>0, MainMoves DEF MainInv, FeedUnborn, EngineUnborn, EngineGone, FeedGone, Stopping, Stopped,
                 At, Then, NextOr, Places
<1>1. CASE TelemetryStart  BY <1>1 DEF TelemetryStart
<1>2. CASE FeedStart  BY <1>2 DEF FeedStart
<1>3. CASE EngineStart  BY <1>3 DEF EngineStart
<1>4. CASE StatusLoop  BY <1>4 DEF StatusLoop
<1>5. CASE ReadPosition  BY <1>5 DEF ReadPosition
<1>6. CASE ReadEquity  BY <1>6 DEF ReadEquity
<1>7. CASE PublishStatus  BY <1>7 DEF PublishStatus
<1>8. CASE Elapsed  BY <1>8 DEF Elapsed
<1>9. CASE EngineStop  BY <1>9 DEF EngineStop
<1>10. CASE EngineJoin  BY <1>10 DEF EngineJoin
<1>11. CASE FeedStop  BY <1>11 DEF FeedStop
<1>12. CASE FeedJoin
  <2>1. feed[Here].at = "done" /\ runner[Here] \in {"none", "done"}
    <3>1. Here \in Sym /\ feed_kind \in {"ws", "poll"}  BY HereIs DEF TypeInv
    <3> QED  BY <1>12, <3>1 DEF FeedJoin, RunnerInv
  <2>2. main.at = "feed_join" /\ UNCHANGED <<feed, runner, engine>>  BY <1>12 DEF FeedJoin
  <2>3. CASE main.i < N  BY <1>12, <2>1, <2>2, <2>3 DEF FeedJoin
  <2>4. CASE ~(main.i < N)
    <3>1. main.i = N /\ main'.at = "telemetry_stop" /\ main'.i = 1
      BY <1>12, <2>4 DEF FeedJoin
    <3>2. \A k \in 1..N : k < main.i \/ k = main.i  BY <3>1
    <3> QED  BY <2>1, <2>2, <3>1, <3>2
  <2> QED  BY <2>3, <2>4
<1>13. CASE Finish  BY <1>13 DEF Finish
<1> QED
  BY <1>1, <1>2, <1>3, <1>4, <1>5, <1>6, <1>7, <1>8, <1>9, <1>10, <1>11, <1>12, <1>13
  DEF Main

\* main() starts a stream's run() with its feed and touches neither afterwards.
LEMMA MainKeepsRunners ==
    ASSUME TypeInv, RunnerInv, Main \/ Finish
    PROVE  RunnerInv'
<1>0. /\ UNCHANGED feed_kind /\ feed_kind \in {"ws", "poll"} /\ Here \in Sym
      /\ runner \in [Sym -> {"none", "check", "ws_stop", "done"}]
      /\ feed \in [Sym -> Thread(FeedPlaces)]
  BY MainStep, HereIs DEF TypeInv
<1>1. CASE FeedStart
  <2>1. \A r \in Sym : r # Here => Launch(feed)[r] = feed[r]  BY <1>0, LaunchHaltIs
  <2> QED  BY <1>0, <1>1, <2>1 DEF FeedStart, RunnerInv
<1>2. CASE FeedStop
  <2>1. \A r \in Sym : Halt(feed)[r].at = feed[r].at  BY <1>0, LaunchHaltIs
  <2> QED  BY <1>0, <1>2, <2>1 DEF FeedStop, RunnerInv
<1>3. CASE ~FeedStart /\ ~FeedStop
  <2>1. UNCHANGED <<feed, runner>>
    BY <1>3 DEF Main, Finish, TelemetryStart, EngineStart, StatusLoop, ReadPosition, ReadEquity,
                PublishStatus, Elapsed, EngineStop, EngineJoin, FeedJoin
  <2> QED  BY <1>0, <2>1 DEF RunnerInv
<1> QED  BY <1>1, <1>2, <1>3

-----------------------------------------------------------------------------
(* Ticks.                                                                  *)

\* Adding at the end and taking from the front, in terms of places.
LEMMA QueueIs ==
    ASSUME NEW q \in Seq(Nat), NEW n \in Nat
    PROVE  /\ Len(Append(q, n)) = Len(q) + 1
           /\ \A k \in 1..Len(q) : Append(q, n)[k] = q[k]
           /\ Append(q, n)[Len(q) + 1] = n
           /\ q # <<>> => /\ Head(q) = q[1] /\ Len(q) >= 1 /\ Len(q) \in Nat
                          /\ Len(Tail(q)) = Len(q) - 1
                          /\ \A k \in 1..Len(q) - 1 : Tail(q)[k] = q[k + 1]
  OBVIOUS

\* The feed hands on what it has made.
LEMMA FeedKeepsTicks ==
    ASSUME TypeInv, RunnerInv, TickInv,
           NEW s \in Sym, MakeTick(s) \/ FeedRuns(s) \/ StreamRuns(s)
    PROVE  TickInv'
<1>0. /\ feed \in [Sym -> Thread(FeedPlaces)] /\ feed[s].running \in BOOLEAN
      /\ made \in [Sym -> Nat] /\ handled \in [Sym -> Nat] /\ queue \in [Sym -> Seq(Nat)]
  BY DEF TypeInv, Thread
<1>1. /\ UNCHANGED handled
      /\ \A r \in Sym : r # s => feed'[r] = feed[r] /\ made'[r] = made[r] /\ queue'[r] = queue[r]
      /\ feed'[s].running = feed[s].running
      /\ feed[s].at \in {"none", "done"} => feed'[s].at = feed[s].at
  BY FeedStep, FeedKeeps
<1>2. \A place \in FeedPlaces : Goto(feed, s, place)[s].at = place
  <2>1. feed \in [Sym -> Thread(FeedPlaces)]  BY <1>0
  <2> QED  BY <2>1, GotoIs
<1>3. ASSUME NEW r \in Sym, r # s
      PROVE  /\ feed'[r].at = "none" => made'[r] = 0 /\ handled'[r] = 0 /\ queue'[r] = <<>>
             /\ feed'[r].running => InOrder(r)'
  BY <1>1, <1>3 DEF TickInv, InOrder, InHand
<1>4. /\ feed'[s].at = "none" => made'[s] = 0 /\ handled'[s] = 0 /\ queue'[s] = <<>>
      /\ feed'[s].running => InOrder(s)'
  <2>1. CASE MakeTick(s)
    <3>1. /\ feed[s].at = "check" /\ feed'[s].at = "wait"
          /\ made'[s] = made[s] + 1 /\ queue' = queue
      BY <1>0, <1>2, <2>1 DEF MakeTick, FeedPlaces
    <3>2. ASSUME feed[s].running PROVE InOrder(s)'
      <4>1. InOrder(s)  BY <3>2 DEF TickInv
      <4>2. InHand(s) = 0 /\ InHand(s)' = 1  BY <3>1 DEF InHand
      <4>3. handled'[s] = handled[s] /\ queue'[s] = queue[s]  BY <1>1, <3>1
      <4>4. made[s] \in Nat /\ handled[s] \in Nat  BY <1>0
      <4> QED  BY <3>1, <4>1, <4>2, <4>3, <4>4 DEF InOrder
    <3> QED  BY <1>1, <3>1, <3>2
  <2>2. CASE PollEnds(s)
    BY <1>0, <1>1, <1>2, <2>2 DEF PollEnds, TickInv, InOrder, InHand, FeedPlaces
  <2>3. CASE FeedWait(s)
    BY <1>0, <1>1, <1>2, <2>3 DEF FeedWait, TickInv, InOrder, InHand, FeedPlaces
  <2>4. CASE FeedPush(s)
    <3>1. CASE Len(queue[s]) < Capacity
      <4>1. queue'[s] = Append(queue[s], made[s]) /\ made'[s] = made[s] /\ feed[s].at = "push"
            /\ feed'[s].at = "check"
        BY <1>0, <1>2, <2>4, <3>1 DEF FeedPush, FeedPlaces
      <4>2. ASSUME feed[s].running PROVE InOrder(s)'
        <5>1. Len(queue[s]) = made[s] - 1 - handled[s]
              /\ \A k \in 1..Len(queue[s]) : queue[s][k] = handled[s] + k
          BY <4>1, <4>2 DEF TickInv, InOrder, InHand
        <5>2. /\ Len(queue'[s]) = Len(queue[s]) + 1
              /\ \A k \in 1..Len(queue[s]) : queue'[s][k] = queue[s][k]
              /\ queue'[s][Len(queue[s]) + 1] = made[s]
          BY <1>0, <4>1, QueueIs
        <5>3. Len(queue[s]) \in Nat /\ made[s] \in Nat /\ handled[s] \in Nat  BY <1>0
        <5>4. \A k \in 1..Len(queue'[s]) : queue'[s][k] = handled[s] + k
          <6> SUFFICES ASSUME NEW k \in 1..Len(queue'[s])
                       PROVE  queue'[s][k] = handled[s] + k
            OBVIOUS
          <6>1. CASE k \in 1..Len(queue[s])  BY <5>1, <5>2, <6>1
          <6>2. CASE k = Len(queue[s]) + 1
            <7>1. queue'[s][k] = made[s]  BY <5>2, <6>2
            <7>2. made[s] = handled[s] + k  BY <5>1, <5>3, <6>2
            <7> QED  BY <7>1, <7>2
          <6> QED  BY <5>2, <5>3, <6>1, <6>2
        <5> QED  BY <1>1, <4>1, <5>1, <5>2, <5>3, <5>4 DEF InOrder, InHand
      <4> QED  BY <1>1, <4>1, <4>2
    <3>2. CASE ~(Len(queue[s]) < Capacity)
      BY <1>0, <1>1, <1>2, <2>4, <3>2 DEF FeedPush, TickInv, InOrder, InHand, FeedPlaces
    <3> QED  BY <3>1, <3>2
  <2>5. CASE StreamCheck(s)
    BY <1>1, <2>5 DEF StreamCheck, TickInv, InOrder, InHand
  <2>6. CASE StreamEnds(s)
    BY <1>0, <1>1, <1>2, <2>6 DEF StreamEnds, TickInv, InOrder, InHand, FeedPlaces
  <2> QED  BY <2>1, <2>2, <2>3, <2>4, <2>5, <2>6 DEF FeedRuns, StreamRuns
<1> QED  BY <1>3, <1>4 DEF TickInv

\* The engine takes ticks from the front.
LEMMA EngineKeepsTicks ==
    ASSUME TypeInv, TickInv, NEW s \in Sym, Engine(s)
    PROVE  TickInv'
<1>0. /\ made \in [Sym -> Nat] /\ handled \in [Sym -> Nat] /\ queue \in [Sym -> Seq(Nat)]
  BY DEF TypeInv
<1>1. /\ UNCHANGED <<feed, made>>
      /\ \A r \in Sym : r # s => handled'[r] = handled[r] /\ queue'[r] = queue[r]
  BY EngineStep
<1>2. ASSUME NEW r \in Sym, r # s
      PROVE  /\ feed'[r].at = "none" => made'[r] = 0 /\ handled'[r] = 0 /\ queue'[r] = <<>>
             /\ feed'[r].running => InOrder(r)'
  BY <1>1, <1>2 DEF TickInv, InOrder, InHand
<1>3. /\ feed'[s].at = "none" => made'[s] = 0 /\ handled'[s] = 0 /\ queue'[s] = <<>>
      /\ feed'[s].running => InOrder(s)'
  <2>1. CASE UNCHANGED <<handled, queue>>
    BY <1>1, <2>1 DEF TickInv, InOrder, InHand
  <2>2. CASE EnginePop(s) /\ queue[s] # <<>>
    <3>1. handled'[s] = Head(queue[s]) /\ queue'[s] = Tail(queue[s])
      BY <1>0, <2>2 DEF EnginePop
    <3>2. ASSUME feed[s].running PROVE InOrder(s)'
      <4>1. Len(queue[s]) = made[s] - InHand(s) - handled[s]
            /\ \A k \in 1..Len(queue[s]) : queue[s][k] = handled[s] + k
        BY <3>2 DEF TickInv, InOrder
      <4>2. Head(queue[s]) = queue[s][1] /\ Len(queue[s]) >= 1 /\ Len(queue[s]) \in Nat
            /\ Len(Tail(queue[s])) = Len(queue[s]) - 1
            /\ \A k \in 1..Len(queue[s]) - 1 : Tail(queue[s])[k] = queue[s][k + 1]
        BY <1>0, <2>2, QueueIs
      <4>3. handled'[s] = handled[s] + 1  BY <3>1, <4>1, <4>2
      <4>4. made[s] \in Nat /\ handled[s] \in Nat /\ InHand(s) \in 0..1  BY <1>0 DEF InHand
      <4>5. InHand(s)' = InHand(s) /\ made'[s] = made[s]  BY <1>1 DEF InHand
      <4>6. Len(queue'[s]) = made'[s] - InHand(s)' - handled'[s]
        BY <3>1, <4>1, <4>2, <4>3, <4>4, <4>5
      <4>7. \A k \in 1..Len(queue'[s]) : queue'[s][k] = handled'[s] + k
        <5> SUFFICES ASSUME NEW k \in 1..Len(queue'[s])
                     PROVE  queue'[s][k] = handled'[s] + k
          OBVIOUS
        <5>1. k + 1 \in 1..Len(queue[s]) /\ k \in 1..Len(queue[s]) - 1  BY <3>1, <4>2
        <5>2. queue'[s][k] = queue[s][k + 1]  BY <3>1, <4>2, <5>1
        <5>3. queue[s][k + 1] = handled[s] + (k + 1)  BY <4>1, <5>1
        <5> QED  BY <4>3, <4>4, <5>1, <5>2, <5>3
      <4> QED  BY <4>6, <4>7 DEF InOrder
    <3>3. feed[s].at = "none" => queue[s] = <<>>  BY DEF TickInv
    <3> QED  BY <1>1, <2>2, <3>2, <3>3
  <2> QED
    BY <2>1, <2>2 DEF Engine, EngineCheck, EnginePop, EngineBook, EngineMeasure, EnginePublish
<1> QED  BY <1>2, <1>3 DEF TickInv

\* A feed starts with nothing made; what stop() makes of it is no longer promised.
LEMMA MainKeepsTicks ==
    ASSUME TypeInv, MainInv, TickInv, Main \/ Finish
    PROVE  TickInv'
<1>0. /\ UNCHANGED <<made, queue, handled>> /\ Here \in Sym
      /\ feed \in [Sym -> Thread(FeedPlaces)]
  BY MainStep, HereIs DEF TypeInv
<1>1. CASE FeedStart
  <2>1. PICK s \in Sym : s = Here  BY <1>0
  <2>2. /\ feed'[s] = [running |-> TRUE, at |-> "check"]
        /\ \A r \in Sym : r # s => feed'[r] = feed[r]
    BY <1>0, <1>1, <2>1, LaunchHaltIs DEF FeedStart
  <2>3. feed[s].at = "none"
    BY <1>1, <2>1, HereIs DEF FeedStart, At, MainInv, FeedUnborn, Here, TypeInv
  <2>4. made'[s] = 0 /\ handled'[s] = 0 /\ queue'[s] = <<>>  BY <1>0, <2>3 DEF TickInv
  <2>5. InHand(s)' = 0  BY <2>2 DEF InHand
  <2>6. InOrder(s)'  BY <2>4, <2>5 DEF InOrder
  <2>7. ASSUME NEW r \in Sym, r # s
        PROVE  /\ feed'[r].at = "none" => made'[r] = 0 /\ handled'[r] = 0 /\ queue'[r] = <<>>
               /\ feed'[r].running => InOrder(r)'
    BY <1>0, <2>2, <2>7 DEF TickInv, InOrder, InHand
  <2>8. feed'[s].at # "none"  BY <2>2
  <2> QED  BY <2>6, <2>7, <2>8 DEF TickInv
<1>2. CASE FeedStop
  <2>1. /\ ~feed'[Here].running
        /\ \A r \in Sym : feed'[r].at = feed[r].at
        /\ \A r \in Sym : r # Here => feed'[r] = feed[r]
    BY <1>0, <1>2, LaunchHaltIs DEF FeedStop
  <2> QED  BY <1>0, <2>1 DEF TickInv, InOrder, InHand
<1>3. CASE ~FeedStart /\ ~FeedStop
  <2>1. UNCHANGED feed
    BY <1>3 DEF Main, Finish, TelemetryStart, EngineStart, StatusLoop, ReadPosition, ReadEquity,
                PublishStatus, Elapsed, EngineStop, EngineJoin, FeedJoin
  <2> QED  BY <1>0, <2>1 DEF TickInv, InOrder, InHand
<1> QED  BY <1>1, <1>2, <1>3

-----------------------------------------------------------------------------
(* Fills.                                                                  *)

\* What is still to be told of the fills of one engine.
Told(s) ==
    /\ \A f \in Fields : pos[s][f] <= fills[s]
    /\ engine[s].at # "book" => \A f \in Fields : pos[s][f] = fills[s]
    /\ told[s].lat_hist = fills[s] - (IF engine[s].at \in {"book", "measure"} THEN 1 ELSE 0)
    /\ told[s].telemetry =
          fills[s] - (IF engine[s].at \in {"book", "measure", "publish"} THEN 1 ELSE 0)

\* The engine reports a fill before it looks for the next tick, or at running_.
LEMMA EngineKeepsFills ==
    ASSUME TypeInv, FillInv, NEW s \in Sym, Engine(s)
    PROVE  FillInv'
<1>0. /\ engine \in [Sym -> Thread(EnginePlaces)] /\ fills \in [Sym -> Nat]
      /\ told \in [Sym -> [lat_hist : Nat, telemetry : Nat]]
      /\ pos \in [Sym -> [Fields -> Nat]]
  BY DEF TypeInv
<1>1. \A place \in EnginePlaces : Goto(engine, s, place)[s].at = place  BY <1>0, GotoIs
<1>2. \A r \in Sym : Told(r)  BY DEF FillInv, Told
<1>3. ASSUME NEW r \in Sym, r # s PROVE Told(r)'
  <2>1. /\ engine'[r] = engine[r] /\ fills'[r] = fills[r]
        /\ told'[r] = told[r] /\ pos'[r] = pos[r]
    BY <1>3, EngineStep
  <2> QED  BY <1>2, <2>1 DEF Told
<1>4. Told(s)'
  <2>0. Told(s) /\ fills[s] \in Nat /\ \A f \in Fields : pos[s][f] \in Nat  BY <1>0, <1>2
  <2>1. CASE EngineCheck(s)
    <3>1. engine[s].at = "check" /\ engine'[s].at \in {"pop", "done"}
      BY <1>1, <2>1 DEF EngineCheck, EnginePlaces
    <3> QED  BY <2>0, <2>1, <3>1 DEF EngineCheck, Told
  <2>2. CASE EnginePop(s)
    <3>1. /\ engine[s].at = "pop" /\ UNCHANGED <<told, pos>>
          /\ \/ engine'[s].at = "check" /\ fills'[s] = fills[s]
             \/ engine'[s].at = "book" /\ fills'[s] = fills[s] + 1
      BY <1>0, <1>1, <2>2 DEF EnginePop, EnginePlaces
    <3> QED  BY <2>0, <3>1 DEF Told
  <2>3. CASE EngineBook(s)
    <3>1. /\ engine[s].at = "book" /\ UNCHANGED <<told, fills>>
      BY <2>3 DEF EngineBook
    <3>2. CASE \E f \in Fields : /\ pos[s][f] < fills[s]
                                 /\ pos' = [pos EXCEPT ![s][f] = fills[s]]
                                 /\ UNCHANGED engine
      <4>1. PICK f \in Fields : /\ pos[s][f] < fills[s]
                                /\ pos' = [pos EXCEPT ![s][f] = fills[s]]
                                /\ UNCHANGED engine
        BY <3>2
      <4>2. \A g \in Fields : pos'[s][g] \in {pos[s][g], fills[s]}  BY <1>0, <4>1
      <4> QED  BY <2>0, <3>1, <4>1, <4>2 DEF Told
    <3>3. CASE /\ \A f \in Fields : pos[s][f] = fills[s]
               /\ engine' = Goto(engine, s, "measure") /\ UNCHANGED pos
      <4>1. engine'[s].at = "measure"  BY <1>1, <3>3 DEF EnginePlaces
      <4> QED  BY <2>0, <3>1, <3>3, <4>1 DEF Told
    <3> QED  BY <2>3, <3>2, <3>3 DEF EngineBook
  <2>4. CASE EngineMeasure(s)
    <3>1. /\ engine[s].at = "measure" /\ engine'[s].at = "publish"
          /\ UNCHANGED <<fills, pos>>
      BY <1>1, <2>4 DEF EngineMeasure, EnginePlaces
    <3>2. told'[s].lat_hist = told[s].lat_hist + 1 /\ told'[s].telemetry = told[s].telemetry
      BY <1>0, <2>4, ToldIs DEF EngineMeasure
    <3> QED  BY <2>0, <3>1, <3>2 DEF Told
  <2>5. CASE EnginePublish(s)
    <3>1. /\ engine[s].at = "publish" /\ engine'[s].at = "check"
          /\ UNCHANGED <<fills, pos>>
      BY <1>1, <2>5 DEF EnginePublish, EnginePlaces
    <3>2. told'[s].telemetry = told[s].telemetry + 1 /\ told'[s].lat_hist = told[s].lat_hist
      BY <1>0, <2>5, ToldIs DEF EnginePublish
    <3> QED  BY <2>0, <3>1, <3>2 DEF Told
  <2> QED  BY <2>1, <2>2, <2>3, <2>4, <2>5 DEF Engine
<1> QED  BY <1>3, <1>4 DEF FillInv, Told

\* main() starts an engine before its first fill, and stop() does not move it.
LEMMA MainKeepsFills ==
    ASSUME TypeInv, MainInv, FillInv, Main \/ Finish
    PROVE  FillInv'
<1>0. /\ UNCHANGED <<fills, told, pos>> /\ Here \in Sym
      /\ engine \in [Sym -> Thread(EnginePlaces)]
  BY MainStep, HereIs DEF TypeInv
<1>1. \A r \in Sym : engine'[r].at = engine[r].at \/ {engine[r].at, engine'[r].at} = {"none", "check"}
  <2>1. CASE EngineStart
    <3>1. engine[Here].at = "none"
      BY <2>1, HereIs DEF EngineStart, At, MainInv, EngineUnborn, Here, TypeInv
    <3>2. engine'[Here].at = "check" /\ \A r \in Sym : r # Here => engine'[r] = engine[r]
      <4>1. /\ Launch(engine)[Here] = [running |-> TRUE, at |-> "check"]
            /\ \A r \in Sym : r # Here => Launch(engine)[r] = engine[r]
        BY <1>0, LaunchHaltIs
      <4>2. engine' = Launch(engine)  BY <2>1 DEF EngineStart
      <4> QED  BY <4>1, <4>2
    <3> QED  BY <3>1, <3>2
  <2>2. CASE EngineStop
    <3>1. \A r \in Sym : Halt(engine)[r].at = engine[r].at  BY <1>0, LaunchHaltIs
    <3>2. engine' = Halt(engine)  BY <2>2 DEF EngineStop
    <3> QED  BY <3>1, <3>2
  <2>3. CASE ~EngineStart /\ ~EngineStop
    BY <2>3 DEF Main, Finish, TelemetryStart, FeedStart, StatusLoop, ReadPosition, ReadEquity,
                PublishStatus, Elapsed, EngineJoin, FeedStop, FeedJoin
  <2> QED  BY <2>1, <2>2, <2>3
<1>2. ASSUME NEW r \in Sym PROVE Told(r)'
  <2>1. Told(r)  BY DEF FillInv, Told
  <2>2. engine'[r].at = engine[r].at \/ (engine[r].at \in {"none", "check"}
                                         /\ engine'[r].at \in {"none", "check"})
    BY <1>1
  <2> QED  BY <1>0, <2>1, <2>2 DEF Told
<1> QED  BY <1>2 DEF FillInv, Told

-----------------------------------------------------------------------------
(* The invariant, and what follows from it.                                *)

\* The program starts in it.
LEMMA InitIInv == Init => IInv
<1> SUFFICES ASSUME Init PROVE IInv  OBVIOUS
<1>0. N \in Nat \ {0} /\ \A k \in 1..N : Symbols[k] \in Sym  BY Numbered
<1>1. TypeInv  BY <1>0 DEF Init, TypeInv, NoThread, Thread, FeedPlaces, EnginePlaces, Places
<1>2. MainInv
  BY <1>0 DEF Init, MainInv, NoThread, EngineGone, FeedGone, Stopping, Stopped
<1>3. RunnerInv  BY DEF Init, RunnerInv
<1>4. TickInv  BY DEF Init, TickInv, NoThread
<1>5. FillInv  BY DEF Init, FillInv, NoThread
<1> QED  BY <1>1, <1>2, <1>3, <1>4, <1>5 DEF IInv

\* Every step keeps it.
LEMMA NextIInv == IInv /\ [Next]_vars => IInv'
<1> SUFFICES ASSUME IInv, [Next]_vars PROVE IInv'  OBVIOUS
<1> USE DEF IInv
<1>1. ASSUME NEW s \in Sym, MakeTick(s) \/ FeedRuns(s) \/ StreamRuns(s) PROVE IInv'
  <2>1. TypeInv' /\ UNCHANGED <<main, engine, fills, told, pos>>  BY <1>1, FeedStep
  <2>2. \A r \in Sym :
            /\ feed[r].at \in {"none", "done"} => feed'[r].at = feed[r].at
            /\ runner[r] \in {"none", "done"} => runner'[r] = runner[r]
    BY <1>1, FeedStep, FeedKeeps
  <2>3. MainInv'
    BY <2>1, <2>2, Numbered DEF MainInv, FeedUnborn, EngineUnborn, EngineGone, FeedGone
  <2>4. FillInv'  BY <2>1 DEF FillInv
  <2> QED  BY <1>1, <2>1, <2>3, <2>4, FeedKeeps, FeedKeepsTicks
<1>2. ASSUME NEW s \in Sym, Engine(s) PROVE IInv'
  <2>1. TypeInv' /\ UNCHANGED <<feed_kind, main, feed, runner>>  BY <1>2, EngineStep
  <2>2. \A r \in Sym : engine[r].at \in {"none", "done"} => engine'[r].at = engine[r].at
    BY <1>2, EngineStep
  <2>3. MainInv'
    BY <2>1, <2>2, Numbered DEF MainInv, FeedUnborn, EngineUnborn, EngineGone, FeedGone
  <2>4. RunnerInv'  BY <2>1 DEF RunnerInv
  <2> QED  BY <1>2, <2>1, <2>3, <2>4, EngineKeepsTicks, EngineKeepsFills
<1>3. CASE Main \/ Finish
  BY <1>3, MainStep, MainKeepsOrder, MainKeepsRunners, MainKeepsTicks, MainKeepsFills
<1>4. CASE Signal \/ UNCHANGED vars
  <2>1. UNCHANGED <<feed_kind, main, feed, runner, made, queue, engine, handled, fills, told, pos>>
    BY <1>4 DEF Signal, vars
  <2>2. TypeInv'  BY <2>1 DEF TypeInv
  <2>3. MainInv'  BY <2>1 DEF MainInv, FeedUnborn, EngineUnborn, EngineGone, FeedGone
  <2>4. RunnerInv' /\ TickInv' /\ FillInv'
    BY <2>1 DEF RunnerInv, TickInv, InOrder, InHand, FillInv
  <2> QED  BY <2>2, <2>3, <2>4
<1> QED  BY <1>1, <1>2, <1>3, <1>4 DEF Next

\* The four parts hold together in every state.
THEOREM InductiveInvariant == Spec => []IInv
  BY InitIInv, NextIInv, PTL DEF Spec

\* For any number of pipelines, queue capacity and kind of feed: while a feed runs its
\* ticks are handled, queued or in its hand, in their order, none lost and none twice.
THEOREM TicksInOrder == Spec => []TicksAccountedFor
<1>1. IInv => TicksAccountedFor
  <2> SUFFICES ASSUME IInv, NEW s \in Sym, feed[s].running
               PROVE  queue[s] = [k \in 1..made[s] - InHand(s) - handled[s] |-> handled[s] + k]
    BY DEF TicksAccountedFor, InHand
  <2>1. InOrder(s)  BY DEF IInv, TickInv
  <2>2. queue[s] \in Seq(Nat) /\ made[s] \in Nat /\ handled[s] \in Nat  BY DEF IInv, TypeInv
  <2>3. queue[s] \in [1..Len(queue[s]) -> Nat]  BY <2>2
  <2>4. queue[s] = [k \in 1..Len(queue[s]) |-> queue[s][k]]  BY <2>3
  <2>5. Len(queue[s]) = made[s] - InHand(s) - handled[s]  BY <2>1 DEF InOrder
  <2>6. \A k \in 1..Len(queue[s]) : queue[s][k] = handled[s] + k  BY <2>1 DEF InOrder
  <2> QED  BY <2>4, <2>5, <2>6
<1> QED  BY <1>1, InductiveInvariant, PTL

\* For any number of pipelines main() has waited for all of their threads, callbacks of
\* streams included, before it stops the publisher and lets go of the pipelines.
THEOREM AllThreadsEnd == Spec => []NobodyPublishesLate
<1>1. IInv => NobodyPublishesLate
  BY Numbered DEF IInv, MainInv, EngineGone, FeedGone, Stopped, NobodyPublishesLate
<1> QED  BY <1>1, InductiveInvariant, PTL

\* Wherever in a fill the signal finds an engine, position, latency statistics and log
\* then have that fill, and no fill has been reported twice.
THEOREM NoFillLost == Spec => []EveryFillReported
<1>1. IInv => EveryFillReported
  <2> SUFFICES ASSUME IInv, main.at \in Stopped, NEW s \in Sym
               PROVE  /\ \A f \in Fields : pos[s][f] = fills[s]
                      /\ told[s] = [lat_hist |-> fills[s], telemetry |-> fills[s]]
    BY DEF EveryFillReported, Stopped
  <2>1. engine[s].at = "done"  BY Numbered DEF IInv, MainInv, EngineGone
  <2>2. /\ told[s].lat_hist = fills[s] - 0
        /\ told[s].telemetry = fills[s] - 0
        /\ \A f \in Fields : pos[s][f] = fills[s]
    BY <2>1 DEF IInv, FillInv
  <2>3. fills[s] \in Nat /\ told[s] \in [lat_hist : Nat, telemetry : Nat]
    BY DEF IInv, TypeInv
  <2>4. told[s].lat_hist = fills[s] /\ told[s].telemetry = fills[s]
    BY <2>2, <2>3
  <2>5. told[s] = [lat_hist |-> told[s].lat_hist, telemetry |-> told[s].telemetry]
    BY <2>3
  <2> QED  BY <2>2, <2>4, <2>5
<1> QED  BY <1>1, InductiveInvariant, PTL
=============================================================================
