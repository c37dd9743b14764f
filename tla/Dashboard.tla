------------------------------ MODULE Dashboard ------------------------------
(***************************************************************************)
(* The dashboard page of web/app.js in its two modes.                      *)
(*                                                                         *)
(* Live: the trader's WsSink sends every record to the connection that is  *)
(* open; the page processes the frames, snapshots its state to the         *)
(* session storage at most once in SaveInterval, restores it when it is    *)
(* reloaded, and connects again when the connection ends.  The trader may  *)
(* stop and start again, connections break with frames on the way, and a   *)
(* frame may not parse (a long symbol list is cut in the meta record).     *)
(*                                                                         *)
(* Replay: a file is fetched, sorted and played once, or again and again.  *)
(***************************************************************************)
EXTENDS DashboardView

CONSTANTS
    Symbols,       \* what is traded
    SymList,       \* the trader's symbols
    Lines,         \* replay: the kinds of line in a file
    SaveInterval,  \* the second between two snapshots, in ticks of the clock
    MaxTime,       \* bound: ticks of the clock
    MaxRecords,    \* bound: records of the trader
    MaxStarts,     \* bound: starts of the trader
    MaxFaults,     \* bound: connections that fail while the trader serves
    MaxLines       \* bound: lines of a file

\* The trader does not start without a symbol.
ASSUME SymListAssumption == SymList \in Seq(Symbols) \ {<<>>}
ASSUME LinesAssumption ==
    Lines \subseteq [t : {"garbled"}] \cup [t : {"meta"}, ts : Int, symbols : Seq(Symbols)]
                      \cup [t : {"status", "fill"}, ts : Int, sym : Symbols]
ASSUME IntervalAssumption == SaveInterval \in Nat

VARIABLES
    mode,      \* "live" or "replay", and whether to loop
    page,      \* state and panels
    pill,      \* the status pill
    shown,     \* ghost: the records the page's state is made of, and when they came
    snapshot,  \* live: what the session storage holds
    lastSave,  \* live: _lastSave
    now,       \* live: Date.now()
    trader,    \* live: the trader's phase, and how often it started
    sock,      \* live: the page's WebSocket, or its retry timer
    wire,      \* live: frames on the connection
    sent,      \* live: records written, and faults so far
    replay     \* replay: the fetched file, its sorted records, and the place in them

live == <<snapshot, lastSave, now, trader, sock, wire, sent>>
vars == <<mode, page, pill, shown, replay, live>>

NoFile == [at |-> "fetch", file |-> <<>>, records |-> <<>>, i |-> 1]
Never == -SaveInterval
Nothing == [state |-> <<>>, shown |-> <<>>]

Init ==
    /\ mode \in [kind : {"live"}, loop : {FALSE}, storage : BOOLEAN]
                \cup [kind : {"replay"}, loop : BOOLEAN, storage : {TRUE}]
    /\ page = EmptyPage
    /\ pill = "connecting"
    /\ shown = <<>>
    /\ snapshot = Nothing /\ lastSave = Never /\ now = 0
    /\ trader = [phase |-> "down", starts |-> 0]
    /\ sock = "connecting" /\ wire = <<>>
    /\ sent = [records |-> 0, faults |-> 0]
    /\ replay = NoFile

-----------------------------------------------------------------------------
(* The trader: its server listens before the meta record is written.       *)

Live == mode.kind = "live" /\ UNCHANGED <<mode, replay>>
PageSame == UNCHANGED <<page, pill, shown, snapshot, lastSave>>

\* Binding the port may fail; then no record is sent to anybody.
TraderStarts ==
    /\ Live
    /\ trader.phase = "down" /\ trader.starts < MaxStarts
    /\ \E phase \in {"starting", "deaf"} :
          trader' = [phase |-> phase, starts |-> trader.starts + 1]
    /\ PageSame /\ UNCHANGED <<now, sock, wire, sent>>

\* write_line: one frame to a client that is open.
WriteLine(rec) ==
    /\ wire' = IF sock = "open" THEN Append(wire, rec) ELSE wire
    /\ sent' = [sent EXCEPT !.records = @ + 1]

\* The meta record, whose list of symbols may be cut where no JSON ends.
WriteMeta ==
    /\ Live
    /\ trader.phase = "starting"
    /\ trader' = [trader EXCEPT !.phase = "serving"]
    /\ \E t \in {"meta", "garbled"} :
          WriteLine([t |-> t, id |-> sent.records + 1, symbols |-> SymList])
    /\ PageSame /\ UNCHANGED <<now, sock>>

WriteRecord ==
    /\ Live
    /\ trader.phase = "serving" /\ sent.records < MaxRecords
    /\ \E t \in {"status", "fill"}, sym \in Range(SymList) :
          WriteLine([t |-> t, id |-> sent.records + 1, sym |-> sym])
    /\ PageSame /\ UNCHANGED <<now, trader, sock>>

\* ~WsSink stops the server; the page may still read what it was sent.
TraderStops ==
    /\ Live
    /\ trader.phase # "down"
    /\ trader' = [trader EXCEPT !.phase = "down"]
    /\ sock' = IF sock = "open" THEN "closing" ELSE sock
    /\ PageSame /\ UNCHANGED <<now, wire, sent>>

-----------------------------------------------------------------------------
(* The page, live.                                                         *)

Listening == trader.phase \in {"starting", "serving"}

\* onopen
Opened ==
    /\ Live
    /\ sock = "connecting" /\ Listening
    /\ sock' = "open" /\ pill' = "LIVE"
    /\ UNCHANGED <<page, shown, snapshot, lastSave, now, trader, wire, sent>>

\* The end of the server closes a connection and refuses one; the network may.
MayClose ==
    \/ sock = "closing"
    \/ sock = "connecting" /\ ~Listening
    \/ sock \in {"connecting", "open"} /\ Listening /\ sent.faults < MaxFaults

\* Mutant of Closed: a connection that never opened is not tried again.
ClosedForGood ==
    /\ Live
    /\ MayClose
    /\ sock' = IF sock = "connecting" THEN "given up" ELSE "waiting"
    /\ sent' = [sent EXCEPT !.faults = IF Listening /\ sock # "closing" THEN @ + 1 ELSE @]
    /\ wire' = <<>> /\ pill' = "RECONNECTING"
    /\ UNCHANGED <<page, shown, snapshot, lastSave, now, trader>>

\* onclose, after onerror if the connection failed: what was on the way is lost.
Closed ==
    /\ Live
    /\ MayClose
    /\ sock' = "waiting" /\ pill' = "RECONNECTING"
    /\ sent' = [sent EXCEPT !.faults = IF Listening /\ sock # "closing" THEN @ + 1 ELSE @]
    /\ wire' = <<>>
    /\ UNCHANGED <<page, shown, snapshot, lastSave, now, trader>>

\* The timer of onclose calls connect(), whose pill is that of the last event.
Retry ==
    /\ Live
    /\ sock = "waiting" /\ sock' = "connecting"
    /\ PageSame /\ UNCHANGED <<now, trader, wire, sent>>

\* Mutant of saveState: every call counts as a save.
saveStateDebounced ==
    /\ lastSave' = IF mode.kind = "live" THEN now ELSE lastSave
    /\ snapshot' = IF mode.kind = "live" /\ now - lastSave >= SaveInterval /\ mode.storage
                   THEN [state |-> Restrict(page', StateFields), shown |-> shown']
                   ELSE snapshot

\* _lastSave is set before setItem, which throws when the storage is disabled.
saveState ==
    IF mode.kind # "live" \/ now - lastSave < SaveInterval
    THEN UNCHANGED <<snapshot, lastSave>>
    ELSE /\ lastSave' = now
         /\ snapshot' = IF mode.storage
                        THEN [state |-> Restrict(page', StateFields), shown |-> shown']
                        ELSE snapshot

processRecord(rec) ==
    /\ page' = Processed(page, rec)
    /\ shown' = Append(shown, With(rec, "at", now))
    /\ saveState

\* onmessage: a frame that does not parse is dropped.
Receive ==
    /\ Live
    /\ sock \in {"open", "closing"} /\ wire # <<>>
    /\ wire' = Tail(wire)
    /\ IF Head(wire).t = "garbled" THEN UNCHANGED <<page, shown, snapshot, lastSave>>
       ELSE processRecord(Head(wire))
    /\ UNCHANGED <<pill, now, trader, sock, sent>>

\* Mutant of loadState: the latency samples are not restored.
loadStateNoLatency ==
    [f \in DOMAIN EmptyPage |-> IF f \in DOMAIN snapshot.state \ {"latSamples"}
                                THEN snapshot.state[f] ELSE EmptyPage[f]]

\* Nothing usable stored leaves the page empty.
loadState ==
    [f \in DOMAIN EmptyPage |-> IF f \in DOMAIN snapshot.state
                                THEN snapshot.state[f] ELSE EmptyPage[f]]

rebuildFromState(restored) ==
    renderLatency(renderFillsTable(renderCards(updatePriceChart(
        [restored EXCEPT !.chart =
            [i \in DOMAIN restored.symbols |->
                [label |-> restored.symbols[i], data |-> <<>>]]]))))

\* The user reloads the page: bootstrap, restore, connect.  (A reloaded replay, which
\* stores nothing, begins again as in Init.)
Refresh ==
    /\ Live
    /\ page' = rebuildFromState(loadState)
    /\ shown' = snapshot.shown
    /\ lastSave' = Never
    /\ pill' = "connecting"
    /\ sock' = "connecting" /\ wire' = <<>>
    /\ UNCHANGED <<snapshot, now, trader, sent>>

Tick ==
    /\ Live
    /\ now < MaxTime /\ now' = now + 1
    /\ PageSame /\ UNCHANGED <<trader, sock, wire, sent>>

-----------------------------------------------------------------------------
(* The page, replaying.                                                    *)

Replaying(place) == mode.kind = "replay" /\ replay.at = place /\ UNCHANGED mode

FetchFails ==
    /\ Replaying("fetch")
    /\ pill' = "FETCH FAILED"
    /\ replay' = [replay EXCEPT !.at = "done"]
    /\ UNCHANGED <<page, shown, live>>

\* ts is the number that JSON.parse makes of ts_ns, as the page compares it.
Before(a, b) == a.ts < b.ts \/ (a.ts = b.ts /\ a.id < b.id)

\* Mutant of Sorted: the file's own order.
Unsorted(recs) ==
    CHOOSE seq \in SetToSeqs(recs) : \A j, k \in DOMAIN seq : j < k => seq[j].id < seq[k].id

\* By ts_ns, and for equal ones, as the sort is stable, by line.
Sorted(recs) ==
    CHOOSE seq \in SetToSeqs(recs) : \A j, k \in DOMAIN seq : j < k => Before(seq[j], seq[k])

\* Lines that do not parse are skipped.
Fetched ==
    /\ Replaying("fetch")
    /\ \E file \in BoundedSeq(Lines, MaxLines) :
          LET lines == [k \in DOMAIN file |-> With(file[k], "id", k)]
              records == Sorted({l \in Range(lines) : l.t # "garbled"})
          IN  /\ replay' = [file |-> lines, records |-> records, i |-> 1,
                            at |-> IF records = <<>> THEN "done" ELSE "play"]
              /\ pill' = IF records = <<>> THEN "EMPTY FILE" ELSE "REPLAY"
    /\ UNCHANGED <<page, shown, live>>

\* One turn of runLoop; after the last record the session is held, or the loop pauses.
Play ==
    /\ Replaying("play")
    /\ processRecord(replay.records[replay.i])
    /\ LET last == replay.i = Len(replay.records) IN
          /\ replay' = [replay EXCEPT
                !.i = IF last THEN 1 ELSE @ + 1,
                !.at = IF ~last THEN "play" ELSE IF mode.loop THEN "pause" ELSE "done"]
          /\ pill' = IF last /\ ~mode.loop THEN "COMPLETE" ELSE pill
    /\ UNCHANGED <<now, trader, sock, wire, sent>>

\* The clean slate of ?loop=1, which leaves the latency figures.
Wipe ==
    /\ Replaying("pause")
    /\ page' = [EmptyPage EXCEPT !.latency = page.latency]
    /\ shown' = <<>>
    /\ replay' = [replay EXCEPT !.at = "play"]
    /\ UNCHANGED <<pill, live>>

-----------------------------------------------------------------------------
Next ==
    \/ TraderStarts \/ WriteMeta \/ WriteRecord \/ TraderStops
    \/ Opened \/ Closed \/ Retry \/ Receive \/ Refresh \/ Tick
    \/ FetchFails \/ Fetched \/ Play \/ Wipe

Spec == Init /\ [][Next]_vars

\* A connection to a server that listens opens, one that was closed ends, timers fire.
\* The trader need not start or stop, and nobody has to reload the page.
FairSpec ==
    /\ Spec
    /\ WF_vars(Opened) /\ WF_vars(Retry)
    /\ WF_vars(Closed /\ sock = "closing")

-----------------------------------------------------------------------------
\* Whatever was lost, dropped, restored or wiped, the seven fields of the state agree
\* on one history of records: those shown, in their order.  Of prices, fills and latency
\* samples it has the latest, up to the size of each buffer.
StateFollowsRecords == StateIsOf(page, shown)

\* After every handler, restore and wipe the panels show the state.
PanelsFollowState == PanelsCurrent(page)

\* What a reload would lose, if the storage works and the clock does not go back, is
\* only the end of what was shown, and only records of the second after the last save.
SnapshotAlmostCurrent ==
    mode.kind = "live" /\ mode.storage /\ shown # <<>> =>
        /\ snapshot.shown # <<>> /\ IsPrefix(snapshot.shown, shown)
        /\ \A k \in Len(snapshot.shown) + 1..Len(shown) :
              shown[k].at - Last(snapshot.shown).at < SaveInterval

\* A replay that says COMPLETE has shown every line that parses, once, by time and, at
\* the same time, in the order of the file.
CompleteShowsFile ==
    pill = "COMPLETE" =>
        /\ {r.id : r \in Range(shown)} = {l.id : l \in {l \in Range(replay.file) : l.t # "garbled"}}
        /\ \A j, k \in DOMAIN shown : j < k => Before(shown[j], shown[k])

\* While a trader serves, a page that lost its connection, or could not get one, gets
\* one in the end, however often it is reloaded meanwhile.
Reconnects ==
    mode.kind = "live" /\ trader.phase = "serving" ~> sock = "open" \/ trader.phase # "serving"
=============================================================================
