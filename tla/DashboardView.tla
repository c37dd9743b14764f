---------------------------- MODULE DashboardView ----------------------------
(***************************************************************************)
(* The state and the panels of the dashboard page, and the handlers of     *)
(* web/app.js that change them.  A record is known by its id, which stands *)
(* for all it says: its mid, its fill, its latency.                        *)
(***************************************************************************)
EXTENDS Integers, SequencesExt

CONSTANTS MAX_PRICE_POINTS, MAX_FILLS_ROWS, MAX_LAT_SAMPLES, NULL

ASSUME BuffersAssumption ==
    {MAX_PRICE_POINTS, MAX_FILLS_ROWS, MAX_LAT_SAMPLES} \subseteq Nat \ {0}

\* The seven fields of `state`, and four panels: cards and price chart by symbol, the
\* rows of the fills table, and the samples the latency figures were computed from.
StateFields ==
    {"symbols", "symIndex", "stats", "priceHist", "fills", "latSamples", "meta"}

EmptyPage ==
    [symbols |-> <<>>, symIndex |-> <<>>, stats |-> <<>>, priceHist |-> <<>>,
     fills |-> <<>>, latSamples |-> <<>>, meta |-> NULL,
     cards |-> <<>>, chart |-> <<>>, table |-> <<>>, latency |-> <<>>]

-----------------------------------------------------------------------------
(* Rendering.                                                              *)

renderCards(page) ==
    [page EXCEPT !.cards = [i \in DOMAIN page.symbols |->
        [sym |-> page.symbols[i], stat |-> page.stats[page.symbols[i]]]]]

\* Data goes to the dataset at the symbol's place; the labels stay.
updatePriceChart(page) ==
    [page EXCEPT !.chart = [i \in DOMAIN @ |->
        IF i \in DOMAIN page.symbols
        THEN [@[i] EXCEPT !.data = page.priceHist[page.symbols[i]]] ELSE @[i]]]

renderFillsTable(page) == [page EXCEPT !.table = page.fills]

\* Without samples it returns at once.
renderLatency(page) ==
    IF page.latSamples = <<>> THEN page ELSE [page EXCEPT !.latency = page.latSamples]

-----------------------------------------------------------------------------
(* Records.                                                                *)

With(f, x, v) == [y \in DOMAIN f \cup {x} |-> IF y = x THEN v ELSE f[y]]

ensureSym(page, sym) ==
    IF sym \in DOMAIN page.symIndex THEN page
    ELSE [page EXCEPT !.symIndex = With(@, sym, Len(page.symbols)),
                      !.symbols = Append(@, sym),
                      !.priceHist = With(@, sym, <<>>),
                      !.stats = With(@, sym, NULL),
                      !.chart = Append(@, [label |-> sym, data |-> <<>>])]

handleMeta(page, rec) ==
    LET pages[k \in 0..Len(rec.symbols)] ==
            IF k = 0 THEN [page EXCEPT !.meta = rec.id]
            ELSE ensureSym(pages[k - 1], rec.symbols[k])
    IN  pages[Len(rec.symbols)]

\* push() and shift(): the newest n.
Pushed(buffer, x, n) ==
    LET longer == Append(buffer, x) IN IF Len(longer) > n THEN Tail(longer) ELSE longer

\* unshift() and pop(): the newest n, newest first.
Unshifted(buffer, x, n) ==
    LET longer == <<x>> \o buffer IN IF Len(longer) > n THEN Front(longer) ELSE longer

handleStatus(page, rec) ==
    LET known == ensureSym(page, rec.sym)
    IN  updatePriceChart(renderCards(
            [known EXCEPT !.stats[rec.sym] = rec.id,
                          !.priceHist[rec.sym] = Pushed(@, rec.id, MAX_PRICE_POINTS)]))

\* Mutant of handleFill: the table is not rendered again.
handleFillUnseen(page, rec) ==
    renderLatency(
        [ensureSym(page, rec.sym) EXCEPT
            !.fills = Unshifted(@, rec.id, MAX_FILLS_ROWS),
            !.latSamples = Pushed(@, rec.id, MAX_LAT_SAMPLES)])

handleFill(page, rec) ==
    renderLatency(renderFillsTable(
        [ensureSym(page, rec.sym) EXCEPT
            !.fills = Unshifted(@, rec.id, MAX_FILLS_ROWS),
            !.latSamples = Pushed(@, rec.id, MAX_LAT_SAMPLES)]))

\* processRecord, but for the call of saveState.
Processed(page, rec) ==
    CASE rec.t = "meta" -> handleMeta(page, rec)
      [] rec.t = "status" -> handleStatus(page, rec)
      [] rec.t = "fill" -> handleFill(page, rec)

-----------------------------------------------------------------------------
(* What the page should hold after some records, from the records alone.   *)

Recent(seq, n) == SubSeq(seq, Max({1, Len(seq) - n + 1}), Len(seq))

\* The ids of the records at some places.
IdsAt(recs, places) ==
    LET ids[k \in 0..Len(recs)] ==
            IF k = 0 THEN <<>>
            ELSE IF k \in places THEN Append(ids[k - 1], recs[k].id) ELSE ids[k - 1]
    IN  ids[Len(recs)]

PlacesOf(recs, t) == {k \in DOMAIN recs : recs[k].t = t}
StatusPlaces(recs, s) == {k \in PlacesOf(recs, "status") : recs[k].sym = s}

LastOrNull(seq) == IF seq = <<>> THEN NULL ELSE Last(seq)

\* A sequence, and behind it what a list names and it has not.
Joined(seq, list) ==
    LET joined[k \in 0..Len(list)] ==
            IF k = 0 THEN seq
            ELSE IF Contains(joined[k - 1], list[k]) THEN joined[k - 1]
            ELSE Append(joined[k - 1], list[k])
    IN  joined[Len(list)]

\* The symbols in the order in which they were first named.
SymbolsIn(rec) == IF rec.t = "meta" THEN rec.symbols ELSE <<rec.sym>>
Named(recs) ==
    LET named[k \in 0..Len(recs)] ==
            IF k = 0 THEN <<>> ELSE Joined(named[k - 1], SymbolsIn(recs[k]))
    IN  named[Len(recs)]

\* The state of a page that was shown these records, in this order.
StateIsOf(page, recs) ==
    LET fillIds == IdsAt(recs, PlacesOf(recs, "fill"))
        syms == Range(page.symbols)
        StatusIds(s) == IdsAt(recs, StatusPlaces(recs, s))
    IN  /\ page.symbols = Named(recs)
        /\ DOMAIN page.symIndex = syms
        /\ \A i \in DOMAIN page.symbols : page.symIndex[page.symbols[i]] = i - 1
        /\ page.stats = [s \in syms |-> LastOrNull(StatusIds(s))]
        /\ page.priceHist = [s \in syms |-> Recent(StatusIds(s), MAX_PRICE_POINTS)]
        /\ page.fills = Reverse(Recent(fillIds, MAX_FILLS_ROWS))
        /\ page.latSamples = Recent(fillIds, MAX_LAT_SAMPLES)
        /\ page.meta = LastOrNull(IdsAt(recs, PlacesOf(recs, "meta")))

\* The panels of a page show its state: every dataset is at its symbol's place, every
\* symbol with a status has a card with the newest one, and the latency figures are of
\* the present samples when there are any.
PanelsCurrent(page) ==
    /\ page.table = page.fills
    /\ page.chart = [i \in DOMAIN page.symbols |->
          [label |-> page.symbols[i], data |-> page.priceHist[page.symbols[i]]]]
    /\ \A s \in Range(page.symbols) : page.stats[s] # NULL =>
          [sym |-> s, stat |-> page.stats[s]] \in Range(page.cards)
    /\ page.latSamples # <<>> => page.latency = page.latSamples
=============================================================================
