---------------------------- MODULE TradingEngine ----------------------------
(***************************************************************************)
(* The engine thread of trading_engine.cpp: one tick after another, each   *)
(* observed by the risk manager, turned into two resting quotes in the     *)
(* engine's own order book, shown to the strategy, and traded on with an   *)
(* immediate-or-cancel order against those quotes.                         *)
(*                                                                         *)
(* The book is PriceTimeBook, which the detailed OrderBook implements.     *)
(* The engine's calls are the book's actions: it calls Submit, the book    *)
(* takes its Execute and Settle steps, and the engine goes on when the     *)
(* call has returned.  The strategy is any object of the Strategy class:   *)
(* it may answer a tick with any action or none.                           *)
(***************************************************************************)
EXTENDS RiskManager

CONSTANTS
    Ticks,       \* what the feed may deliver: px and qty of each side
    Prices,      \* the prices other than 0 that occur in Ticks
    Quantities,  \* quantities a strategy may ask for
    NULL,
    MaxFills     \* bound: fills in a behaviour

BidQuoteId == 1
AskQuoteId == 2
TakerId == 3    \* next_id_++: never the id of a quote, and a taker never rests

ASSUME PricesAssumption == Prices \subseteq Nat \ {0}
ASSUME QuantitiesAssumption == Quantities \subseteq Nat
ASSUME TicksAssumption ==
    Ticks \subseteq [px : [{"buy", "sell"} -> Prices \cup {0}],
                     qty : [{"buy", "sell"} -> Nat]]
ASSUME BoundAssumption == MaxFills \in Nat
ASSUME NullAssumption ==
    /\ NULL \notin Ticks
    /\ NULL \notin [id : {BidQuoteId, AskQuoteId, TakerId}, side : {"buy", "sell"},
                    type : {"limit", "ioc"}, price : Prices, qty : Nat]

VARIABLES
    queue, incoming, out,  \* the book
    pc,      \* where the thread is in run(), refresh_quotes and apply_action
    tick,    \* snap, NULL while there is none
    live,    \* side -> bid_quote_live_, ask_quote_live_
    cur,     \* cur_bid_, cur_ask_ as px, cur_bid_qty_, cur_ask_qty_ as qty
    action,  \* the action being applied, as the gate left it
    traded,  \* its filled, cash_delta and last_px
    pos,     \* pos_
    last_mid \* last_mid_, for the status loop

bookVars == <<queue, incoming, out>>
vars == <<riskVars, bookVars, pc, tick, live, cur, action, traded, pos, last_mid>>

Book == INSTANCE PriceTimeBook WITH
    Capacity <- 3, Ids <- {BidQuoteId, AskQuoteId, TakerId}

Side == {"buy", "sell"}
Other(side) == IF side = "buy" THEN "sell" ELSE "buy"
QuoteId(side) == IF side = "buy" THEN BidQuoteId ELSE AskQuoteId

NoQuotes == [px |-> [s \in Side |-> 0], qty |-> [s \in Side |-> 0]]
NoAction == [side |-> "buy", qty |-> 0]
NothingTraded == [filled |-> 0, cash |-> 0]

Mid(t) == (t.px["buy"] + t.px["sell"]) \div 2
EquityAt(mid) == pos.cash + Quot(pos.btc_qty * mid, Scale)

Skipped(t) == \/ t.px["buy"] = 0 \/ t.px["sell"] = 0
              \/ t.px["buy"] > t.px["sell"]

Init ==
    /\ RiskInit
    /\ Book!Init
    /\ pc = <<"poll">>
    /\ tick = NULL
    /\ live = [s \in Side |-> FALSE]
    /\ cur = NoQuotes
    /\ action = NoAction /\ traded = NothingTraded
    /\ pos = [btc_qty |-> 0, cash |-> 0, gross_volume |-> 0, fills |-> 0]
    /\ last_mid = 0

\* Back to the loop of run(): the locals of the tick are gone.
Done ==
    /\ pc' = <<"poll">>
    /\ tick' = NULL
    /\ action' = NoAction /\ traded' = NothingTraded

Goto(place) == pc' = place /\ UNCHANGED tick

-----------------------------------------------------------------------------
(* run: a tick is popped and observed.                                     *)

\* Mutant of Poll: nobody tells the risk manager.
PollUnobserved ==
    /\ pc = <<"poll">>
    /\ tick' \in Ticks
    /\ last_mid' = Mid(tick')
    /\ pc' = <<"cancel", "buy">>
    /\ UNCHANGED <<riskVars, bookVars, live, cur, action, traded, pos>>

Poll ==
    /\ pc = <<"poll">>
    /\ tick' \in Ticks
    /\ last_mid' = Mid(tick')
    /\ ObserveEquity(EquityAt(Mid(tick')))
    /\ pc' = <<"cancel", "buy">>
    /\ UNCHANGED <<bookVars, live, cur, action, traded, pos>>

-----------------------------------------------------------------------------
(* refresh_quotes.                                                         *)

\* The quote of the tick before is cancelled, the bid first.
CancelQuote(side) ==
    /\ pc = <<"cancel", side>>
    /\ IF live[side]
       THEN Book!Cancel(QuoteId(side)) /\ live' = [live EXCEPT ![side] = FALSE]
       ELSE UNCHANGED <<bookVars, live>>
    /\ Goto(IF side = "buy" THEN <<"cancel", "sell">> ELSE <<"refresh">>)
    /\ UNCHANGED <<riskVars, cur, action, traded, pos, last_mid>>

\* Both quotes rest only on a tick with bid below ask.
Rests == ~Skipped(tick) /\ tick.px["buy"] < tick.px["sell"]

Refresh ==
    /\ pc = <<"refresh">>
    /\ cur' = IF Skipped(tick) THEN NoQuotes ELSE tick
    /\ Goto(IF Rests THEN <<"quote", "buy">> ELSE <<"strategy">>)
    /\ UNCHANGED <<riskVars, bookVars, live, action, traded, pos, last_mid>>

SubmitQuote(side) ==
    Book!Submit(QuoteId(side), side, "limit", cur.px[side], cur.qty[side])

AfterQuote(side) == IF side = "buy" THEN <<"quote", "sell">> ELSE <<"strategy">>

Quote(side) ==
    /\ pc = <<"quote", side>>
    /\ IF cur.qty[side] > 0
       THEN SubmitQuote(side) /\ Goto(<<"quoted", side>>)
       ELSE Goto(AfterQuote(side)) /\ UNCHANGED bookVars
    /\ UNCHANGED <<riskVars, live, cur, action, traded, pos, last_mid>>

Quoted(side) ==
    /\ pc = <<"quoted", side>> /\ incoming = NULL
    /\ live' = [live EXCEPT ![side] = out.ok]
    /\ Goto(AfterQuote(side))
    /\ UNCHANGED <<riskVars, bookVars, cur, action, traded, pos, last_mid>>

-----------------------------------------------------------------------------
(* The strategy answers, and apply_action.                                 *)

NoTrade ==
    /\ pc = <<"strategy">>
    /\ Done
    /\ UNCHANGED <<riskVars, bookVars, live, cur, pos, last_mid>>

\* The action goes on with what the gate leaves of it, if there is a quote to
\* cross; the quote is placed first if the locked book put that off.
Decide(side, qty) ==
    LET shown == Other(side)
        allowed == Gate(side, qty, pos.btc_qty, cur.px[shown])
    IN  /\ pc = <<"strategy">>
        /\ pos.fills < MaxFills
        /\ IF qty = 0 \/ allowed = 0 \/ cur.px[shown] = 0 \/ cur.qty[shown] = 0
           THEN Done
           ELSE /\ action' = [side |-> side, qty |-> allowed]
                /\ UNCHANGED traded
                /\ Goto(IF live[shown] THEN <<"take">> ELSE <<"place">>)
        /\ UNCHANGED <<riskVars, bookVars, live, cur, pos, last_mid>>

Place ==
    /\ pc = <<"place">>
    /\ SubmitQuote(Other(action.side))
    /\ Goto(<<"placed">>)
    /\ UNCHANGED <<riskVars, live, cur, action, traded, pos, last_mid>>

Placed ==
    /\ pc = <<"placed">> /\ incoming = NULL
    /\ live' = [live EXCEPT ![Other(action.side)] = out.ok]
    /\ IF out.ok THEN Goto(<<"take">>) /\ UNCHANGED <<action, traded>> ELSE Done
    /\ UNCHANGED <<riskVars, bookVars, cur, pos, last_mid>>

Take ==
    /\ pc = <<"take">>
    /\ Book!Submit(TakerId, action.side, "ioc", cur.px[Other(action.side)], action.qty)
    /\ Goto(<<"taken">>)
    /\ UNCHANGED <<riskVars, live, cur, action, traded, pos, last_mid>>

\* Mutant of Collected: every trade is a sale.
CollectedAsSale ==
    IF pc = <<"taken">> /\ out'.event = "trade"
    THEN [filled |-> traded.filled + out'.qty,
          cash |-> traded.cash + Quot(out'.qty * out'.price, Scale)]
    ELSE traded

\* The collect callback of the taker; the callback of a quote does nothing.
Collected ==
    IF pc = <<"taken">> /\ out'.event = "trade"
    THEN [filled |-> traded.filled + out'.qty,
          cash |-> traded.cash - Direction(action.side)
                                    * Quot(out'.qty * out'.price, Scale)]
    ELSE traded

\* Inside submit(): the book trades and settles.
Submitting ==
    /\ Book!Execute \/ Book!Settle
    /\ traded' = Collected
    /\ UNCHANGED <<riskVars, pc, tick, live, cur, action, pos, last_mid>>

\* Mutant of StillLive: the quote is believed to rest after it was taken.
StillLiveAlways(side) == live[side]

\* A quote that was taken completely is no longer in the book.
StillLive(side) ==
    live[side] /\ \E px \in Prices : queue[side][px] # <<>>

\* Mutant of Booked: what was asked for is booked, not what was filled.
BookedInFull ==
    [btc_qty      |-> pos.btc_qty + Direction(action.side) * action.qty,
     cash         |-> pos.cash + traded.cash,
     gross_volume |-> pos.gross_volume + action.qty,
     fills        |-> pos.fills + 1]

\* The position after the trades of the taker.
Booked ==
    [btc_qty      |-> pos.btc_qty + Direction(action.side) * traded.filled,
     cash         |-> pos.cash + traded.cash,
     gross_volume |-> pos.gross_volume + traded.filled,
     fills        |-> pos.fills + 1]

Taken ==
    LET shown == Other(action.side)
    IN  /\ pc = <<"taken">> /\ incoming = NULL
        /\ live' = [live EXCEPT ![shown] = StillLive(shown)]
        /\ pos' = IF traded.filled = 0 THEN pos ELSE Booked
        /\ Done
        /\ UNCHANGED <<riskVars, bookVars, cur, last_mid>>

-----------------------------------------------------------------------------
ApplyAction ==
    \/ \E side \in Side, qty \in Quantities : Decide(side, qty)
    \/ Place \/ Placed \/ Take \/ Taken

Next ==
    \/ Poll
    \/ \E side \in Side : CancelQuote(side) \/ Quote(side) \/ Quoted(side)
    \/ Refresh
    \/ NoTrade
    \/ ApplyAction
    \/ Submitting

Spec == Init /\ [][Next]_vars

-----------------------------------------------------------------------------
\* Who rests on a side of the book: price and id.
Resting(side) ==
    UNION {{<<px, o.id>> : o \in Book!Waiting(side, px)} : px \in Prices}

\* Between its calls the engine knows what its book holds: the quotes its flags
\* say are live, at the prices it cached, and nothing else; no taker, no quote of
\* an earlier tick, and no quote that traded with the other one is left behind.
QuotesMatchBook ==
    pc[1] \notin {"quoted", "placed", "taken"} =>
        \A side \in Side :
            Resting(side) = IF live[side] THEN {<<cur.px[side], QuoteId(side)>>} ELSE {}

\* However actions are clamped and partly filled, the position stays in its limit.
PositionWithinLimit ==
    cfg.maxPosition > 0 => Abs(pos.btc_qty) <= cfg.maxPosition

\* A fill happens only while trading is not halted, with an equity at the tick it
\* trades on that is within the drawdown limit, and leaves a notional within its
\* limit or a smaller position.
FillsWithinLimits ==
    [][pos' # pos =>
          /\ ~halted
          /\ cfg.maxDrawdown > 0 =>
                peak_equity - EquityAt(Mid(tick)) <= cfg.maxDrawdown
          /\ cfg.maxNotional > 0 =>
                \/ Quot(Abs(pos'.btc_qty) * cur.px[Other(action.side)], Scale)
                      <= cfg.maxNotional
                \/ Abs(pos'.btc_qty) < Abs(pos.btc_qty)]_vars

\* Trading at the quotes costs the spread: a fill never raises the equity at the
\* mid of its tick by more than the one unit that two truncations can make.
FillsMakeNoMoney ==
    [][pos' # pos => (pos'.cash + Quot(pos'.btc_qty * Mid(tick), Scale)) <= EquityAt(Mid(tick)) + 1]_vars

\* Seen from outside, the engine keeps a plain account: at most one trade a tick,
\* at the price and within the quantity that tick shows, and booked exactly.
Account == INSTANCE PaperAccount WITH market <- tick, account <- pos

ImplementsAccount == Account!Spec
=============================================================================
