---------------------------- MODULE PaperAccount ----------------------------
(***************************************************************************)
(* What the paper trader promises of its account, without book, quotes,    *)
(* strategy or risk limits: ticks come one at a time, during a tick at     *)
(* most one trade takes place, at the price that tick shows on the other   *)
(* side and for no more than the quantity it shows there, and position,    *)
(* cash, volume and the number of fills follow from the trades alone.      *)
(***************************************************************************)
EXTENDS Integers

CONSTANTS
    Ticks,  \* what the market may show: px and qty of each side
    Scale,  \* quantity units per coin
    NULL    \* no tick is being looked at

VARIABLES
    market,  \* the tick being looked at
    account  \* [btc_qty, cash, gross_volume, fills]

vars == <<market, account>>

Init ==
    /\ market = NULL
    /\ account = [btc_qty |-> 0, cash |-> 0, gross_volume |-> 0, fills |-> 0]

Look(tick) ==
    /\ market = NULL
    /\ market' = tick
    /\ UNCHANGED account

Pass ==
    /\ market # NULL
    /\ market' = NULL
    /\ UNCHANGED account

\* Two prices, the lower one bid.
Tradable == 0 < market.px["buy"] /\ market.px["buy"] <= market.px["sell"]

\* A buyer takes from those who sell: sign 1 buys, sign -1 sells.
Trade(sign, shown, qty) ==
    /\ market # NULL /\ Tradable
    /\ qty \in 1..market.qty[shown]
    /\ market' = NULL
    /\ account' =
          [btc_qty      |-> account.btc_qty + sign * qty,
           cash         |-> account.cash - sign * ((qty * market.px[shown]) \div Scale),
           gross_volume |-> account.gross_volume + qty,
           fills        |-> account.fills + 1]

Next ==
    \/ \E tick \in Ticks : Look(tick)
    \/ Pass
    \/ market # NULL /\ \/ \E qty \in 1..market.qty["sell"] : Trade(1, "sell", qty)
                        \/ \E qty \in 1..market.qty["buy"] : Trade(-1, "buy", qty)

Spec == Init /\ [][Next]_vars
=============================================================================
