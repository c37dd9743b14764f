--------------------------- MODULE MCTradingEngine ---------------------------
(* The engine on small numbers, for TLC.                                   *)
EXTENDS TradingEngine

Limits(quantity, notional, drawdown) ==
    [maxPosition |-> quantity, maxNotional |-> notional, maxDrawdown |-> drawdown]

SmallConfigs == {Limits(0, 0, 0), Limits(2, 0, 0), Limits(0, 3, 0), Limits(3, 5, 2)}

Tick(bid, bidQty, ask, askQty) ==
    [px |-> [s \in Side |-> IF s = "buy" THEN bid ELSE ask],
     qty |-> [s \in Side |-> IF s = "buy" THEN bidQty ELSE askQty]]

\* Two-sided, locked, crossed, one-sided, and without quantity on a side.
SmallTicks ==
    {Tick(2, 2, 3, 1), Tick(3, 1, 5, 3), Tick(3, 3, 3, 2),
     Tick(5, 1, 3, 1), Tick(0, 0, 5, 2), Tick(2, 0, 5, 2)}
=============================================================================
