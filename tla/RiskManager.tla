----------------------------- MODULE RiskManager -----------------------------
(***************************************************************************)
(* The risk gate of risk.hpp: limits on the position and on its notional,  *)
(* which clamp an action or reject it, and a limit on the drawdown from    *)
(* the highest equity seen, which halts trading for good.  A limit of zero *)
(* is off; an engine without a risk manager is one with all limits off.    *)
(***************************************************************************)
EXTENDS Integers

CONSTANTS
    Configs,  \* the RiskConfig values to consider
    Scale     \* kRiskQuantityScale and kQuantityScale: units per coin

ASSUME ScaleAssumption == Scale \in Nat \ {0}
ASSUME ConfigsAssumption ==
    Configs \subseteq [maxPosition : Nat, maxNotional : Nat, maxDrawdown : Nat]

VARIABLES
    cfg,          \* cfg_
    peak_equity,  \* peak_equity_
    halted        \* halted_

riskVars == <<cfg, peak_equity, halted>>

Abs(n) == IF n < 0 THEN -n ELSE n
Least(a, b) == IF a < b THEN a ELSE b

\* Integer division of the code: towards zero.
Quot(a, b) == IF a < 0 THEN -((-a) \div b) ELSE a \div b

RiskInit ==
    /\ cfg \in Configs
    /\ peak_equity = 0
    /\ halted = FALSE

-----------------------------------------------------------------------------
\* Mutant of ObserveEquity: the drop is measured from the last equity.
ObserveLastEquity(equity) ==
    /\ peak_equity' = equity
    /\ halted' = (halted \/ (cfg.maxDrawdown > 0
                               /\ peak_equity - equity > cfg.maxDrawdown))
    /\ UNCHANGED cfg

ObserveEquity(equity) ==
    /\ peak_equity' = IF equity > peak_equity THEN equity ELSE peak_equity
    /\ halted' = (halted \/ (cfg.maxDrawdown > 0
                               /\ peak_equity' - equity > cfg.maxDrawdown))
    /\ UNCHANGED cfg

-----------------------------------------------------------------------------
(* gate: how much of an action may go on, 0 when it is rejected.           *)

Direction(side) == IF side = "buy" THEN 1 ELSE -1
After(side, qty, position) == position + Direction(side) * qty

\* Mutant of Clamp: room is measured as if every action were a buy.
ClampAsBuy(limit, side, qty, position) == Least(limit - position, qty)

\* The most an action may trade to end at the limit on its own side of zero.
Clamp(limit, side, qty, position) ==
    Least(limit - position * Direction(side), qty)

WithinPosition(side, qty, position) ==
    IF cfg.maxPosition > 0 /\ Abs(After(side, qty, position)) > cfg.maxPosition
    THEN Clamp(cfg.maxPosition, side, qty, position)
    ELSE qty

\* Mutant of WithinNotional: the limit taken for a quantity.
WithinNotionalUnpriced(side, qty, position, px) ==
    IF /\ cfg.maxNotional > 0 /\ px > 0
       /\ Quot(Abs(After(side, qty, position)) * px, Scale) > cfg.maxNotional
    THEN Clamp(cfg.maxNotional, side, qty, position)
    ELSE qty

WithinNotional(side, qty, position, px) ==
    IF /\ cfg.maxNotional > 0 /\ px > 0
       /\ Quot(Abs(After(side, qty, position)) * px, Scale) > cfg.maxNotional
    THEN Clamp(Quot(cfg.maxNotional * Scale, px), side, qty, position)
    ELSE qty

Gate(side, qty, position, px) ==
    LET allowed == WithinNotional(side, WithinPosition(side, qty, position), position, px)
    IN  IF halted \/ allowed <= 0 THEN 0 ELSE allowed
=============================================================================
