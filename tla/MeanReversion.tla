---------------------------- MODULE MeanReversion ----------------------------
(***************************************************************************)
(* The strategy of trading_engine.cpp and strategy.hpp: a rolling window   *)
(* of mid prices with its running sum, and a counter that spaces actions.  *)
(* The code computes mean and deviation in doubles; the model compares the *)
(* same quantities exactly.                                                *)
(***************************************************************************)
EXTENDS Integers, SequencesExt

CONSTANTS
    Window,    \* cfg_.window
    EntryBps,  \* cfg_.entry_bps
    CoolDown,  \* cfg_.cool_down
    Mids,      \* mid prices that occur, 0 for a tick without prices
    MaxTicks   \* bound: ticks other than 0 in a behaviour

ASSUME ConfigAssumption ==
    Window \in Nat \ {0} /\ EntryBps \in Nat /\ CoolDown \in Nat
ASSUME MidsAssumption == Mids \subseteq Nat /\ MaxTicks \in Nat

VARIABLES
    window,        \* window_
    sum,           \* sum_
    since_action,  \* since_action_
    seen           \* the mids other than 0, each with what on_tick answered

strategyVars == <<window, sum, since_action, seen>>

StrategyInit ==
    /\ window = <<>> /\ sum = 0
    /\ since_action = 0
    /\ seen = <<>>

\* deviation_bps <= -entry_bps, and >= entry_bps, multiplied out: equality acts.
Deviation(mid, total) == (mid * Window - total) * 10000

Signal(mid, total) ==
    IF Deviation(mid, total) <= -(EntryBps * total) THEN "buy"
    ELSE IF Deviation(mid, total) >= EntryBps * total THEN "sell"
    ELSE "none"

Slide(mid) ==
    /\ window' = IF Len(window) = Window THEN Append(Tail(window), mid)
                 ELSE Append(window, mid)
    /\ sum' = IF Len(window) = Window THEN sum + mid - Head(window) ELSE sum + mid

Answer(mid, what) == seen' = Append(seen, [mid |-> mid, answer |-> what])

\* The window is not full yet.
Filling(mid) ==
    /\ Len(window') < Window
    /\ Answer(mid, "none")
    /\ UNCHANGED since_action

Cooling(mid) ==
    /\ Len(window') = Window
    /\ since_action < CoolDown
    /\ Answer(mid, "none")
    /\ since_action' = since_action + 1

\* Mutant of Cooled: the first tick after the cool-down always resets it.
CooledReset(mid) ==
    /\ Len(window') = Window
    /\ since_action >= CoolDown
    /\ Answer(mid, Signal(mid, sum'))
    /\ since_action' = 0

Cooled(mid) ==
    /\ Len(window') = Window
    /\ since_action >= CoolDown
    /\ Answer(mid, Signal(mid, sum'))
    /\ since_action' = IF Signal(mid, sum') = "none" THEN since_action + 1 ELSE 0

\* on_tick.  A tick without prices is not looked at.
OnTick(mid) ==
    IF mid = 0 THEN UNCHANGED strategyVars
    ELSE /\ Len(seen) < MaxTicks
         /\ Slide(mid)
         /\ Filling(mid) \/ Cooling(mid) \/ Cooled(mid)

StrategyNext == \E mid \in Mids : OnTick(mid)

StrategySpec == StrategyInit /\ [][StrategyNext]_strategyVars

-----------------------------------------------------------------------------
Acted(k) == seen[k].answer # "none"

\* What to do at a mid, if the mean of the window is total / Window: EntryBps or more
\* below the mean it is bought, EntryBps or more above it is sold.
Opposing(mid, total) ==
    LET scaled == 10000 * (mid * Window)
    IN  IF scaled <= (10000 - EntryBps) * total THEN "buy"
        ELSE IF scaled >= (10000 + EntryBps) * total THEN "sell"
        ELSE "none"

\* The k-th mid against the mean of the last Window mids, from the history alone.
Reference(k) ==
    LET recent == (k - Window + 1)..k
    IN  Opposing(seen[k].mid, SumFunction([i \in recent |-> seen[i].mid]))

\* Ticks with a full window from the last action before k, or from the start.
Waited(k) ==
    Cardinality({j \in Window..k - 1 : \A i \in j..k - 1 : ~Acted(i)})

\* Running sum, window and counter give the answer that the history gives: the
\* strategy acts against the deviation from the mean of the last Window mids, whenever
\* it is EntryBps or more (exactly EntryBps included, where strategy.hpp has "by more
\* than") and CoolDown ticks went by without an action.
AnswersFollowHistory ==
    \A k \in DOMAIN seen :
        seen[k].answer = IF k >= Window /\ Waited(k) >= CoolDown
                         THEN Reference(k) ELSE "none"
=============================================================================
