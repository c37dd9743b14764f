--------------------------- MODULE GuardedAccount ---------------------------
(***************************************************************************)
(* A risk manager with all that may be asked of it: any equity observed,   *)
(* any action at any price, and any part of what the gate allows filled.   *)
(***************************************************************************)
EXTENDS RiskManager, Sequences

CONSTANTS
    Equities, Proposals, ExecPrices,
    MaxObservations,  \* bound: calls of observe_equity
    MaxTraded         \* bound: how far the position goes from zero

ASSUME InputsAssumption ==
    Equities \subseteq Int /\ Proposals \subseteq Nat /\ ExecPrices \subseteq Nat
ASSUME BoundsAssumption == MaxObservations \in Nat /\ MaxTraded \in Nat

VARIABLES
    btc_qty,   \* pos_.btc_qty, moved by fills only
    observed,  \* the equities observed
    call       \* the last call of gate, with what it returned

guardedVars == <<riskVars, btc_qty, observed, call>>

NoCall == [side |-> "buy", qty |-> 0, position |-> 0, px |-> 0, allowed |-> 0]

GuardedInit ==
    /\ RiskInit
    /\ btc_qty = 0
    /\ observed = <<>>
    /\ call = NoCall

Observe ==
    /\ Len(observed) < MaxObservations
    /\ \E equity \in Equities :
          /\ ObserveEquity(equity)
          /\ observed' = Append(observed, equity)
    /\ UNCHANGED <<btc_qty, call>>

Trade ==
    /\ \E side \in {"buy", "sell"}, qty \in Proposals, px \in ExecPrices :
          LET allowed == Gate(side, qty, btc_qty, px)
          IN  /\ call' = [side |-> side, qty |-> qty, position |-> btc_qty,
                          px |-> px, allowed |-> allowed]
              /\ \E filled \in 0..allowed :
                    btc_qty' = After(side, filled, btc_qty)
    /\ Abs(btc_qty') <= MaxTraded
    /\ UNCHANGED <<riskVars, observed>>

GuardedNext == Observe \/ Trade

GuardedSpec == GuardedInit /\ [][GuardedNext]_guardedVars

-----------------------------------------------------------------------------
Left == After(call.side, call.allowed, call.position)
PositionOk(p) == cfg.maxPosition > 0 => Abs(p) <= cfg.maxPosition
NotionalOk(p, px) ==
    cfg.maxNotional > 0 /\ px > 0 => Quot(Abs(p) * px, Scale) <= cfg.maxNotional

\* However actions, partial fills and price moves follow each other, the position
\* stays within its limit, and an allowed action leaves the notional within its
\* limit or, where the price has moved against a position, makes it smaller.
LimitsHold ==
    /\ PositionOk(btc_qty)
    /\ NotionalOk(Left, call.px) \/ Abs(Left) < Abs(call.position) \/ call.allowed = 0

\* The gate takes no more than it must: any quantity up to the proposed one that
\* keeps both limits, the notional taken exactly, is allowed.
NothingTakenForNothing ==
    ~halted => \A q \in 1..call.qty :
        LET p == After(call.side, q, call.position)
        IN  /\ PositionOk(p)
            /\ cfg.maxNotional > 0 => Abs(p) * call.px <= cfg.maxNotional * Scale
            => q <= call.allowed

\* Trading is halted exactly when some equity was more than the limit below an
\* earlier one, or below the zero an account starts with.
HaltedByDrawdown ==
    LET equity == <<0>> \o observed
    IN  halted <=> /\ cfg.maxDrawdown > 0
                   /\ \E j \in DOMAIN equity : \E i \in 1..j :
                         equity[i] - equity[j] > cfg.maxDrawdown
=============================================================================
