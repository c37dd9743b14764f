-------------------------- MODULE MCGuardedAccount --------------------------
(* The risk manager on small numbers, for TLC: each limit alone, and all.  *)
EXTENDS GuardedAccount

Limits(quantity, notional, drawdown) ==
    [maxPosition |-> quantity, maxNotional |-> notional, maxDrawdown |-> drawdown]

SmallConfigs ==
    {Limits(0, 0, 0), Limits(3, 0, 0), Limits(0, 3, 0), Limits(0, 0, 2), Limits(3, 4, 2)}
SmallEquities == {-2, 0, 1, 3}
=============================================================================
