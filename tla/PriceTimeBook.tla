---------------------------- MODULE PriceTimeBook ----------------------------
(***************************************************************************)
(* What a limit order book promises its callers, without slots, links,     *)
(* vectors or an index: orders wait in one queue per side and price, an    *)
(* incoming order trades with the best price first and the oldest order    *)
(* at that price first, at the waiting order's price, and every call       *)
(* answers what the header says it answers.                                *)
(***************************************************************************)
EXTENDS Integers, SequencesExt

CONSTANTS
    Capacity,    \* orders the book has room for, the incoming one included
    Ids, Prices, Quantities,
    NULL

VARIABLES
    queue,     \* side -> price -> the waiting orders, oldest first
    incoming,  \* the order being executed, NULL between calls
    out        \* the Trade or the return value of the last step

vars == <<queue, incoming, out>>

Side == {"buy", "sell"}
Opposite(side) == IF side = "buy" THEN "sell" ELSE "buy"

Waiting(side, price) == Range(queue[side][price])
AllWaiting == UNION {Waiting(side, price) : side \in Side, price \in Prices}
Room == Cardinality(AllWaiting) < Capacity
Unknown(id) == \A o \in AllWaiting : o.id # id

Acceptable(side, limit) ==
    {p \in Prices : IF side = "buy" THEN p <= limit ELSE p >= limit}

\* Prices at which somebody waits whom an order of this kind may trade with.
Reachable(side, type, limit) ==
    {p \in IF type = "market" THEN Prices ELSE Acceptable(side, limit) :
        queue[Opposite(side)][p] # <<>>}

BestOf(side, prices) == IF side = "buy" THEN Min(prices) ELSE Max(prices)

\* What waits within reach of an order.
Available(side, type, limit) ==
    LET within == UNION {Waiting(Opposite(side), p) : p \in Reachable(side, type, limit)}
    IN  SumFunction([o \in within |-> o.qty])

Init ==
    /\ queue = [side \in Side |-> [p \in Prices |-> <<>>]]
    /\ incoming = NULL
    /\ out = [event |-> "none"]

Answer(ok) == out' = [event |-> "return", ok |-> ok]

Refuse == ~Room /\ Answer(FALSE) /\ UNCHANGED <<queue, incoming>>

Ignore == Answer(TRUE) /\ UNCHANGED <<queue, incoming>>

Accept(id, side, type, price, qty) ==
    /\ Room
    /\ incoming' = [id |-> id, side |-> side, type |-> type, price |-> price, qty |-> qty]
    /\ out' = [event |-> "none"]
    /\ UNCHANGED queue

Submit(id, side, type, price, qty) ==
    /\ incoming = NULL
    /\ Unknown(id)
    /\ IF qty = 0 THEN Ignore
       ELSE \/ Refuse
            \/ /\ Room
               /\ IF type = "fok" /\ Available(side, type, price) < qty
                  THEN Ignore
                  ELSE Accept(id, side, type, price, qty)

\* The incoming order trades with the oldest order at the best price.
Execute ==
    LET side == Opposite(incoming.side)
        reach == Reachable(incoming.side, incoming.type, incoming.price)
        p == BestOf(incoming.side, reach)
        maker == Head(queue[side][p])
        fill == Min({incoming.qty, maker.qty})
        left == IF fill = maker.qty THEN Tail(queue[side][p])
                ELSE [queue[side][p] EXCEPT ![1] = [maker EXCEPT !.qty = maker.qty - fill]]
    IN  /\ incoming # NULL
        /\ incoming.qty > 0 /\ reach # {}
        /\ out' = [event |-> "trade", maker |-> maker.id, taker |-> incoming.id,
                   price |-> p, qty |-> fill]
        /\ incoming' = [incoming EXCEPT !.qty = @ - fill]
        /\ queue' = [queue EXCEPT ![side][p] = left]

\* What cannot trade any further waits if it is a limit order, and is dropped
\* otherwise; a fill-or-kill order has nothing left to drop.
Settle ==
    /\ incoming # NULL
    /\ \/ incoming.qty = 0
       \/ Reachable(incoming.side, incoming.type, incoming.price) = {}
    /\ incoming.type = "fok" => incoming.qty = 0
    /\ queue' = IF incoming.qty > 0 /\ incoming.type = "limit"
                THEN [queue EXCEPT ![incoming.side][incoming.price] =
                        Append(@, [id |-> incoming.id, qty |-> incoming.qty])]
                ELSE queue
    /\ incoming' = NULL
    /\ Answer(TRUE)

\* Ids in the book are unique.
Without(waiting, id) ==
    LET at == {i \in DOMAIN waiting : waiting[i].id = id}
    IN  IF at = {} THEN waiting ELSE RemoveAt(waiting, CHOOSE i \in at : TRUE)

\* The order leaves its queue and the others keep their places.
Cancel(id) ==
    /\ incoming = NULL
    /\ Answer(~Unknown(id))
    /\ queue' = [side \in Side |-> [p \in Prices |-> Without(queue[side][p], id)]]
    /\ UNCHANGED incoming

Next ==
    \/ \E id \in Ids, side \in Side, type \in {"limit", "market", "ioc", "fok"},
          price \in Prices, qty \in Quantities : Submit(id, side, type, price, qty)
    \/ Execute
    \/ Settle
    \/ \E id \in Ids : Cancel(id)

Spec == Init /\ [][Next]_vars
=============================================================================
