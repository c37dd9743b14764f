------------------------- MODULE OrderBookRefinement -------------------------
(***************************************************************************)
(* The book of order_book.cpp implements PriceTimeBook: reading each       *)
(* level's linked list from head to tail gives the queue of its price.     *)
(***************************************************************************)
EXTENDS OrderBook

QueueAt(side, price) ==
    LET at == {i \in DOMAIN levels[side] : levels[side][i].price = price}
        chain == IF at = {} THEN <<>>
                 ELSE ChainFrom(levels[side][CHOOSE i \in at : TRUE].head)
    IN  [k \in DOMAIN chain |->
            [id |-> order[chain[k]].id, qty |-> order[chain[k]].qty]]

Abstract == INSTANCE PriceTimeBook WITH
    queue <- [side \in Side |-> [price \in Prices |-> QueueAt(side, price)]],
    incoming <- IF taker = NULL THEN NULL ELSE order[taker]

\* The slots, links, vectors and index behave like plain price-time queues:
\* best price first, oldest first, cancel removes exactly the named order,
\* fill-or-kill fills completely or not at all, and submit() is refused only
\* when Capacity orders wait.
ImplementsPriceTime == Abstract!Spec
=============================================================================
