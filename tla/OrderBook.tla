------------------------------ MODULE OrderBook ------------------------------
(***************************************************************************)
(* The price-time limit order book of src/src/order_book.cpp with its      *)
(* parts: the slot pool (pool_allocator.hpp), the intrusive FIFO of a      *)
(* price level (price_level.hpp), the two sorted level vectors (SideBook)  *)
(* and the id index.                                                       *)
(*                                                                         *)
(* submit() is cut where the outside world can look in: the on_trade       *)
(* callback.  A submit that can match is one step that admits the taker,   *)
(* one step per callback (everything up to the next one), and one step     *)
(* that rests or discards what is left.  Timestamps are left out: the book *)
(* stores and echoes them and never reads them.                            *)
(***************************************************************************)
EXTENDS Integers, SequencesExt

CONSTANTS
    Capacity,           \* slots of the object pool
    Ids,                \* order ids a client may use
    Prices,             \* prices in ticks
    Quantities,         \* quantities a client may submit, 0 included
    QtyModulus,         \* Quantity is unsigned: totals are taken modulo this
    AllowDuplicateIds,  \* may a client reuse the id of a resting order?
    NULL                \* nullptr, and the contents of a released slot

Slots == 1..Capacity

ASSUME CapacityAssumption == Capacity \in Nat \ {0}
ASSUME PricesAssumption == Prices \subseteq Int
ASSUME ModulusAssumption == QtyModulus \in Nat \ {0}
ASSUME QuantitiesAssumption == Quantities \subseteq 0..QtyModulus - 1

VARIABLES
    order,   \* slot -> the order built in it, NULL when released
    prev,    \* slot -> previous order of its level
    next,    \* slot -> next order of its level
    free,    \* the free list, head first
    levels,  \* side -> its price levels, worst first, best last
    index,   \* id -> slot, NULL when the id has no entry
    taker,   \* slot of the order submit() is working on, NULL between calls
    out      \* what the last step showed the caller: a Trade or a return value

vars == <<order, prev, next, free, levels, index, taker, out>>

Side == {"buy", "sell"}
OrderType == {"limit", "market", "ioc", "fok"}
Opposite(side) == IF side = "buy" THEN "sell" ELSE "buy"

Order == [id : Ids, side : Side, type : OrderType, price : Prices,
          qty : 0..QtyModulus - 1]
Level == [price : Prices, total_qty : 0..QtyModulus - 1,
          head : Slots \cup {NULL}, tail : Slots \cup {NULL}]

ASSUME NullAssumption == NULL \notin Slots /\ NULL \notin Order

Quiet == [event |-> "none"]
Returned(ok) == [event |-> "return", ok |-> ok]
Trade(maker, fill) ==
    [event |-> "trade", maker |-> order[maker].id, taker |-> order[taker].id,
     price |-> order[maker].price, qty |-> fill]

Init ==
    /\ order = [s \in Slots |-> NULL]
    /\ prev = [s \in Slots |-> NULL]
    /\ next = [s \in Slots |-> NULL]
    /\ free = [s \in Slots |-> s]
    /\ levels = [side \in Side |-> <<>>]
    /\ index = [id \in Ids |-> NULL]
    /\ taker = NULL
    /\ out = Quiet

-----------------------------------------------------------------------------
(* One side of the book: a vector of levels sorted from worst to best.     *)

\* The order of the vector.
LessForSide(side, p, q) == IF side = "buy" THEN p < q ELSE p > q

\* std::lower_bound: the first level that is not less than p, or one past the end.
FindLevel(side, lvs, p) ==
    CHOOSE i \in 1..Len(lvs) + 1 :
        /\ \A j \in 1..i - 1 : LessForSide(side, lvs[j].price, p)
        /\ i <= Len(lvs) => ~LessForSide(side, lvs[i].price, p)

HasLevel(side, lvs, p) ==
    LET i == FindLevel(side, lvs, p) IN i <= Len(lvs) /\ lvs[i].price = p

\* Mutant of WithLevel: a new level goes to the end without a search.
WithLevelAtEnd(side, lvs, p) ==
    IF HasLevel(side, lvs, p) THEN lvs
    ELSE Append(lvs, [price |-> p, total_qty |-> 0, head |-> NULL, tail |-> NULL])

\* get_or_insert: the vector in which p certainly has a level.
WithLevel(side, lvs, p) ==
    IF HasLevel(side, lvs, p) THEN lvs
    ELSE InsertAt(lvs, FindLevel(side, lvs, p),
                  [price |-> p, total_qty |-> 0, head |-> NULL, tail |-> NULL])

\* Store lvl back at position i, or erase the position when it became empty.
StoreLevel(lvs, i, lvl) ==
    IF lvl.head = NULL THEN RemoveAt(lvs, i) ELSE ReplaceAt(lvs, i, lvl)

\* Mutant of PriceCrosses: equal prices do not trade.
PriceCrossesStrictly(side, p, bookPrice) ==
    IF side = "buy" THEN bookPrice < p ELSE bookPrice > p

PriceCrosses(side, p, bookPrice) ==
    IF side = "buy" THEN bookPrice <= p ELSE bookPrice >= p

-----------------------------------------------------------------------------
(* Matching.                                                               *)

Opposing == levels[Opposite(order[taker].side)]

Best == Last(Opposing)

\* The loop conditions of match().
CanMatch ==
    /\ order[taker].qty > 0
    /\ Opposing # <<>>
    /\ \/ order[taker].type = "market"
       \/ PriceCrosses(order[taker].side, order[taker].price, Best.price)

\* Mutant of Fillable: only the best level is looked at.
FillableAtBest(side, price, qty) ==
    LET lvs == levels[Opposite(side)]
    IN  /\ lvs # <<>> /\ PriceCrosses(side, price, Last(lvs).price)
        /\ Last(lvs).total_qty >= qty

\* The fill-or-kill scan: totals from the best level down while they cross.
Fillable(side, price, qty) ==
    LET lvs == levels[Opposite(side)]
        reach == {i \in DOMAIN lvs :
                    \A j \in i..Len(lvs) : PriceCrosses(side, price, lvs[j].price)}
    IN  SumFunction([i \in reach |-> lvs[i].total_qty]) >= qty

\* Mutant of Take: the total is a wider, signed number.
TakeSigned(lvl, fill) == [lvl EXCEPT !.total_qty = @ - fill]

\* Mutant of Take: a fill does not reach the level's total.
TakeKeepsTotal(lvl, fill) == lvl

Take(lvl, fill) == [lvl EXCEPT !.total_qty = (@ - fill) % QtyModulus]

PopHead(lvl) ==
    [lvl EXCEPT !.head = next[@], !.tail = IF next[lvl.head] = NULL THEN NULL ELSE @]

\* Mutant of SetIf: the neighbour keeps its old link.
SetIfNever(f, s, v) == f

SetIf(f, s, v) == IF s = NULL THEN f ELSE [f EXCEPT ![s] = v]

\* Mutant of Forget: the erase is missing.
ForgetNothing(id) == index

\* id_index_.erase
Forget(id) == [index EXCEPT ![id] = NULL]

\* ~Order() and the push on the free list.
Release(s) ==
    /\ free' = Cons(s, free)
    /\ order' = [order EXCEPT ![s] = NULL]

-----------------------------------------------------------------------------
(* submit()                                                                *)

SubmitNothing ==
    /\ out' = Returned(TRUE)
    /\ UNCHANGED <<order, prev, next, free, levels, index, taker>>

SubmitExhausted ==
    /\ free = <<>>
    /\ out' = Returned(FALSE)
    /\ UNCHANGED <<order, prev, next, free, levels, index, taker>>

\* The slot is acquired and given back: the free list ends as it was.
SubmitKilled(side, type, price, qty) ==
    /\ free # <<>>
    /\ type = "fok"
    /\ ~Fillable(side, price, qty)
    /\ out' = Returned(TRUE)
    /\ UNCHANGED <<order, prev, next, free, levels, index, taker>>

SubmitAdmitted(id, side, type, price, qty) ==
    /\ free # <<>>
    /\ type = "fok" => Fillable(side, price, qty)
    /\ taker' = Head(free)
    /\ free' = Tail(free)
    /\ order' = [order EXCEPT ![Head(free)] =
                    [id |-> id, side |-> side, type |-> type, price |-> price, qty |-> qty]]
    /\ prev' = [prev EXCEPT ![Head(free)] = NULL]
    /\ next' = [next EXCEPT ![Head(free)] = NULL]
    /\ out' = Quiet
    /\ UNCHANGED <<levels, index>>

Submit(id, side, type, price, qty) ==
    /\ taker = NULL
    /\ index[id] = NULL \/ AllowDuplicateIds
    /\ \/ qty = 0 /\ SubmitNothing
       \/ qty > 0 /\ SubmitExhausted
       \/ qty > 0 /\ SubmitKilled(side, type, price, qty)
       \/ qty > 0 /\ SubmitAdmitted(id, side, type, price, qty)

\* The taker is smaller than the head of the best level.
FillPartial(maker) ==
    LET fill == order[taker].qty
        side == Opposite(order[taker].side)
    IN  /\ fill < order[maker].qty
        /\ out' = Trade(maker, fill)
        /\ order' = [order EXCEPT ![taker].qty = 0, ![maker].qty = @ - fill]
        /\ levels' = [levels EXCEPT ![side] = ReplaceAt(@, Len(@), Take(Best, fill))]
        /\ UNCHANGED <<prev, next, free, index, taker>>

\* The maker is used up: popped, unindexed, released; an emptied level goes too.
FillMaker(maker) ==
    LET fill == order[maker].qty
        side == Opposite(order[taker].side)
    IN  /\ fill <= order[taker].qty
        /\ out' = Trade(maker, fill)
        /\ order' = [order EXCEPT ![taker].qty = @ - fill, ![maker] = NULL]
        /\ free' = Cons(maker, free)
        /\ levels' = [levels EXCEPT ![side] =
                        StoreLevel(@, Len(@), PopHead(Take(Best, fill)))]
        /\ prev' = SetIf(prev, next[maker], NULL)
        /\ next' = [next EXCEPT ![maker] = NULL]
        /\ index' = Forget(order[maker].id)
        /\ UNCHANGED taker

\* One turn of the inner loop of match().
Match ==
    /\ taker # NULL
    /\ CanMatch
    /\ \E maker \in Slots :
          /\ maker = Best.head
          /\ FillPartial(maker) \/ FillMaker(maker)

\* rest(): append to the level of its price; emplace keeps an older entry.
Rest ==
    LET o == order[taker]
        lvs == WithLevel(o.side, levels[o.side], o.price)
        i == FindLevel(o.side, lvs, o.price)
        lvl == lvs[i]
        pushed == [lvl EXCEPT !.head = IF lvl.tail = NULL THEN taker ELSE @,
                              !.tail = taker,
                              !.total_qty = (@ + o.qty) % QtyModulus]
    IN  /\ o.qty > 0 /\ o.type = "limit"
        /\ levels' = [levels EXCEPT ![o.side] = ReplaceAt(lvs, i, pushed)]
        /\ prev' = [prev EXCEPT ![taker] = lvl.tail]
        /\ next' = SetIf([next EXCEPT ![taker] = NULL], lvl.tail, taker)
        /\ index' = [index EXCEPT ![o.id] = IF @ = NULL THEN taker ELSE @]
        /\ UNCHANGED <<order, free>>

\* Mutant of Discard: only a filled order is released, a killed rest leaks.
DiscardFilledOnly ==
    /\ order[taker].qty = 0 \/ order[taker].type # "limit"
    /\ IF order[taker].qty = 0 THEN Release(taker) ELSE UNCHANGED <<order, free>>
    /\ UNCHANGED <<prev, next, levels, index>>

Discard ==
    /\ order[taker].qty = 0 \/ order[taker].type # "limit"
    /\ Release(taker)
    /\ UNCHANGED <<prev, next, levels, index>>

Finish ==
    /\ taker # NULL
    /\ ~CanMatch
    /\ Rest \/ Discard
    /\ taker' = NULL
    /\ out' = Returned(TRUE)

-----------------------------------------------------------------------------
(* cancel()                                                                *)

\* Mutant of Unlink: the tail is never moved back.
UnlinkKeepsTail(lvl, s) ==
    [lvl EXCEPT !.head = IF prev[s] = NULL THEN next[s] ELSE @,
                !.total_qty = (@ - order[s].qty) % QtyModulus]

Unlink(lvl, s) ==
    [lvl EXCEPT !.head = IF prev[s] = NULL THEN next[s] ELSE @,
                !.tail = IF next[s] = NULL THEN prev[s] ELSE @,
                !.total_qty = (@ - order[s].qty) % QtyModulus]

CancelMiss(id) ==
    /\ index[id] = NULL
    /\ out' = Returned(FALSE)
    /\ UNCHANGED <<order, prev, next, free, levels, index, taker>>

CancelHit(id) ==
    LET s == index[id]
        o == order[s]
        lvs == levels[o.side]
        i == FindLevel(o.side, lvs, o.price)
    IN  /\ s # NULL
        /\ IF HasLevel(o.side, lvs, o.price)
           THEN /\ levels' = [levels EXCEPT ![o.side] = StoreLevel(lvs, i, Unlink(lvs[i], s))]
                /\ next' = [SetIf(next, prev[s], next[s]) EXCEPT ![s] = NULL]
                /\ prev' = [SetIf(prev, next[s], prev[s]) EXCEPT ![s] = NULL]
           ELSE UNCHANGED <<levels, next, prev>>
        /\ index' = Forget(id)
        /\ Release(s)
        /\ out' = Returned(TRUE)
        /\ UNCHANGED taker

Cancel(id) == taker = NULL /\ (CancelMiss(id) \/ CancelHit(id))

-----------------------------------------------------------------------------
Next ==
    \/ \E id \in Ids, side \in Side, type \in OrderType,
          price \in Prices, qty \in Quantities : Submit(id, side, type, price, qty)
    \/ Match
    \/ Finish
    \/ \E id \in Ids : Cancel(id)

Spec == Init /\ [][Next]_vars

-----------------------------------------------------------------------------
(* What the book promises about itself.                                    *)

\* The slots linked from s on, front to back (cut off after Capacity steps).
ChainFrom(s) ==
    LET hop[k \in 1..Capacity] ==
          IF k = 1 THEN s ELSE IF hop[k - 1] = NULL THEN NULL ELSE next[hop[k - 1]]
    IN  [k \in 1..Cardinality({j \in 1..Capacity : hop[j] # NULL}) |-> hop[k]]

\* The slots of the orders that wait in the book.
Resting == {s \in Slots : order[s] # NULL /\ s # taker}

\* What the orders in these slots have left.
Remaining(slots) == SumFunction([s \in slots |-> order[s].qty])

\* Every variable has the shape the code's types give it.
TypeOK ==
    /\ order \in [Slots -> Order \cup {NULL}]
    /\ prev \in [Slots -> Slots \cup {NULL}]
    /\ next \in [Slots -> Slots \cup {NULL}]
    /\ free \in Seq(Slots)
    /\ levels \in [Side -> Seq(Level)]
    /\ index \in [Ids -> Slots \cup {NULL}]
    /\ taker \in Slots \cup {NULL}

\* An id that has an index entry names an order that still exists and carries
\* that id: cancel() and match() never touch a slot that was released or given
\* to somebody else, even when clients reuse ids.
IndexEntriesLive ==
    \A id \in Ids : index[id] # NULL =>
        /\ index[id] \in Resting
        /\ order[index[id]].id = id

\* With ids unique among resting orders the index holds exactly the resting
\* orders: each of them can be cancelled, and nothing else can.
IndexExact ==
    ~AllowDuplicateIds =>
        /\ IndexEntriesLive
        /\ \A s \in Resting : index[order[s].id] = s

\* The two vectors stay strictly sorted, worst level first, one level per price.
Sorted(side, lvs) ==
    \A i, j \in DOMAIN lvs : i < j => LessForSide(side, lvs[i].price, lvs[j].price)

LevelsSorted == \A side \in Side : Sorted(side, levels[side])

\* No resting bid is priced at or above a resting ask, at any moment,
\* the moments inside a submit() included.
BookNeverCrossed ==
    \A bid \in Range(levels["buy"]), ask \in Range(levels["sell"]) :
        bid.price < ask.price

\* A level is a non-empty doubly linked list of live orders of its side and
\* price, and its total is the sum of what they have left (in Quantity's width).
LevelWellFormed(side, lvl) ==
    LET chain == ChainFrom(lvl.head)
    IN  /\ chain # <<>>
        /\ Last(chain) = lvl.tail /\ next[lvl.tail] = NULL
        /\ \A k \in DOMAIN chain :
              /\ prev[chain[k]] = IF k = 1 THEN NULL ELSE chain[k - 1]
              /\ order[chain[k]] # NULL
              /\ order[chain[k]].side = side
              /\ order[chain[k]].price = lvl.price
              /\ order[chain[k]].type = "limit"
              /\ order[chain[k]].qty > 0
        /\ lvl.total_qty = Remaining(Range(chain)) % QtyModulus

\* match() and cancel() keep every level consistent with its orders.
LevelsWellFormed ==
    \A side \in Side : \A i \in DOMAIN levels[side] :
        LevelWellFormed(side, levels[side][i])

\* A slot is on the free list once, or in one level once, or with the taker:
\* no slot leaks, none is released twice, none is shared.
SlotsPartitioned ==
    LET busy == IF taker = NULL THEN {} ELSE {taker}
        lists == UNION {{side} \X DOMAIN levels[side] : side \in Side}
        Chain(l) == ChainFrom(levels[l[1]][l[2]].head)
    IN  /\ IsInjective(free) /\ \A l \in lists : IsInjective(Chain(l))
        /\ \A l, m \in lists : l # m => Range(Chain(l)) \cap Range(Chain(m)) = {}
        /\ UNION {Range(Chain(l)) : l \in lists} = Slots \ (Range(free) \cup busy)
        /\ Range(free) \cap busy = {}
        /\ \A s \in Slots : order[s] = NULL <=> s \in Range(free)

\* A fill-or-kill order that was let into the book fills to the last unit:
\* submit()'s scan of level totals never promises more than match() delivers.
FokAllOrNothing ==
    taker # NULL /\ order[taker].type = "fok" /\ ~CanMatch => order[taker].qty = 0

\* When a fill-or-kill order comes in, the scan turns it down only if the resting orders
\* cannot fill it, as long as what waits at each price fits the width of Quantity.
FokKilledOnlyWhenShort ==
    \A side \in Side, price \in Prices, qty \in Quantities :
        taker = NULL /\ ~Fillable(side, price, qty) =>
            LET Waiting(at) == Remaining(
                    {s \in Resting : order[s].side # side /\ order[s].price \in at})
            IN  \/ Waiting({p \in Prices : PriceCrosses(side, price, p)}) < qty
                \/ \E p \in Prices : Waiting({p}) >= QtyModulus
=============================================================================
