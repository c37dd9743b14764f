--------------------------- MODULE OrderBookProofs ---------------------------
(***************************************************************************)
(* For every capacity, id set, price set and quantity width: the order     *)
(* book's types, its index, its slots, its linked lists and the uncrossed  *)
(* book, all from one inductive invariant.  First comes what the vector    *)
(* operations of SideBook do to a sorted level vector.                     *)
(***************************************************************************)
EXTENDS OrderBook, ArithmeticLemmas, SequenceTheorems

-----------------------------------------------------------------------------
(* The sorted vector of levels.                                            *)

\* What the type of a level vector says of its elements.
LEMMA LevelSeq ==
    ASSUME NEW lvs \in Seq(Level)
    PROVE  /\ Len(lvs) \in Nat /\ DOMAIN lvs = 1..Len(lvs)
           /\ \A i \in DOMAIN lvs : /\ lvs[i] \in Level
                                   /\ lvs[i].price \in Prices
                                   /\ lvs[i].price \in Int
<1>1. \A i \in DOMAIN lvs : lvs[i] \in Level  OBVIOUS
<1>2. \A l \in Level : l.price \in Prices /\ l.price \in Int
  BY PricesAssumption DEF Level
<1>3. Len(lvs) \in Nat /\ DOMAIN lvs = 1..Len(lvs)  OBVIOUS
<1>4. \A i \in DOMAIN lvs : lvs[i] \in Level /\ lvs[i].price \in Prices /\ lvs[i].price \in Int
  BY <1>1, <1>2, Zenon
<1> QED  BY <1>3, <1>4, Zenon

\* FindLevel is std::lower_bound: everything before it is less, it is not.
LEMMA FindLevelPosition ==
    ASSUME NEW side \in Side, NEW lvs \in Seq(Level), NEW p \in Prices
    PROVE  LET i == FindLevel(side, lvs, p) IN
             /\ i \in 1..Len(lvs) + 1
             /\ \A j \in 1..i - 1 : LessForSide(side, lvs[j].price, p)
             /\ i <= Len(lvs) => ~LessForSide(side, lvs[i].price, p)
<1> DEFINE S == {i \in 1..Len(lvs) + 1 :
                    i <= Len(lvs) => ~LessForSide(side, lvs[i].price, p)}
<1>1. Len(lvs) + 1 \in S  OBVIOUS
<1>2. S \subseteq Nat /\ S # {}  BY <1>1
<1>3. PICK m \in S : \A k \in S : m <= k  BY <1>2, SmallestElement
<1>4. \A j \in 1..m - 1 : LessForSide(side, lvs[j].price, p)  BY <1>3
<1> QED  BY <1>3, <1>4 DEF FindLevel

\* A price has at most one level.
LEMMA SortedUnique ==
    ASSUME NEW side \in Side, NEW lvs \in Seq(Level), Sorted(side, lvs),
           NEW i \in DOMAIN lvs, NEW j \in DOMAIN lvs, lvs[i].price = lvs[j].price
    PROVE  i = j
<1>1. lvs[i].price \in Int /\ lvs[j].price \in Int  BY LevelSeq
<1>2. i \in Nat /\ j \in Nat  OBVIOUS
<1> QED  BY <1>1, <1>2 DEF Sorted, LessForSide

\* lower_bound meets the level of p when there is one.
LEMMA FindLevelFinds ==
    ASSUME NEW side \in Side, NEW lvs \in Seq(Level), Sorted(side, lvs),
           NEW k \in DOMAIN lvs
    PROVE  FindLevel(side, lvs, lvs[k].price) = k
<1> DEFINE p == lvs[k].price
           i == FindLevel(side, lvs, p)
<1>1. p \in Prices /\ p \in Int  BY LevelSeq
<1>2. /\ i \in 1..Len(lvs) + 1
      /\ \A j \in 1..i - 1 : LessForSide(side, lvs[j].price, p)
      /\ i <= Len(lvs) => ~LessForSide(side, lvs[i].price, p)
  BY <1>1, FindLevelPosition
<1>3. ~LessForSide(side, p, p)  BY <1>1 DEF LessForSide
<1>4. k >= i  BY <1>2, <1>3
<1>5. ASSUME i < k PROVE FALSE
  BY <1>2, <1>5 DEF Sorted
<1> QED  BY <1>2, <1>4, <1>5

\* levels_.erase: the other levels stay, in their order.
LEMMA RemoveLevel ==
    ASSUME NEW side \in Side, NEW lvs \in Seq(Level), Sorted(side, lvs),
           NEW i \in DOMAIN lvs
    PROVE  /\ RemoveAt(lvs, i) \in Seq(Level)
           /\ Sorted(side, RemoveAt(lvs, i))
           /\ Range(RemoveAt(lvs, i)) = {l \in Range(lvs) : l.price # lvs[i].price}
<1> DEFINE a == SubSeq(lvs, 1, i - 1)
           b == SubSeq(lvs, i + 1, Len(lvs))
           r == a \o b
<1>0. i \in 1..Len(lvs) /\ Len(lvs) \in Nat  OBVIOUS
<1>1. a \in Seq(Level) /\ Len(a) = i - 1 /\ \A j \in 1..i - 1 : a[j] = lvs[j]
  BY <1>0, SubSeqProperties
<1>2. b \in Seq(Level) /\ Len(b) = Len(lvs) - i /\ \A j \in 1..Len(lvs) - i : b[j] = lvs[i + j]
  BY <1>0, SubSeqProperties
<1>3. r \in Seq(Level) /\ Len(r) = Len(lvs) - 1
      /\ \A j \in 1..Len(lvs) - 1 : r[j] = IF j < i THEN lvs[j] ELSE lvs[j + 1]
  <2>1. /\ r \in Seq(Level) /\ Len(r) = Len(a) + Len(b)
        /\ \A j \in 1..Len(a) + Len(b) :
              r[j] = IF j <= Len(a) THEN a[j] ELSE b[j - Len(a)]
    BY <1>1, <1>2, ConcatProperties, Zenon
  <2> HIDE DEF a, b, r
  <2>2. Len(r) = Len(lvs) - 1  BY <1>0, <1>1, <1>2, <2>1
  <2>3. ASSUME NEW j \in 1..Len(lvs) - 1, j < i PROVE r[j] = lvs[j]
    BY <1>0, <1>1, <1>2, <2>1, <2>3, SMTT(60)
  <2>4. ASSUME NEW j \in 1..Len(lvs) - 1, ~(j < i) PROVE r[j] = lvs[j + 1]
    <3>1. /\ j - (i - 1) \in 1..Len(lvs) - i
          /\ j \in 1..(i - 1) + (Len(lvs) - i) /\ ~(j <= i - 1)
      BY <1>0, <2>4
    <3>3. r[j] = b[j - (i - 1)]  BY <1>1, <1>2, <2>1, <3>1
    <3>2. i + (j - (i - 1)) = j + 1  BY <1>0
    <3> QED  BY <1>2, <3>1, <3>2, <3>3
  <2> QED  BY <2>1, <2>2, <2>3, <2>4
<1> HIDE DEF a, b, r
<1>4. DOMAIN r = 1..Len(lvs) - 1  BY <1>3
<1>5. Sorted(side, r)
  <2> SUFFICES ASSUME NEW j \in DOMAIN r, NEW k \in DOMAIN r, j < k
               PROVE  LessForSide(side, r[j].price, r[k].price)
    BY DEF Sorted
  <2> DEFINE old(n) == IF n < i THEN n ELSE n + 1
  <2>1. \A n \in DOMAIN r : old(n) \in DOMAIN lvs /\ r[n] = lvs[old(n)]
    BY <1>0, <1>3, <1>4
  <2>2. old(j) < old(k)  BY <1>0, <1>3, <1>4
  <2> HIDE DEF old
  <2> QED  BY <2>1, <2>2 DEF Sorted
<1>6. ASSUME NEW j \in DOMAIN r PROVE \E k \in DOMAIN lvs : k # i /\ r[j] = lvs[k]
  <2>1. CASE j < i  BY <1>0, <1>3, <1>4, <2>1
  <2>2. CASE ~(j < i)  BY <1>0, <1>3, <1>4, <2>2
  <2> QED  BY <2>1, <2>2
<1>7. ASSUME NEW k \in DOMAIN lvs, k # i PROVE \E j \in DOMAIN r : r[j] = lvs[k]
  <2>1. CASE k < i  BY <1>0, <1>3, <1>4, <2>1
  <2>2. CASE k > i
    <3>1. k - 1 \in 1..Len(lvs) - 1 /\ ~(k - 1 < i) /\ (k - 1) + 1 = k  BY <1>0, <2>2
    <3> QED  BY <1>3, <1>4, <3>1
  <2> QED  BY <1>0, <1>7, <2>1, <2>2
<1>8. \A k \in DOMAIN lvs : k # i => lvs[k].price # lvs[i].price  BY SortedUnique
<1>9. Range(r) = {l \in Range(lvs) : l.price # lvs[i].price}
  BY <1>6, <1>7, <1>8 DEF Range
<1>10. RemoveAt(lvs, i) = r  BY DEF RemoveAt, r, a, b
<1> QED  BY <1>3, <1>5, <1>9, <1>10

\* Writing a level back in place.
LEMMA ReplaceLevel ==
    ASSUME NEW side \in Side, NEW lvs \in Seq(Level), Sorted(side, lvs),
           NEW i \in DOMAIN lvs, NEW lvl \in Level, lvl.price = lvs[i].price
    PROVE  /\ ReplaceAt(lvs, i, lvl) \in Seq(Level)
           /\ Sorted(side, ReplaceAt(lvs, i, lvl))
           /\ Range(ReplaceAt(lvs, i, lvl)) =
                {l \in Range(lvs) : l.price # lvl.price} \cup {lvl}
<1> DEFINE r == [lvs EXCEPT ![i] = lvl]
<1>1. /\ r \in Seq(Level) /\ DOMAIN r = DOMAIN lvs
      /\ \A j \in DOMAIN lvs : r[j] = IF j = i THEN lvl ELSE lvs[j]
  BY ExceptSeq
<1>2. Sorted(side, r)  BY <1>1 DEF Sorted
<1>3. \A k \in DOMAIN lvs : k # i => lvs[k].price # lvl.price  BY SortedUnique
<1>4. Range(r) = {l \in Range(lvs) : l.price # lvl.price} \cup {lvl}
  BY <1>1, <1>3 DEF Range
<1> QED  BY <1>1, <1>2, <1>4 DEF ReplaceAt

\* levels_.insert at the lower bound of a price that has no level.
LEMMA InsertLevel ==
    ASSUME NEW side \in Side, NEW lvs \in Seq(Level), Sorted(side, lvs),
           NEW lvl \in Level, ~HasLevel(side, lvs, lvl.price)
    PROVE  LET i == FindLevel(side, lvs, lvl.price)
               r == InsertAt(lvs, i, lvl)
           IN  /\ i \in DOMAIN r /\ r[i] = lvl
               /\ r \in Seq(Level)
               /\ Sorted(side, r)
               /\ Range(r) = Range(lvs) \cup {lvl}
               /\ \A l \in Range(lvs) : l.price # lvl.price
<1> DEFINE p == lvl.price
           i == FindLevel(side, lvs, p)
           a == SubSeq(lvs, 1, i - 1)
           b == SubSeq(lvs, i, Len(lvs))
           al == a \o <<lvl>>
           r == al \o b
<1>0. p \in Prices /\ p \in Int /\ Len(lvs) \in Nat /\ DOMAIN lvs = 1..Len(lvs)
  BY LevelSeq, PricesAssumption DEF Level
<1>1. /\ i \in 1..Len(lvs) + 1
      /\ \A j \in 1..i - 1 : LessForSide(side, lvs[j].price, p)
      /\ i <= Len(lvs) => ~LessForSide(side, lvs[i].price, p)
  BY <1>0, FindLevelPosition
<1>2. \A j \in DOMAIN lvs : lvs[j].price \in Int  BY LevelSeq
<1>3. i <= Len(lvs) => lvs[i].price # p  BY DEF HasLevel
<1> HIDE DEF i, p
<1>4. \A j \in DOMAIN lvs : j >= i => LessForSide(side, p, lvs[j].price)
  <2>1. i <= Len(lvs) => LessForSide(side, p, lvs[i].price)
    BY <1>0, <1>1, <1>2, <1>3 DEF LessForSide
  <2>2. SUFFICES ASSUME NEW j \in DOMAIN lvs, j > i
                 PROVE  LessForSide(side, p, lvs[j].price)
    BY <1>0, <1>1, <2>1
  <2>3. LessForSide(side, lvs[i].price, lvs[j].price)  BY <1>0, <1>1, <2>2 DEF Sorted
  <2> QED  BY <1>0, <1>1, <1>2, <2>1, <2>2, <2>3 DEF LessForSide
<1>5. a \in Seq(Level) /\ Len(a) = i - 1 /\ \A j \in 1..i - 1 : a[j] = lvs[j]
  BY <1>0, <1>1, SubSeqProperties
<1>6. b \in Seq(Level) /\ Len(b) = Len(lvs) + 1 - i
      /\ \A j \in 1..Len(lvs) + 1 - i : b[j] = lvs[i + j - 1]
  BY <1>0, <1>1, SubSeqProperties
<1>7. <<lvl>> \in Seq(Level) /\ Len(<<lvl>>) = 1 /\ <<lvl>>[1] = lvl  OBVIOUS
<1> HIDE DEF a, b
<1>8. al \in Seq(Level) /\ Len(al) = i
      /\ \A j \in 1..i : al[j] = IF j < i THEN lvs[j] ELSE lvl
  BY <1>1, <1>5, <1>7, ConcatProperties
<1> HIDE DEF al
<1>9. r \in Seq(Level) /\ Len(r) = Len(lvs) + 1
      /\ \A j \in 1..Len(lvs) + 1 :
            r[j] = IF j < i THEN lvs[j] ELSE IF j = i THEN lvl ELSE lvs[j - 1]
  <2>1. /\ r \in Seq(Level) /\ Len(r) = Len(al) + Len(b)
        /\ \A j \in 1..Len(al) + Len(b) :
              r[j] = IF j <= Len(al) THEN al[j] ELSE b[j - Len(al)]
    BY <1>6, <1>8, ConcatProperties, Zenon
  <2> HIDE DEF r
  <2>3. Len(r) = Len(lvs) + 1  BY <1>0, <1>1, <1>6, <1>8, <2>1
  <2>4. ASSUME NEW j \in 1..Len(lvs) + 1, j <= i
        PROVE  r[j] = IF j < i THEN lvs[j] ELSE lvl
    BY <1>0, <1>1, <1>6, <1>8, <2>1, <2>4
  <2>5. ASSUME NEW j \in 1..Len(lvs) + 1, j > i PROVE r[j] = lvs[j - 1]
    <3>1. j - i \in 1..Len(lvs) + 1 - i /\ r[j] = b[j - i]
      BY <1>0, <1>1, <1>6, <1>8, <2>1, <2>5
    <3>2. i + (j - i) - 1 = j - 1  BY <1>0, <1>1
    <3> QED  BY <1>6, <3>1, <3>2
  <2> QED  BY <1>0, <1>1, <2>1, <2>3, <2>4, <2>5
<1> HIDE DEF r
<1>10. DOMAIN r = 1..Len(lvs) + 1  BY <1>9
<1>11. Sorted(side, r)
  <2> SUFFICES ASSUME NEW j \in DOMAIN r, NEW k \in DOMAIN r, j < k
               PROVE  LessForSide(side, r[j].price, r[k].price)
    BY DEF Sorted
  <2>1. CASE k < i  BY <1>0, <1>1, <1>9, <1>10, <2>1 DEF Sorted
  <2>2. CASE k = i  BY <1>0, <1>1, <1>9, <1>10, <2>2 DEF p
  <2>3. CASE j = i
    <3>1. r[j].price = p /\ k - 1 \in DOMAIN lvs /\ k - 1 >= i /\ r[k] = lvs[k - 1]
      BY <1>0, <1>1, <1>9, <1>10, <2>3 DEF p
    <3> QED  BY <1>4, <3>1
  <2>4. CASE j > i
    <3>1. /\ j - 1 \in DOMAIN lvs /\ k - 1 \in DOMAIN lvs /\ j - 1 < k - 1
          /\ r[j] = lvs[j - 1] /\ r[k] = lvs[k - 1]
      BY <1>0, <1>1, <1>9, <1>10, <2>4
    <3> QED  BY <3>1 DEF Sorted
  <2>5. CASE j < i /\ k > i
    <3>1. k - 1 \in DOMAIN lvs /\ k - 1 >= i /\ r[k] = lvs[k - 1] /\ j \in DOMAIN lvs /\ r[j] = lvs[j]
      BY <1>0, <1>1, <1>9, <1>10, <2>5
    <3> QED  BY <3>1, <2>5 , <1>1 DEF Sorted
  <2> QED  BY <1>1, <1>10, <2>1, <2>2, <2>3, <2>4, <2>5
<1>12. Range(r) = Range(lvs) \cup {lvl}
  <2>1. \A j \in DOMAIN r : r[j] \in Range(lvs) \cup {lvl}
    BY <1>0, <1>1, <1>9, <1>10 DEF Range
  <2>2. r[i] = lvl /\ i \in DOMAIN r  BY <1>0, <1>1, <1>9, <1>10
  <2>3. ASSUME NEW k \in DOMAIN lvs PROVE \E j \in DOMAIN r : r[j] = lvs[k]
    <3>1. CASE k < i  BY <1>0, <1>1, <1>9, <1>10, <3>1
    <3>2. CASE k >= i
      <4>1. k + 1 \in DOMAIN r /\ r[k + 1] = lvs[k]  BY <1>0, <1>1, <1>9, <1>10, <3>2
      <4> QED  BY <4>1
    <3> QED  BY <1>0, <1>1, <3>1, <3>2
  <2> QED  BY <2>1, <2>2, <2>3 DEF Range
<1>13. \A j \in DOMAIN lvs : lvs[j].price # p
  <2> SUFFICES ASSUME NEW j \in DOMAIN lvs PROVE lvs[j].price # p
    OBVIOUS
  <2>1. CASE j < i
    <3>1. LessForSide(side, lvs[j].price, p)  BY <1>0, <1>1, <2>1
    <3> QED  BY <1>0, <1>2, <3>1 DEF LessForSide
  <2>2. CASE j >= i  BY <1>0, <1>2, <1>4, <2>2 DEF LessForSide
  <2> QED  BY <1>0, <1>1, <2>1, <2>2
<1>14. InsertAt(lvs, i, lvl) = r  BY DEF InsertAt, r, al, a, b
<1>15. i \in DOMAIN r /\ r[i] = lvl  BY <1>0, <1>1, <1>9, <1>10
<1> QED  BY <1>9, <1>11, <1>12, <1>13, <1>14, <1>15 DEF p, i, Range

\* Storing a changed level back, or erasing it when its list ran empty.
LEMMA StoreLevelSpec ==
    ASSUME NEW side \in Side, NEW lvs \in Seq(Level), Sorted(side, lvs),
           NEW i \in DOMAIN lvs, NEW lvl \in Level, lvl.price = lvs[i].price
    PROVE  /\ StoreLevel(lvs, i, lvl) \in Seq(Level)
           /\ Sorted(side, StoreLevel(lvs, i, lvl))
           /\ Range(StoreLevel(lvs, i, lvl)) =
                {l \in Range(lvs) : l.price # lvl.price}
                  \cup (IF lvl.head = NULL THEN {} ELSE {lvl})
<1>1. CASE lvl.head = NULL
  <2>1. StoreLevel(lvs, i, lvl) = RemoveAt(lvs, i)  BY <1>1 DEF StoreLevel
  <2>2. {l \in Range(lvs) : l.price # lvl.price} \cup (IF lvl.head = NULL THEN {} ELSE {lvl})
          = {l \in Range(lvs) : l.price # lvs[i].price}
    BY <1>1
  <2> QED  BY <2>1, <2>2, RemoveLevel
<1>2. CASE lvl.head # NULL
  <2>1. StoreLevel(lvs, i, lvl) = ReplaceAt(lvs, i, lvl)  BY <1>2 DEF StoreLevel
  <2> QED  BY <1>2, <2>1, ReplaceLevel
<1> QED  BY <1>1, <1>2

\* get_or_insert finds the level of the price or puts an empty one in its place.
LEMMA WithLevelSpec ==
    ASSUME NEW side \in Side, NEW lvs \in Seq(Level), Sorted(side, lvs), NEW p \in Prices
    PROVE  LET w == WithLevel(side, lvs, p)
               i == FindLevel(side, w, p)
           IN  /\ w \in Seq(Level) /\ Sorted(side, w)
               /\ i \in DOMAIN w /\ w[i].price = p
               /\ {l \in Range(w) : l.price # p} = {l \in Range(lvs) : l.price # p}
               /\ \/ w[i] \in Range(lvs)
                  \/ /\ w[i].head = NULL /\ w[i].tail = NULL /\ w[i].total_qty = 0
                     /\ \A l \in Range(lvs) : l.price # p
<1> DEFINE w == WithLevel(side, lvs, p)
           i == FindLevel(side, w, p)
           k == FindLevel(side, lvs, p)
           blank == [price |-> p, total_qty |-> 0, head |-> NULL, tail |-> NULL]
<1>0. k \in 1..Len(lvs) + 1 /\ DOMAIN lvs = 1..Len(lvs)
  BY FindLevelPosition, LevelSeq
<1>1. CASE HasLevel(side, lvs, p)
  <2>1. w = lvs /\ i = k  BY <1>1 DEF WithLevel
  <2>2. i \in DOMAIN lvs /\ lvs[i].price = p  BY <1>0, <1>1, <2>1 DEF HasLevel
  <2> QED  BY <2>1, <2>2 DEF Range
<1>2. CASE ~HasLevel(side, lvs, p)
  <2>1. w = InsertAt(lvs, k, blank)  BY <1>2 DEF WithLevel
  <2>2. blank \in Level /\ blank.price = p /\ blank.head = NULL /\ blank.tail = NULL
        /\ blank.total_qty = 0
    BY ModulusAssumption DEF Level
  <2> HIDE DEF blank
  <2>3. /\ k \in DOMAIN w /\ w[k] = blank
        /\ w \in Seq(Level) /\ Sorted(side, w)
        /\ Range(w) = Range(lvs) \cup {blank}
        /\ \A l \in Range(lvs) : l.price # p
    BY <1>2, <2>1, <2>2, InsertLevel
  <2>4. i = k  BY <2>2, <2>3, FindLevelFinds
  <2> HIDE DEF w, i, k
  <2>5. /\ w \in Seq(Level) /\ Sorted(side, w) /\ i \in DOMAIN w /\ w[i].price = p
        /\ {l \in Range(w) : l.price # p} = {l \in Range(lvs) : l.price # p}
        /\ w[i].head = NULL /\ w[i].tail = NULL /\ w[i].total_qty = 0
        /\ \A l \in Range(lvs) : l.price # p
    BY <2>2, <2>3, <2>4
  <2> QED  BY <2>5 DEF w, i
<1> QED  BY <1>1, <1>2

-----------------------------------------------------------------------------
(* The inductive invariant.                                                *)

SamePlace(s, t) == order[s].side = order[t].side /\ order[s].price = order[t].price

\* Links lead from resting orders to resting orders of the same level and back.
Neighbours ==
    \A s \in Resting :
        /\ next[s] # NULL => /\ next[s] \in Resting
                             /\ prev[next[s]] = s
                             /\ SamePlace(s, next[s])
        /\ prev[s] # NULL => /\ prev[s] \in Resting
                             /\ next[prev[s]] = s
                             /\ SamePlace(s, prev[s])

\* A level's head and tail are resting orders of the level, without neighbour.
Ends ==
    \A side \in Side : \A l \in Range(levels[side]) :
        /\ /\ l.head \in Resting /\ prev[l.head] = NULL
           /\ order[l.head].side = side /\ order[l.head].price = l.price
        /\ /\ l.tail \in Resting /\ next[l.tail] = NULL
           /\ order[l.tail].side = side /\ order[l.tail].price = l.price

\* A resting order has a level; without neighbour on one side it is that end.
Covered ==
    \A s \in Resting : \E l \in Range(levels[order[s].side]) :
        /\ l.price = order[s].price
        /\ prev[s] = NULL => l.head = s
        /\ next[s] = NULL => l.tail = s

\* The links have no cycle.
Ranked ==
    \E f \in [Slots -> Nat] :
        \A s \in Resting : next[s] # NULL => f[s] < f[next[s]]

Linked == Neighbours /\ Ends /\ Covered /\ Ranked

\* The free list holds every released slot exactly once.
FreeList ==
    /\ \A k \in DOMAIN free : order[free[k]] = NULL
    /\ \A j, k \in DOMAIN free : free[j] = free[k] => j = k
    /\ \A s \in Slots : order[s] = NULL => \E k \in DOMAIN free : free[k] = s

TakerLive ==
    taker # NULL => /\ order[taker] # NULL
                    /\ ~AllowDuplicateIds => index[order[taker].id] = NULL

IInv ==
    /\ TypeOK
    /\ FreeList
    /\ TakerLive
    /\ LevelsSorted
    /\ Linked
    /\ IndexEntriesLive
    /\ IndexExact
    /\ BookNeverCrossed

-----------------------------------------------------------------------------
(* Facts about one state.                                                  *)

\* A live slot holds an order of the declared type.
LEMMA LiveOrder ==
    ASSUME TypeOK, NEW s \in Slots, order[s] # NULL
    PROVE  /\ order[s] \in Order
           /\ order[s].id \in Ids /\ order[s].side \in Side
           /\ order[s].price \in Prices /\ order[s].price \in Int
           /\ order[s].qty \in 0..QtyModulus - 1
<1>1. order[s] \in Order  BY DEF TypeOK
<1> QED  BY <1>1, PricesAssumption DEF Order

\* Levels in the vectors have the declared type and one price each.
LEMMA LevelFacts ==
    ASSUME TypeOK, LevelsSorted, NEW side \in Side
    PROVE  /\ levels[side] \in Seq(Level) /\ Sorted(side, levels[side])
           /\ \A l \in Range(levels[side]) : /\ l \in Level
                                             /\ l.price \in Prices /\ l.price \in Int
           /\ \A l, m \in Range(levels[side]) : l.price = m.price => l = m
<1>1. levels[side] \in Seq(Level) /\ Sorted(side, levels[side])
  BY DEF TypeOK, LevelsSorted
<1>2. \A l \in Range(levels[side]) : l \in Level /\ l.price \in Prices /\ l.price \in Int
  BY <1>1, LevelSeq DEF Range
<1>3. ASSUME NEW l \in Range(levels[side]), NEW m \in Range(levels[side]), l.price = m.price
      PROVE  l = m
  <2>1. PICK i \in DOMAIN levels[side] : l = levels[side][i]  BY DEF Range
  <2>2. PICK j \in DOMAIN levels[side] : m = levels[side][j]  BY DEF Range
  <2>3. i = j  BY <1>1, <1>3, <2>1, <2>2, SortedUnique
  <2> QED  BY <2>1, <2>2, <2>3
<1> QED  BY <1>1, <1>2, <1>3

\* An order without neighbours is alone at its price: cancel() and match() may
\* erase the level when its list runs empty.
LEMMA LoneOrder ==
    ASSUME TypeOK, LevelsSorted, Linked,
           NEW s \in Resting, prev[s] = NULL, next[s] = NULL,
           NEW t \in Resting, SamePlace(s, t)
    PROVE  t = s
<1> SUFFICES ASSUME t # s PROVE FALSE  OBVIOUS
<1>1. PICK f \in [Slots -> Nat] : \A u \in Resting : next[u] # NULL => f[u] < f[next[u]]
  BY DEF Linked, Ranked
<1> DEFINE T == {u \in Resting : u # s /\ SamePlace(s, u)}
           S == {f[u] : u \in T}
<1>2. S \subseteq Nat /\ S # {}  BY DEF Resting
<1>3. PICK u \in T : \A v \in T : f[u] <= f[v]
  <2>1. PICK m \in S : \A k \in S : m <= k  BY <1>2, SmallestElement
  <2> QED  BY <2>1
<1>4. prev[u] = NULL
  <2> SUFFICES ASSUME prev[u] # NULL PROVE FALSE  OBVIOUS
  <2>1. /\ prev[u] \in Resting /\ next[prev[u]] = u /\ SamePlace(u, prev[u])
    BY DEF Linked, Neighbours
  <2>2. u # NULL  BY NullAssumption DEF Resting
  <2>3. prev[u] # s  BY <2>1, <2>2
  <2>4. prev[u] \in T  BY <2>1, <2>3 DEF SamePlace
  <2>5. f[prev[u]] < f[u]  BY <1>1, <2>1, <2>2
  <2>6. f[u] \in Nat /\ f[prev[u]] \in Nat  BY <2>1 DEF Resting
  <2> QED  BY <1>3, <2>4, <2>5, <2>6
<1>5. PICK l \in Range(levels[order[s].side]) : l.price = order[s].price /\ l.head = s
  BY DEF Linked, Covered
<1>6. PICK m \in Range(levels[order[u].side]) : m.price = order[u].price /\ m.head = u
  BY <1>4 DEF Linked, Covered
<1>7. order[s].side \in Side  BY LiveOrder DEF Resting
<1>8. l = m  BY <1>5, <1>6, <1>7, LevelFacts DEF SamePlace
<1> QED  BY <1>5, <1>6, <1>8

-----------------------------------------------------------------------------
(* The two ways the lists change.                                          *)

\* Order s leaves level l, which becomes ll or, when that is empty, disappears.
Unlinked(s, l, ll) ==
    /\ s \in Resting
    /\ l \in Range(levels[order[s].side]) /\ l.price = order[s].price
    /\ ll.price = l.price
    /\ ll.head = IF prev[s] = NULL THEN next[s] ELSE l.head
    /\ ll.tail = IF next[s] = NULL THEN prev[s] ELSE l.tail
    /\ Resting' = Resting \ {s}
    /\ \A t \in Resting \ {s} :
          /\ order'[t].side = order[t].side /\ order'[t].price = order[t].price
          /\ next'[t] = IF t = prev[s] THEN next[s] ELSE next[t]
          /\ prev'[t] = IF t = next[s] THEN prev[s] ELSE prev[t]
    /\ \A side \in Side : Range(levels'[side]) =
          IF side = order[s].side
          THEN {m \in Range(levels[side]) : m.price # l.price}
                 \cup (IF ll.head = NULL THEN {} ELSE {ll})
          ELSE Range(levels[side])

\* The order o goes behind tl, the tail of its level if it has one; ll is the
\* level afterwards.
Appended(o, tl, ll) ==
    /\ o \in Slots /\ order[o] # NULL /\ o \notin Resting
    /\ ll.price = order[o].price /\ ll.tail = o
    /\ \/ /\ tl = NULL /\ ll.head = o
          /\ \A m \in Range(levels[order[o].side]) : m.price # order[o].price
       \/ \E l \in Range(levels[order[o].side]) :
             l.price = order[o].price /\ l.tail = tl /\ l.head = ll.head
    /\ Resting' = Resting \cup {o}
    /\ \A t \in Resting \cup {o} :
          /\ order'[t].side = order[t].side /\ order'[t].price = order[t].price
          /\ next'[t] = IF t = o THEN NULL ELSE IF t = tl THEN o ELSE next[t]
          /\ prev'[t] = IF t = o THEN tl ELSE prev[t]
    /\ \A side \in Side : Range(levels'[side]) =
          IF side = order[o].side
          THEN {m \in Range(levels[side]) : m.price # order[o].price} \cup {ll}
          ELSE Range(levels[side])

\* Taking one order out of its list (PriceLevel::unlink, and the pop of the
\* head in match()), with its level erased when that empties it.
LEMMA UnlinkKeepsLinked ==
    ASSUME TypeOK, LevelsSorted, Linked, NEW s, NEW l, NEW ll, Unlinked(s, l, ll)
    PROVE  Linked'
<1> USE DEF Unlinked
<1> DEFINE home == order[s].side
<1>0. NULL \notin Resting /\ home \in Side  BY NullAssumption, LiveOrder DEF Resting
<1>1. /\ l.head \in Resting /\ prev[l.head] = NULL /\ SamePlace(s, l.head)
      /\ l.tail \in Resting /\ next[l.tail] = NULL /\ SamePlace(s, l.tail)
  BY <1>0 DEF Linked, Ends, SamePlace
<1>2. (prev[s] = NULL => l.head = s) /\ (next[s] = NULL => l.tail = s)
  BY <1>0, LevelFacts DEF Linked, Covered
<1>3. /\ next[s] # NULL => next[s] \in Resting /\ prev[next[s]] = s /\ SamePlace(s, next[s])
      /\ prev[s] # NULL => prev[s] \in Resting /\ next[prev[s]] = s /\ SamePlace(s, prev[s])
  BY DEF Linked, Neighbours
<1>4. PICK f \in [Slots -> Nat] : \A u \in Resting : next[u] # NULL => f[u] < f[next[u]]
  BY DEF Linked, Ranked
<1>5. \A u \in Resting : f[u] \in Nat  BY <1>4 DEF Resting
<1>6. next[s] # s /\ prev[s] # s
  BY <1>0, <1>3, <1>4, <1>5
<1>7. ll.head = NULL => prev[s] = NULL /\ next[s] = NULL
  BY <1>0, <1>1
<1>8. Neighbours'
  <2> SUFFICES ASSUME NEW t \in Resting \ {s}
               PROVE  /\ next'[t] # NULL => /\ next'[t] \in Resting \ {s}
                                            /\ prev'[next'[t]] = t
                                            /\ SamePlace(t, next'[t])
                      /\ prev'[t] # NULL => /\ prev'[t] \in Resting \ {s}
                                            /\ next'[prev'[t]] = t
                                            /\ SamePlace(t, prev'[t])
    BY DEF Neighbours, SamePlace
  <2>1. /\ next[t] # NULL => next[t] \in Resting /\ prev[next[t]] = t /\ SamePlace(t, next[t])
        /\ prev[t] # NULL => prev[t] \in Resting /\ next[prev[t]] = t /\ SamePlace(t, prev[t])
    BY DEF Linked, Neighbours
  <2>2. ASSUME t # prev[s], next'[t] # NULL
        PROVE  next'[t] \in Resting \ {s} /\ prev'[next'[t]] = t /\ SamePlace(t, next'[t])
    <3>1. next'[t] = next[t] /\ next[t] # s /\ next[t] \in Resting \ {s}
      BY <1>3, <2>1, <2>2, <1>0
    <3>2. prev'[next[t]] = t  BY <1>0, <1>3, <2>1, <3>1
    <3> QED  BY <2>1, <2>2, <3>1, <3>2 DEF SamePlace
  <2>3. ASSUME t = prev[s], next'[t] # NULL
        PROVE  next'[t] \in Resting \ {s} /\ prev'[next'[t]] = t /\ SamePlace(t, next'[t])
    <3>1. next'[t] = next[s] /\ next[s] \in Resting \ {s}  BY <1>3, <1>6, <2>3
    <3>2. prev'[next[s]] = t  BY <2>3, <3>1
    <3> QED  BY <1>3, <2>3, <3>1, <3>2, <1>0 DEF SamePlace
  <2>4. ASSUME t # next[s], prev'[t] # NULL
        PROVE  prev'[t] \in Resting \ {s} /\ next'[prev'[t]] = t /\ SamePlace(t, prev'[t])
    <3>1. prev'[t] = prev[t] /\ prev[t] # s /\ prev[t] \in Resting \ {s}
      BY <1>3, <2>1, <2>4, <1>0
    <3>2. next'[prev[t]] = t  BY <1>0, <1>3, <2>1, <3>1
    <3> QED  BY <2>1, <2>4, <3>1, <3>2 DEF SamePlace
  <2>5. ASSUME t = next[s], prev'[t] # NULL
        PROVE  prev'[t] \in Resting \ {s} /\ next'[prev'[t]] = t /\ SamePlace(t, prev'[t])
    <3>1. prev'[t] = prev[s] /\ prev[s] \in Resting \ {s}  BY <1>3, <1>6, <2>5
    <3>2. next'[prev[s]] = t  BY <2>5, <3>1
    <3> QED  BY <1>3, <2>5, <3>1, <3>2, <1>0 DEF SamePlace
  <2>6. next'[t] # NULL => /\ next'[t] \in Resting \ {s} /\ prev'[next'[t]] = t
                           /\ SamePlace(t, next'[t])
    BY <2>2, <2>3
  <2>7. prev'[t] # NULL => /\ prev'[t] \in Resting \ {s} /\ next'[prev'[t]] = t
                           /\ SamePlace(t, prev'[t])
    BY <2>4, <2>5
  <2> QED  BY <2>6, <2>7
<1>9. Ends'
  <2> SUFFICES ASSUME NEW side \in Side, NEW m \in Range(levels'[side])
               PROVE  /\ m.head \in Resting \ {s} /\ prev'[m.head] = NULL
                      /\ order'[m.head].side = side /\ order'[m.head].price = m.price
                      /\ m.tail \in Resting \ {s} /\ next'[m.tail] = NULL
                      /\ order'[m.tail].side = side /\ order'[m.tail].price = m.price
    BY DEF Ends
  <2>0. \/ m \in Range(levels[side]) /\ ~(side = home /\ m.price = l.price)
        \/ side = home /\ m = ll /\ ll.head # NULL
    <3>1. CASE side = home
      <4>1. m \in {mm \in Range(levels[side]) : mm.price # l.price}
                    \cup (IF ll.head = NULL THEN {} ELSE {ll})
        BY <3>1
      <4>2. m \in {mm \in Range(levels[side]) : mm.price # l.price}
            \/ (ll.head # NULL /\ m = ll)
        BY <4>1
      <4> QED  BY <3>1, <4>2
    <3>2. CASE side # home  BY <3>2
    <3> QED  BY <3>1, <3>2
  <2>1. CASE m \in Range(levels[side]) /\ ~(side = home /\ m.price = l.price)
    <3>1. /\ m.head \in Resting /\ prev[m.head] = NULL
          /\ order[m.head].side = side /\ order[m.head].price = m.price
          /\ m.tail \in Resting /\ next[m.tail] = NULL
          /\ order[m.tail].side = side /\ order[m.tail].price = m.price
      BY <2>1 DEF Linked, Ends
    <3>2. ~SamePlace(s, m.head) /\ ~SamePlace(s, m.tail)  BY <2>1, <3>1 DEF SamePlace
    <3>3. m.head # s /\ m.tail # s  BY <2>1, <3>1
    <3>4. m.head # next[s] /\ m.tail # prev[s]  BY <1>0, <1>3, <3>1, <3>2
    <3> QED  BY <3>1, <3>3, <3>4
  <2>2. CASE side = home /\ m = ll /\ ll.head # NULL
    <3>1. /\ m.head \in Resting \ {s} /\ prev'[m.head] = NULL /\ SamePlace(s, m.head)
      <4>1. CASE prev[s] = NULL  BY <1>3, <1>6, <2>2, <4>1
      <4>2. CASE prev[s] # NULL
        <5>1. m.head = l.head /\ l.head # s /\ l.head # next[s]
          BY <1>0, <1>1, <1>3, <2>2, <4>2
        <5> QED  BY <1>1, <5>1
      <4> QED  BY <4>1, <4>2
    <3>2. /\ m.tail \in Resting \ {s} /\ next'[m.tail] = NULL /\ SamePlace(s, m.tail)
      <4>1. CASE next[s] = NULL
        <5>1. prev[s] # NULL  BY <2>2, <4>1
        <5> QED  BY <1>3, <1>6, <2>2, <4>1, <5>1
      <4>2. CASE next[s] # NULL
        <5>1. m.tail = l.tail /\ l.tail # s /\ l.tail # prev[s]
          BY <1>0, <1>1, <1>3, <2>2, <4>2
        <5> QED  BY <1>1, <5>1
      <4> QED  BY <4>1, <4>2
    <3> QED  BY <2>2, <3>1, <3>2 DEF SamePlace
  <2> QED  BY <2>0, <2>1, <2>2
<1>10. Covered'
  <2> SUFFICES ASSUME NEW t \in Resting \ {s}
               PROVE  \E m \in Range(levels'[order[t].side]) :
                         /\ m.price = order[t].price
                         /\ prev'[t] = NULL => m.head = t
                         /\ next'[t] = NULL => m.tail = t
    BY DEF Covered
  <2>0. order[t].side \in Side  BY LiveOrder DEF Resting
  <2>1. PICK m \in Range(levels[order[t].side]) :
            /\ m.price = order[t].price
            /\ prev[t] = NULL => m.head = t
            /\ next[t] = NULL => m.tail = t
    BY DEF Linked, Covered
  <2>2. CASE ~SamePlace(s, t)
    <3>1. t # next[s] /\ t # prev[s]  BY <1>0, <1>3, <2>2
    <3>2. m \in Range(levels'[order[t].side])  BY <2>0, <2>1, <2>2 DEF SamePlace
    <3> QED  BY <2>1, <3>1, <3>2
  <2>3. CASE SamePlace(s, t)
    <3>1. ll.head # NULL  BY <1>7, <2>3, LoneOrder
    <3>2. ll \in Range(levels'[order[t].side]) /\ ll.price = order[t].price
      BY <1>0, <2>3, <3>1 DEF SamePlace
    <3>3. m = l  BY <1>0, <2>1, <2>3, LevelFacts DEF SamePlace
    <3>4. prev'[t] = NULL => ll.head = t
      <4>1. CASE t = next[s]  BY <1>0, <4>1
      <4>2. CASE t # next[s]
        <5>1. prev'[t] = NULL => l.head = t  BY <2>1, <3>3, <4>2
        <5>2. l.head = t => prev[s] # NULL  BY <1>2
        <5> QED  BY <5>1, <5>2
      <4> QED  BY <4>1, <4>2
    <3>5. next'[t] = NULL => ll.tail = t
      <4>1. CASE t = prev[s]  BY <1>0, <4>1
      <4>2. CASE t # prev[s]
        <5>1. next'[t] = NULL => l.tail = t  BY <2>1, <3>3, <4>2
        <5>2. l.tail = t => next[s] # NULL  BY <1>2
        <5> QED  BY <5>1, <5>2
      <4> QED  BY <4>1, <4>2
    <3> QED  BY <3>2, <3>4, <3>5
  <2> QED  BY <2>2, <2>3
<1>11. Ranked'
  <2>1. ASSUME NEW t \in Resting \ {s}, next'[t] # NULL PROVE f[t] < f[next'[t]]
    <3>1. CASE t # prev[s]  BY <1>4, <2>1, <3>1
    <3>2. CASE t = prev[s]
      <4>1. next'[t] = next[s] /\ next[s] # NULL /\ next[t] = s  BY <1>0, <1>3, <2>1, <3>2
      <4>2. f[t] < f[s] /\ f[s] < f[next[s]]  BY <1>0, <1>4, <4>1
      <4> QED  BY <1>3, <1>5, <4>1, <4>2
    <3> QED  BY <3>1, <3>2
  <2> QED  BY <2>1 DEF Ranked
<1> QED  BY <1>8, <1>9, <1>10, <1>11 DEF Linked

\* Appending the taker to the level of its price (rest() and push_back), the
\* level being new or not: tl is the order it is linked behind, if any.
LEMMA AppendKeepsLinked ==
    ASSUME TypeOK, LevelsSorted, Linked, NEW o, NEW tl, NEW ll, Appended(o, tl, ll)
    PROVE  Linked'
<1> USE DEF Appended
<1> DEFINE home == order[o].side
<1>0. NULL \notin Resting /\ home \in Side /\ o # NULL
  BY NullAssumption, LiveOrder DEF Resting
<1>1. \A t \in Resting :
        /\ next[t] # NULL => next[t] \in Resting /\ prev[next[t]] = t /\ SamePlace(t, next[t])
        /\ prev[t] # NULL => prev[t] \in Resting /\ next[prev[t]] = t /\ SamePlace(t, prev[t])
  BY DEF Linked, Neighbours
<1>2. \A side \in Side : \A l \in Range(levels[side]) :
        /\ l.head \in Resting /\ prev[l.head] = NULL
        /\ order[l.head].side = side /\ order[l.head].price = l.price
        /\ l.tail \in Resting /\ next[l.tail] = NULL
        /\ order[l.tail].side = side /\ order[l.tail].price = l.price
  BY DEF Linked, Ends
<1>3. tl # NULL => tl \in Resting /\ next[tl] = NULL /\ SamePlace(o, tl)
  BY <1>0, <1>2 DEF SamePlace
<1>4. \/ ll.head = o /\ tl = NULL
      \/ /\ ll.head \in Resting /\ prev[ll.head] = NULL /\ SamePlace(o, ll.head)
         /\ tl # NULL
  BY <1>0, <1>2 DEF SamePlace
<1>5. Neighbours'
  <2> SUFFICES ASSUME NEW t \in Resting \cup {o}
               PROVE  /\ next'[t] # NULL => /\ next'[t] \in Resting \cup {o}
                                            /\ prev'[next'[t]] = t
                                            /\ SamePlace(t, next'[t])
                      /\ prev'[t] # NULL => /\ prev'[t] \in Resting \cup {o}
                                            /\ next'[prev'[t]] = t
                                            /\ SamePlace(t, prev'[t])
    BY DEF Neighbours, SamePlace
  <2>1. ASSUME next'[t] # NULL
        PROVE  next'[t] \in Resting \cup {o} /\ prev'[next'[t]] = t /\ SamePlace(t, next'[t])
    <3>1. CASE t = tl /\ t # o  BY <1>0, <1>3, <2>1, <3>1 DEF SamePlace
    <3>2. CASE t # tl /\ t # o  BY <1>1, <2>1, <3>2
    <3> QED  BY <2>1, <3>1, <3>2
  <2>2. ASSUME prev'[t] # NULL
        PROVE  prev'[t] \in Resting \cup {o} /\ next'[prev'[t]] = t /\ SamePlace(t, prev'[t])
    <3>1. CASE t = o  BY <1>3, <2>2, <3>1
    <3>2. CASE t # o
      <4>1. prev'[t] = prev[t] /\ prev[t] \in Resting /\ next[prev[t]] = t  BY <1>1, <2>2, <3>2
      <4>2. prev[t] # tl  BY <1>0, <1>3, <3>2, <4>1
      <4> QED  BY <1>1, <2>2, <3>2, <4>1, <4>2
    <3> QED  BY <3>1, <3>2
  <2> QED  BY <2>1, <2>2
<1>6. Ends'
  <2> SUFFICES ASSUME NEW side \in Side, NEW m \in Range(levels'[side])
               PROVE  /\ m.head \in Resting \cup {o} /\ prev'[m.head] = NULL
                      /\ order'[m.head].side = side /\ order'[m.head].price = m.price
                      /\ m.tail \in Resting \cup {o} /\ next'[m.tail] = NULL
                      /\ order'[m.tail].side = side /\ order'[m.tail].price = m.price
    BY DEF Ends
  <2>0. \/ m \in Range(levels[side]) /\ ~(side = home /\ m.price = order[o].price)
        \/ side = home /\ m = ll
    <3>1. CASE side = home
      <4>1. m \in {mm \in Range(levels[side]) : mm.price # order[o].price} \cup {ll}
        BY <3>1
      <4> QED  BY <3>1, <4>1
    <3>2. CASE side # home  BY <3>2
    <3> QED  BY <3>1, <3>2
  <2>1. CASE m \in Range(levels[side]) /\ ~(side = home /\ m.price = order[o].price)
    <3>1. m.tail # tl  BY <1>0, <1>2, <1>3, <2>1 DEF SamePlace
    <3> QED  BY <1>2, <2>1, <3>1
  <2>2. CASE side = home /\ m = ll  BY <1>3, <1>4, <2>2 DEF SamePlace
  <2> QED  BY <2>0, <2>1, <2>2
<1>7. Covered'
  <2> SUFFICES ASSUME NEW t \in Resting \cup {o}
               PROVE  \E m \in Range(levels'[order[t].side]) :
                         /\ m.price = order[t].price
                         /\ prev'[t] = NULL => m.head = t
                         /\ next'[t] = NULL => m.tail = t
    BY DEF Covered
  <2>0. order[t].side \in Side  BY <1>0, LiveOrder DEF Resting
  <2>1. CASE SamePlace(o, t)
    <3>1. ll \in Range(levels'[order[t].side]) /\ ll.price = order[t].price
      BY <1>0, <2>1 DEF SamePlace
    <3>2. CASE t = o  BY <1>4, <3>1, <3>2
    <3>3. CASE t # o
      <4>1. PICK m \in Range(levels[home]) :
                /\ m.price = order[o].price
                /\ prev[t] = NULL => m.head = t
                /\ next[t] = NULL => m.tail = t
        BY <2>1, <3>3 DEF Linked, Covered, SamePlace
      <4>2. PICK l \in Range(levels[home]) :
                l.price = order[o].price /\ l.tail = tl /\ l.head = ll.head
        BY <4>1
      <4>3. m = l  BY <1>0, <4>1, <4>2, LevelFacts
      <4>4. prev'[t] = NULL => ll.head = t  BY <3>3, <4>1, <4>2, <4>3
      <4>5. next'[t] # NULL
        BY <3>3, <4>1, <4>2, <4>3, <1>0
      <4> QED  BY <3>1, <4>4, <4>5
    <3> QED  BY <3>2, <3>3
  <2>2. CASE ~SamePlace(o, t)
    <3>1. t # o  BY <2>2 DEF SamePlace
    <3>2. PICK m \in Range(levels[order[t].side]) :
              /\ m.price = order[t].price
              /\ prev[t] = NULL => m.head = t
              /\ next[t] = NULL => m.tail = t
      BY <3>1 DEF Linked, Covered
    <3>3. m \in Range(levels'[order[t].side])
      BY <2>0, <2>2, <3>2 DEF SamePlace
    <3>4. t # tl  BY <1>0, <1>3, <2>2, <3>1
    <3> QED  BY <3>1, <3>2, <3>3, <3>4
  <2> QED  BY <2>1, <2>2
<1>8. Ranked'
  <2>1. PICK f \in [Slots -> Nat] : \A u \in Resting : next[u] # NULL => f[u] < f[next[u]]
    BY DEF Linked, Ranked
  <2> DEFINE g == [f EXCEPT ![o] = IF tl = NULL THEN 0 ELSE f[tl] + 1]
  <2>2. \A u \in Resting : u \in Slots /\ f[u] \in Nat  BY <2>1 DEF Resting
  <2>3. g \in [Slots -> Nat]  BY <1>3, <2>1, <2>2
  <2>4. ASSUME NEW t \in Resting \cup {o}, next'[t] # NULL PROVE g[t] < g[next'[t]]
    <3>1. t # o /\ t \in Resting  BY <2>4
    <3>2. CASE t = tl  BY <1>3, <2>1, <2>2, <3>1, <3>2, <1>0
    <3>3. CASE t # tl
      <4>1. next'[t] = next[t] /\ next[t] \in Resting  BY <1>1, <2>4, <3>1, <3>3
      <4> QED  BY <2>1, <2>2, <2>4, <3>1, <4>1
    <3> QED  BY <3>2, <3>3
  <2> QED  BY <2>3, <2>4 DEF Ranked
<1> QED  BY <1>5, <1>6, <1>7, <1>8 DEF Linked

-----------------------------------------------------------------------------
(* Every action preserves the invariant.                                   *)

\* The empty book satisfies the invariant.
LEMMA InitInvariant == Init => IInv
<1> SUFFICES ASSUME Init PROVE IInv  OBVIOUS
<1>1. free = [s \in Slots |-> s] /\ free \in Seq(Slots) /\ DOMAIN free = Slots
  BY CapacityAssumption DEF Init, Slots
<1>2. TypeOK
  BY <1>1 DEF Init, TypeOK, Side
<1>3. Resting = {}  BY DEF Init, Resting
<1>4. \A side \in Side : levels[side] = <<>> /\ Range(levels[side]) = {} /\ DOMAIN levels[side] = {}
  BY DEF Init, Range
<1>5. FreeList  BY <1>1 DEF Init, FreeList
<1>6. Ranked
  <2>1. [s \in Slots |-> 0] \in [Slots -> Nat]  OBVIOUS
  <2> QED  BY <1>3, <2>1 DEF Ranked
<1>7. Neighbours /\ Covered  BY <1>3 DEF Neighbours, Covered
<1>8. Ends /\ LevelsSorted /\ BookNeverCrossed
  BY <1>4 DEF Ends, LevelsSorted, Sorted, BookNeverCrossed, Side
<1>9. TakerLive /\ IndexEntriesLive /\ IndexExact
  BY <1>3 DEF Init, TakerLive, IndexEntriesLive, IndexExact
<1> QED  BY <1>2, <1>5, <1>6, <1>7, <1>8, <1>9 DEF IInv, Linked

\* A step that leaves the book alone.
LEMMA QuietStep ==
    ASSUME IInv, UNCHANGED <<order, prev, next, free, levels, index, taker>>
    PROVE  IInv'
<1>1. Resting' = Resting  BY DEF Resting
<1>2. TypeOK' /\ FreeList' /\ TakerLive' /\ LevelsSorted'
  BY DEF IInv, TypeOK, FreeList, TakerLive, LevelsSorted
<1>3. Neighbours'  BY <1>1 DEF IInv, Linked, Neighbours, SamePlace
<1>4. Ends'  BY <1>1 DEF IInv, Linked, Ends
<1>5. Covered'  BY <1>1 DEF IInv, Linked, Covered
<1>6. Ranked'  BY <1>1 DEF IInv, Linked, Ranked
<1>7. IndexEntriesLive' /\ IndexExact' /\ BookNeverCrossed'
  BY <1>1 DEF IInv, IndexEntriesLive, IndexExact, BookNeverCrossed
<1> QED  BY <1>2, <1>3, <1>4, <1>5, <1>6, <1>7 DEF IInv, Linked

\* Releasing a live slot keeps the free list exact.
LEMMA ReleaseFree ==
    ASSUME FreeList, free \in Seq(Slots), NEW s \in Slots, order[s] # NULL,
           free' = Cons(s, free), order'[s] = NULL,
           \A t \in Slots \ {s} : order'[t] = NULL <=> order[t] = NULL
    PROVE  free' \in Seq(Slots) /\ FreeList'
<1>1. <<s>> \in Seq(Slots) /\ Len(<<s>>) = 1 /\ <<s>>[1] = s  OBVIOUS
<1>2. /\ free' \in Seq(Slots) /\ Len(free') = Len(free) + 1
      /\ \A k \in 1..Len(free) + 1 : free'[k] = IF k = 1 THEN s ELSE free[k - 1]
  BY <1>1, ConcatProperties DEF Cons
<1>3. /\ DOMAIN free' = 1..Len(free) + 1 /\ DOMAIN free = 1..Len(free) /\ Len(free) \in Nat
      /\ \A k \in DOMAIN free : free[k] \in Slots
  BY <1>2
<1>4. \A k \in DOMAIN free : free[k] \in Slots \ {s}  BY <1>3 DEF FreeList
<1>5. \A k \in DOMAIN free' : k = 1 \/ k - 1 \in DOMAIN free  BY <1>3
<1>6. \A k \in DOMAIN free' : order'[free'[k]] = NULL
  BY <1>2, <1>3, <1>4, <1>5 DEF FreeList
<1>7. ASSUME NEW j \in DOMAIN free', NEW k \in DOMAIN free', free'[j] = free'[k]
      PROVE  j = k
  <2>1. CASE j = 1 /\ k = 1  BY <2>1
  <2>2. CASE j # 1 /\ k # 1
    <3>1. j - 1 \in DOMAIN free /\ k - 1 \in DOMAIN free /\ free[j - 1] = free[k - 1]
      BY <1>2, <1>3, <1>7, <2>2
    <3>2. j - 1 = k - 1  BY <3>1 DEF FreeList
    <3> QED  BY <1>3, <3>2
  <2>3. CASE j = 1 /\ k # 1  BY <1>2, <1>3, <1>4, <1>5, <1>7, <2>3
  <2>4. CASE j # 1 /\ k = 1  BY <1>2, <1>3, <1>4, <1>5, <1>7, <2>4
  <2> QED  BY <2>1, <2>2, <2>3, <2>4
<1>8. ASSUME NEW t \in Slots, order'[t] = NULL PROVE \E k \in DOMAIN free' : free'[k] = t
  <2>1. CASE t = s  BY <1>2, <1>3, <2>1
  <2>2. CASE t # s
    <3>1. PICK k \in DOMAIN free : free[k] = t  BY <1>8, <2>2 DEF FreeList
    <3>2. k + 1 \in DOMAIN free' /\ free'[k + 1] = t  BY <1>2, <1>3, <3>1
    <3> QED  BY <3>2
  <2> QED  BY <2>1, <2>2
<1> QED  BY <1>2, <1>6, <1>7, <1>8 DEF FreeList

\* What match() does to a maker it used up and cancel() to the order it names:
\* out of its list, its level gone if empty, out of the index, slot released.
Removed(s, i, ll) ==
    /\ s \in Resting
    /\ i \in DOMAIN levels[order[s].side]
    /\ levels[order[s].side][i].price = order[s].price
    /\ ll \in Level /\ ll.price = order[s].price
    /\ ll.head = IF prev[s] = NULL THEN next[s] ELSE levels[order[s].side][i].head
    /\ ll.tail = IF next[s] = NULL THEN prev[s] ELSE levels[order[s].side][i].tail
    /\ levels' = [levels EXCEPT ![order[s].side] = StoreLevel(levels[order[s].side], i, ll)]
    /\ free' = Cons(s, free)
    /\ order' \in [Slots -> Order \cup {NULL}] /\ order'[s] = NULL
    /\ \A t \in Slots \ {s} :
          /\ order'[t] = NULL <=> order[t] = NULL
          /\ order[t] # NULL => /\ order'[t].id = order[t].id
                                /\ order'[t].side = order[t].side
                                /\ order'[t].price = order[t].price
    /\ index' = [index EXCEPT ![order[s].id] = NULL]
    /\ taker' = taker
    /\ prev' \in [Slots -> Slots \cup {NULL}] /\ next' \in [Slots -> Slots \cup {NULL}]
    /\ \A t \in Slots \ {s} :
          /\ next'[t] = IF t = prev[s] THEN next[s] ELSE next[t]
          /\ prev'[t] = IF t = next[s] THEN prev[s] ELSE prev[t]

\* Unlinking a resting order, forgetting its id and releasing its slot keeps the
\* invariant: what cancel() and a complete fill have in common.
LEMMA RemoveStep ==
    ASSUME IInv, NEW s, NEW i, NEW ll, Removed(s, i, ll)
    PROVE  IInv' /\ Unlinked(s, levels[order[s].side][i], ll)
<1> USE DEF Removed
<1> DEFINE home == order[s].side
           l == levels[home][i]
<1>0. s \in Slots /\ order[s] # NULL /\ s # taker /\ home \in Side /\ order[s].id \in Ids
  BY LiveOrder DEF Resting, IInv
<1>1. Resting' = Resting \ {s}
  BY <1>0 DEF Resting
<1>2. free' \in Seq(Slots) /\ FreeList'
  <2>1. \A t \in Slots \ {s} : order'[t] = NULL <=> order[t] = NULL  OBVIOUS
  <2> QED  BY <1>0, <2>1, ReleaseFree DEF IInv, TypeOK
<1>3. /\ levels[home] \in Seq(Level) /\ Sorted(home, levels[home])
      /\ l \in Range(levels[home]) /\ l.price = order[s].price
  BY <1>0, LevelFacts DEF IInv, Range
<1>4. /\ StoreLevel(levels[home], i, ll) \in Seq(Level)
      /\ Sorted(home, StoreLevel(levels[home], i, ll))
      /\ Range(StoreLevel(levels[home], i, ll)) =
            {m \in Range(levels[home]) : m.price # ll.price}
              \cup (IF ll.head = NULL THEN {} ELSE {ll})
  BY <1>0, <1>3, StoreLevelSpec
<1>5. levels \in [Side -> Seq(Level)]  BY DEF IInv, TypeOK
<1>6. \A side \in Side : levels'[side] =
          IF side = home THEN StoreLevel(levels[home], i, ll) ELSE levels[side]
  BY <1>0, <1>5
<1> HIDE DEF l
<1>7. TypeOK'
  <2>1. levels' \in [Side -> Seq(Level)]  BY <1>0, <1>4, <1>5
  <2>2. index' \in [Ids -> Slots \cup {NULL}]  BY DEF IInv, TypeOK
  <2> QED  BY <1>2, <2>1, <2>2 DEF IInv, TypeOK
<1>8. LevelsSorted'
  BY <1>4, <1>6 DEF IInv, LevelsSorted
<1>9. \A side \in Side : Range(levels'[side]) =
          IF side = home THEN {m \in Range(levels[side]) : m.price # l.price}
                                \cup (IF ll.head = NULL THEN {} ELSE {ll})
          ELSE Range(levels[side])
  <2> SUFFICES ASSUME NEW side \in Side
               PROVE  Range(levels'[side]) =
                        IF side = home THEN {m \in Range(levels[side]) : m.price # l.price}
                                              \cup (IF ll.head = NULL THEN {} ELSE {ll})
                        ELSE Range(levels[side])
    OBVIOUS
  <2>1. CASE side = home
    <3>1. levels'[side] = StoreLevel(levels[home], i, ll)  BY <1>6, <2>1
    <3>2. ll.price = l.price  BY <1>3
    <3> QED  BY <1>4, <2>1, <3>1, <3>2
  <2>2. CASE side # home  BY <1>6, <2>2
  <2> QED  BY <2>1, <2>2
<1>10. Unlinked(s, l, ll) /\ Linked'
  <2>1. \A t \in Resting \ {s} :
          /\ order'[t].side = order[t].side /\ order'[t].price = order[t].price
          /\ next'[t] = IF t = prev[s] THEN next[s] ELSE next[t]
          /\ prev'[t] = IF t = next[s] THEN prev[s] ELSE prev[t]
    BY DEF Resting
  <2>2. /\ ll.price = l.price
        /\ ll.head = IF prev[s] = NULL THEN next[s] ELSE l.head
        /\ ll.tail = IF next[s] = NULL THEN prev[s] ELSE l.tail
    BY <1>3 DEF l
  <2>3. TypeOK /\ LevelsSorted /\ Linked  BY DEF IInv
  <2>4. l \in Range(levels[order[s].side]) /\ l.price = order[s].price  BY <1>3
  <2>5. \A side \in Side : Range(levels'[side]) =
          IF side = order[s].side
          THEN {m \in Range(levels[side]) : m.price # l.price}
                 \cup (IF ll.head = NULL THEN {} ELSE {ll})
          ELSE Range(levels[side])
    BY <1>9
  <2>6. Unlinked(s, l, ll)  BY <1>1, <2>1, <2>2, <2>4, <2>5 DEF Unlinked
  <2> QED  BY <2>3, <2>6, UnlinkKeepsLinked, Zenon
<1>11. \A t \in Resting' : order'[t].id = order[t].id  BY <1>1 DEF Resting
<1>12. \A id \in Ids : index'[id] = IF id = order[s].id THEN NULL ELSE index[id]
  BY DEF IInv, TypeOK
<1>13. IndexEntriesLive'
  <2> SUFFICES ASSUME NEW id \in Ids, index'[id] # NULL
               PROVE  index'[id] \in Resting' /\ order'[index'[id]].id = id
    BY DEF IndexEntriesLive
  <2>1. /\ index'[id] = index[id] /\ id # order[s].id
        /\ index[id] \in Resting /\ order[index[id]].id = id
    BY <1>12 DEF IInv, IndexEntriesLive
  <2> QED  BY <1>1, <1>11, <2>1
<1>14. IndexExact'
  <2> SUFFICES ASSUME ~AllowDuplicateIds, NEW t \in Resting'
               PROVE  index'[order'[t].id] = t
    BY <1>13 DEF IndexExact
  <2>1. index[order[t].id] = t /\ index[order[s].id] = s /\ order[t].id \in Ids
    BY <1>1, LiveOrder DEF IInv, IndexExact, Resting
  <2> QED  BY <1>1, <1>11, <1>12, <2>1
<1>15. TakerLive'
  <2> SUFFICES ASSUME taker # NULL
               PROVE  /\ order'[taker] # NULL
                      /\ ~AllowDuplicateIds => index'[order'[taker].id] = NULL
    BY DEF TakerLive
  <2>1. taker \in Slots \ {s} /\ order[taker] # NULL  BY <1>0 DEF IInv, TypeOK, TakerLive
  <2>2. order[taker].id \in Ids /\ order'[taker].id = order[taker].id
    BY <2>1, LiveOrder DEF IInv
  <2> QED  BY <1>12, <2>1, <2>2 DEF IInv, TakerLive
<1>16. BookNeverCrossed'
  <2>1. \A side \in Side : \A m \in Range(levels'[side]) :
            \E n \in Range(levels[side]) : n.price = m.price
    <3> SUFFICES ASSUME NEW side \in Side, NEW m \in Range(levels'[side])
                 PROVE  \E n \in Range(levels[side]) : n.price = m.price
      OBVIOUS
    <3>1. CASE side # home  BY <1>9, <3>1
    <3>2. CASE side = home
      <4>1. m \in {n \in Range(levels[side]) : n.price # l.price}
                     \cup (IF ll.head = NULL THEN {} ELSE {ll})
        BY <1>9, <3>2, ZenonT(60)
      <4>2. m \in Range(levels[side]) \/ m = ll  BY <4>1
      <4>3. ll.price = l.price  BY <1>3
      <4> QED  BY <1>3, <3>2, <4>2, <4>3
    <3> QED  BY <3>1, <3>2
  <2>2. "buy" \in Side /\ "sell" \in Side  BY DEF Side
  <2> SUFFICES ASSUME NEW bid \in Range(levels'["buy"]), NEW ask \in Range(levels'["sell"])
               PROVE  bid.price < ask.price
    BY DEF BookNeverCrossed
  <2>3. PICK b \in Range(levels["buy"]) : b.price = bid.price  BY <2>1, <2>2
  <2>4. PICK a \in Range(levels["sell"]) : a.price = ask.price  BY <2>1, <2>2
  <2>5. b.price < a.price  BY DEF IInv, BookNeverCrossed
  <2> QED  BY <2>3, <2>4, <2>5
<1>17. IInv'  BY <1>2, <1>7, <1>8, <1>10, <1>13, <1>14, <1>15, <1>16 DEF IInv
<1> QED  BY <1>10, <1>17 DEF l

\* A level after some change is still a level if its ends are slots.
LEMMA ChangedLevel ==
    ASSUME NEW l \in Level, NEW h \in Slots \cup {NULL}, NEW t \in Slots \cup {NULL},
           NEW q \in Int
    PROVE  [l EXCEPT !.head = h, !.tail = t, !.total_qty = q % QtyModulus] \in Level
<1>1. q % QtyModulus \in 0..QtyModulus - 1  BY ModBound, ModulusAssumption
<1> QED  BY <1>1 DEF Level

\* cancel() of a resting order.
LEMMA CancelHitStep ==
    ASSUME IInv, NEW id \in Ids, taker = NULL, CancelHit(id)
    PROVE  /\ IInv'
           /\ \E l, ll : /\ Unlinked(index[id], l, ll)
                         /\ ll.total_qty = (l.total_qty - order[index[id]].qty) % QtyModulus
<1> DEFINE s == index[id]
           home == order[s].side
           lvs == levels[home]
<1>1. s \in Resting /\ order[s].id = id  BY DEF IInv, IndexEntriesLive, CancelHit
<1>2. /\ s \in Slots /\ order[s] # NULL /\ home \in Side /\ order[s].price \in Prices
      /\ order[s].qty \in Int
  BY <1>1, LiveOrder DEF IInv, Resting
<1>3. lvs \in Seq(Level) /\ Sorted(home, lvs)  BY <1>2, LevelFacts DEF IInv
<1>4. PICK i \in DOMAIN lvs : lvs[i].price = order[s].price
  BY <1>1 DEF IInv, Linked, Covered, Range
<1>5. FindLevel(home, lvs, order[s].price) = i /\ HasLevel(home, lvs, order[s].price)
  <2>1. FindLevel(home, lvs, order[s].price) = i  BY <1>2, <1>3, <1>4, FindLevelFinds
  <2> QED  BY <1>3, <1>4, <2>1, LevelSeq DEF HasLevel
<1> DEFINE l == lvs[i]
           ll == Unlink(l, s)
<1>6. l \in Level /\ prev[s] \in Slots \cup {NULL} /\ next[s] \in Slots \cup {NULL}
  BY <1>2, <1>3, <1>4 DEF IInv, TypeOK
<1>7. l.head \in Slots \cup {NULL} /\ l.tail \in Slots \cup {NULL} /\ l.total_qty \in Int
  BY <1>6 DEF Level
<1>8. /\ ll \in Level /\ ll.price = order[s].price
      /\ ll.head = IF prev[s] = NULL THEN next[s] ELSE l.head
      /\ ll.tail = IF next[s] = NULL THEN prev[s] ELSE l.tail
      /\ ll.total_qty = (l.total_qty - order[s].qty) % QtyModulus
  <2>1. ll = [l EXCEPT !.head = IF prev[s] = NULL THEN next[s] ELSE l.head,
                       !.tail = IF next[s] = NULL THEN prev[s] ELSE l.tail,
                       !.total_qty = (l.total_qty - order[s].qty) % QtyModulus]
    BY <1>6 DEF Unlink, Level
  <2>2. ll \in Level
    <3>1. /\ (IF prev[s] = NULL THEN next[s] ELSE l.head) \in Slots \cup {NULL}
          /\ (IF next[s] = NULL THEN prev[s] ELSE l.tail) \in Slots \cup {NULL}
          /\ l.total_qty - order[s].qty \in Int
      BY <1>2, <1>6, <1>7
    <3> HIDE DEF l, ll
    <3> QED  BY <1>6, <2>1, <3>1, ChangedLevel
  <2> QED  BY <1>4, <1>6, <2>1, <2>2 DEF Level
<1>9. /\ levels' = [levels EXCEPT ![home] = StoreLevel(lvs, i, ll)]
      /\ free' = Cons(s, free)
      /\ order' = [order EXCEPT ![s] = NULL]
      /\ index' = [index EXCEPT ![id] = NULL]
      /\ taker' = taker
      /\ next' = [SetIf(next, prev[s], next[s]) EXCEPT ![s] = NULL]
      /\ prev' = [SetIf(prev, next[s], prev[s]) EXCEPT ![s] = NULL]
  BY <1>5 DEF CancelHit, Release, Forget
<1>10. /\ order' \in [Slots -> Order \cup {NULL}] /\ order'[s] = NULL
       /\ \A t \in Slots \ {s} : order'[t] = order[t]
  BY <1>2, <1>9 DEF IInv, TypeOK
<1>11. /\ prev' \in [Slots -> Slots \cup {NULL}] /\ next' \in [Slots -> Slots \cup {NULL}]
       /\ \A t \in Slots \ {s} :
              /\ next'[t] = IF t = prev[s] THEN next[s] ELSE next[t]
              /\ prev'[t] = IF t = next[s] THEN prev[s] ELSE prev[t]
  BY <1>2, <1>6, <1>9, NullAssumption DEF IInv, TypeOK, SetIf
<1>12. Removed(s, i, ll)
  <2> HIDE DEF s, ll
  <2> QED  BY <1>1, <1>4, <1>8, <1>9, <1>10, <1>11 DEF Removed
<1>13. IInv' /\ Unlinked(s, l, ll)  BY <1>12, RemoveStep, Zenon
<1>14. ll.total_qty = (l.total_qty - order[s].qty) % QtyModulus  BY <1>8
<1> HIDE DEF l, ll
<1> QED  BY <1>13, <1>14

\* One turn of match() that fills the maker and takes it out of the book.
LEMMA FillMakerStep ==
    ASSUME IInv, taker # NULL, CanMatch, NEW maker \in Slots, maker = Best.head,
           FillMaker(maker)
    PROVE  /\ IInv'
           /\ LET ll == PopHead(Take(Best, order[maker].qty))
              IN  /\ Unlinked(maker, Best, ll)
                  /\ ll \in Level
                  /\ ll.total_qty = (Best.total_qty - order[maker].qty) % QtyModulus
           /\ maker # taker /\ order'[taker] = [order[taker] EXCEPT !.qty = @ - order[maker].qty]
           /\ \A t \in Slots \ {maker, taker} : order'[t] = order[t]
<1> DEFINE side == Opposite(order[taker].side)
           lvs == levels[side]
           i == Len(lvs)
           l == lvs[i]
           fill == order[maker].qty
<1>1. /\ taker \in Slots /\ order[taker] \in Order /\ order[taker].side \in Side
      /\ order[taker].qty \in 0..QtyModulus - 1
  BY LiveOrder DEF IInv, TypeOK, TakerLive
<1>2. side \in Side  BY DEF Side, Opposite
<1>3. lvs \in Seq(Level) /\ Sorted(side, lvs)  BY <1>2, LevelFacts DEF IInv
<1>4. i \in DOMAIN lvs /\ Best = l /\ l \in Level /\ l \in Range(lvs)
  BY <1>3 DEF CanMatch, Opposing, Best, Last, Range
<1>5. /\ maker \in Resting /\ prev[maker] = NULL /\ maker # taker
      /\ order[maker].side = side /\ order[maker].price = l.price
  BY <1>2, <1>4 DEF IInv, Linked, Ends, Resting
<1>6. order[maker] # NULL /\ fill \in 0..QtyModulus - 1
  BY <1>5, LiveOrder DEF Resting, IInv
<1> DEFINE ll == PopHead(Take(l, fill))
<1>7. next[maker] \in Slots \cup {NULL}  BY DEF IInv, TypeOK
<1>8. /\ ll \in Level /\ ll.price = l.price
      /\ ll.head = next[maker]
      /\ ll.tail = IF next[maker] = NULL THEN NULL ELSE l.tail
      /\ ll.total_qty = (l.total_qty - fill) % QtyModulus
  <2>1. l.tail \in Slots \cup {NULL} /\ l.total_qty - fill \in Int /\ l.head = maker
    <3>1. l.head = maker  BY <1>4
    <3> HIDE DEF l, fill
    <3>2. l.tail \in Slots \cup {NULL} /\ l.total_qty \in Int  BY <1>4, ModulusAssumption DEF Level
    <3>3. fill \in Int  BY <1>6, ModulusAssumption
    <3> QED  BY <3>1, <3>2, <3>3
  <2>2. ll = [l EXCEPT !.head = next[maker],
                       !.tail = IF next[maker] = NULL THEN NULL ELSE l.tail,
                       !.total_qty = (l.total_qty - fill) % QtyModulus]
    BY <1>4, <2>1 DEF PopHead, Take, Level
  <2>3. (IF next[maker] = NULL THEN NULL ELSE l.tail) \in Slots \cup {NULL}  BY <2>1
  <2>4. ll \in Level
    <3> HIDE DEF l, ll
    <3> QED  BY <1>4, <1>7, <2>1, <2>2, <2>3, ChangedLevel
  <2> QED  BY <1>4, <2>2, <2>4 DEF Level
<1>9. /\ levels' = [levels EXCEPT ![side] = StoreLevel(lvs, i, ll)]
      /\ free' = Cons(maker, free)
      /\ order' = [order EXCEPT ![taker].qty = @ - fill, ![maker] = NULL]
      /\ index' = [index EXCEPT ![order[maker].id] = NULL]
      /\ taker' = taker
      /\ next' = [next EXCEPT ![maker] = NULL]
      /\ prev' = SetIf(prev, next[maker], NULL)
  <2>1. levels \in [Side -> Seq(Level)]  BY DEF IInv, TypeOK
  <2> QED  BY <1>2, <1>4, <2>1 DEF FillMaker, Forget
<1>10. [order[taker] EXCEPT !.qty = @ - fill] \in Order
       /\ [order[taker] EXCEPT !.qty = @ - fill] # NULL
  <2>1. order[taker].qty - fill \in 0..QtyModulus - 1
    <3>1. fill <= order[taker].qty  BY DEF FillMaker
    <3> QED  BY <1>1, <1>6, <3>1, ModulusAssumption
  <2>2. [order[taker] EXCEPT !.qty = @ - fill] \in Order  BY <1>1, <2>1 DEF Order
  <2> QED  BY <2>2, NullAssumption
<1>11. /\ order' \in [Slots -> Order \cup {NULL}] /\ order'[maker] = NULL
       /\ order'[taker] = [order[taker] EXCEPT !.qty = @ - fill]
       /\ \A t \in Slots \ {maker, taker} : order'[t] = order[t]
  BY <1>1, <1>5, <1>9, <1>10 DEF IInv, TypeOK
<1>12. \A t \in Slots \ {maker} :
          /\ order'[t] = NULL <=> order[t] = NULL
          /\ order[t] # NULL => /\ order'[t].id = order[t].id
                                /\ order'[t].side = order[t].side
                                /\ order'[t].price = order[t].price
  <2>1. /\ order'[taker] # NULL /\ order[taker] # NULL
        /\ order'[taker].id = order[taker].id
        /\ order'[taker].side = order[taker].side
        /\ order'[taker].price = order[taker].price
    BY <1>1, <1>10, <1>11, NullAssumption DEF Order
  <2> QED  BY <1>11, <2>1
<1>13. /\ prev' \in [Slots -> Slots \cup {NULL}] /\ next' \in [Slots -> Slots \cup {NULL}]
       /\ \A t \in Slots \ {maker} :
              /\ next'[t] = IF t = prev[maker] THEN next[maker] ELSE next[t]
              /\ prev'[t] = IF t = next[maker] THEN prev[maker] ELSE prev[t]
  BY <1>5, <1>7, <1>9, NullAssumption DEF IInv, TypeOK, SetIf
<1>14. /\ ll.head = IF prev[maker] = NULL THEN next[maker] ELSE l.head
       /\ ll.tail = IF next[maker] = NULL THEN prev[maker] ELSE l.tail
  BY <1>5, <1>8
<1>15. /\ i \in DOMAIN levels[order[maker].side]
       /\ levels[order[maker].side][i].price = order[maker].price
       /\ ll.price = order[maker].price
       /\ ll.head = IF prev[maker] = NULL THEN next[maker]
                    ELSE levels[order[maker].side][i].head
       /\ ll.tail = IF next[maker] = NULL THEN prev[maker]
                    ELSE levels[order[maker].side][i].tail
       /\ levels' = [levels EXCEPT ![order[maker].side] =
                        StoreLevel(levels[order[maker].side], i, ll)]
  BY <1>4, <1>5, <1>8, <1>9, <1>14
<1>16. Removed(maker, i, ll)
  <2> HIDE DEF ll, i, fill
  <2> QED  BY <1>5, <1>8, <1>9, <1>11, <1>12, <1>13, <1>15 DEF Removed
<1>17. IInv' /\ Unlinked(maker, levels[order[maker].side][i], ll)  BY <1>16, RemoveStep, Zenon
<1>18. levels[order[maker].side][i] = Best /\ Best = l  BY <1>4, <1>5
<1>19. ll \in Level /\ ll.total_qty = (l.total_qty - fill) % QtyModulus  BY <1>8
<1> QED  BY <1>5, <1>11, <1>17, <1>18, <1>19, Zenon

\* One turn of match() that leaves the maker in the book.
LEMMA FillPartialStep ==
    ASSUME IInv, taker # NULL, CanMatch, NEW maker \in Slots, maker = Best.head,
           FillPartial(maker)
    PROVE  /\ IInv'
           /\ LET side == Opposite(order[taker].side)
                  ll == Take(Best, order[taker].qty)
              IN  /\ Best \in Range(levels[side]) /\ ll \in Level /\ ll.price = Best.price
                  /\ ll.total_qty = (Best.total_qty - order[taker].qty) % QtyModulus
                  /\ \A sd \in Side : Range(levels'[sd]) =
                        IF sd = side THEN {m \in Range(levels[sd]) : m.price # Best.price} \cup {ll}
                        ELSE Range(levels[sd])
           /\ maker \in Resting /\ Resting' = Resting
           /\ order'[taker] = [order[taker] EXCEPT !.qty = 0]
           /\ order'[maker] = [order[maker] EXCEPT !.qty = @ - order[taker].qty]
           /\ \A t \in Slots \ {maker, taker} : order'[t] = order[t]
<1> DEFINE side == Opposite(order[taker].side)
           lvs == levels[side]
           i == Len(lvs)
           l == lvs[i]
           fill == order[taker].qty
           ll == Take(l, fill)
<1>1. /\ taker \in Slots /\ order[taker] \in Order /\ order[taker] # NULL
      /\ fill \in 0..QtyModulus - 1
  BY LiveOrder DEF IInv, TypeOK, TakerLive
<1>2. side \in Side  BY DEF Side, Opposite
<1>3. lvs \in Seq(Level) /\ Sorted(side, lvs)  BY <1>2, LevelFacts DEF IInv
<1>4. i \in DOMAIN lvs /\ Best = l /\ l \in Level /\ l \in Range(lvs)
  BY <1>3 DEF CanMatch, Opposing, Best, Last, Range
<1>5. maker \in Resting /\ maker # taker
  BY <1>2, <1>4 DEF IInv, Linked, Ends, Resting
<1>6. order[maker] # NULL /\ order[maker] \in Order /\ order[maker].qty \in 0..QtyModulus - 1
  BY <1>5, LiveOrder DEF Resting, IInv
<1>7. /\ ll \in Level /\ ll.price = l.price /\ ll.head = l.head /\ ll.tail = l.tail
      /\ ll.total_qty = (l.total_qty - fill) % QtyModulus
  <2>1. l.total_qty - fill \in Int  BY <1>1, <1>4 DEF Level
  <2>2. (l.total_qty - fill) % QtyModulus \in 0..QtyModulus - 1
    BY <2>1, ModBound, ModulusAssumption
  <2> QED  BY <1>4, <2>2 DEF Take, Level
<1>8. /\ levels' = [levels EXCEPT ![side] = ReplaceAt(lvs, i, ll)]
      /\ order' = [order EXCEPT ![taker].qty = 0, ![maker] = [order[maker] EXCEPT !.qty = @ - fill]]
      /\ UNCHANGED <<prev, next, free, index, taker>>
  <2>1. levels \in [Side -> Seq(Level)]  BY DEF IInv, TypeOK
  <2>2. order \in [Slots -> Order \cup {NULL}]  BY DEF IInv, TypeOK
  <2> QED  BY <1>1, <1>2, <1>4, <1>5, <2>1, <2>2 DEF FillPartial
<1>9. /\ [order[taker] EXCEPT !.qty = 0] \in Order
      /\ [order[maker] EXCEPT !.qty = @ - fill] \in Order
  <2>1. order[maker].qty - fill \in 0..QtyModulus - 1
    <3>1. fill < order[maker].qty  BY DEF FillPartial
    <3> QED  BY <1>1, <1>6, <3>1, ModulusAssumption
  <2>2. 0 \in 0..QtyModulus - 1  BY ModulusAssumption
  <2> QED  BY <1>1, <1>6, <2>1, <2>2 DEF Order
<1>10. /\ order' \in [Slots -> Order \cup {NULL}]
       /\ \A t \in Slots : order'[t] = NULL <=> order[t] = NULL
       /\ \A t \in Slots : order[t] # NULL =>
            /\ order'[t].id = order[t].id
            /\ order'[t].side = order[t].side /\ order'[t].price = order[t].price
       /\ order'[taker] = [order[taker] EXCEPT !.qty = 0]
       /\ order'[maker] = [order[maker] EXCEPT !.qty = @ - fill]
       /\ \A t \in Slots \ {maker, taker} : order'[t] = order[t]
  <2>1. order \in [Slots -> Order \cup {NULL}]  BY DEF IInv, TypeOK
  <2>2. /\ order'[taker] = [order[taker] EXCEPT !.qty = 0]
        /\ order'[maker] = [order[maker] EXCEPT !.qty = @ - fill]
        /\ \A t \in Slots \ {maker, taker} : order'[t] = order[t]
        /\ order' \in [Slots -> Order \cup {NULL}]
    BY <1>1, <1>5, <1>8, <1>9, <2>1
  <2>3. order'[taker] # NULL /\ order'[maker] # NULL  BY <1>9, <2>2, NullAssumption
  <2>4. \A t \in {maker, taker} : /\ order'[t].id = order[t].id
                                  /\ order'[t].side = order[t].side
                                  /\ order'[t].price = order[t].price
    BY <1>1, <1>6, <2>2 DEF Order
  <2> QED  BY <1>1, <1>6, <2>2, <2>3, <2>4
<1>11. Resting' = Resting  BY <1>8, <1>10 DEF Resting
<1>12. /\ ReplaceAt(lvs, i, ll) \in Seq(Level) /\ Sorted(side, ReplaceAt(lvs, i, ll))
       /\ Range(ReplaceAt(lvs, i, ll)) = {m \in Range(lvs) : m.price # ll.price} \cup {ll}
  <2>1. ll.price = lvs[i].price  BY <1>7
  <2>2. side \in Side /\ lvs \in Seq(Level) /\ Sorted(side, lvs) /\ i \in DOMAIN lvs /\ ll \in Level
    BY <1>2, <1>3, <1>4, <1>7
  <2> HIDE DEF ll, l, i, lvs, side
  <2> QED  BY <2>1, <2>2, ReplaceLevel
<1>13. levels' \in [Side -> Seq(Level)]
       /\ \A sd \in Side : levels'[sd] = IF sd = side THEN ReplaceAt(lvs, i, ll) ELSE levels[sd]
  BY <1>2, <1>8, <1>12 DEF IInv, TypeOK
<1>14. \A sd \in Side : \A m \in Range(levels'[sd]) : \E n \in Range(levels[sd]) :
          m.price = n.price /\ m.head = n.head /\ m.tail = n.tail
  BY <1>4, <1>7, <1>12, <1>13
<1>15. \A sd \in Side : \A n \in Range(levels[sd]) : \E m \in Range(levels'[sd]) :
          m.price = n.price /\ m.head = n.head /\ m.tail = n.tail
  <2> SUFFICES ASSUME NEW sd \in Side, NEW n \in Range(levels[sd])
               PROVE  \E m \in Range(levels'[sd]) :
                         m.price = n.price /\ m.head = n.head /\ m.tail = n.tail
    OBVIOUS
  <2>1. CASE sd # side  BY <1>13, <2>1
  <2>2. CASE sd = side /\ n.price # l.price  BY <1>7, <1>12, <1>13, <2>2
  <2>3. CASE sd = side /\ n.price = l.price
    <3>1. n = l  BY <1>2, <1>4, <2>3, LevelFacts DEF IInv
    <3> QED  BY <1>7, <1>12, <1>13, <2>3, <3>1
  <2> QED  BY <2>1, <2>2, <2>3
<1> HIDE DEF side, ll
<1>16. TypeOK'  BY <1>8, <1>10, <1>13 DEF IInv, TypeOK
<1>17. FreeList'
  <2>1. free' = free /\ \A k \in DOMAIN free : free[k] \in Slots
    BY <1>8 DEF IInv, TypeOK
  <2>2. \A t \in Slots : order'[t] = NULL <=> order[t] = NULL  BY <1>10
  <2>3. FreeList  BY DEF IInv
  <2> QED  BY <2>1, <2>2, <2>3 DEF FreeList
<1>18. TakerLive'  BY <1>1, <1>8, <1>10 DEF IInv, TakerLive
<1>19. LevelsSorted'  BY <1>12, <1>13 DEF IInv, LevelsSorted
<1>20. \A t \in Resting : t \in Slots /\ order[t] # NULL  BY DEF Resting
<1>21. Neighbours'
  BY <1>8, <1>10, <1>11, <1>20 DEF IInv, Linked, Neighbours, SamePlace
<1>22. Ends'
  <2> SUFFICES ASSUME NEW sd \in Side, NEW m \in Range(levels'[sd])
               PROVE  /\ m.head \in Resting /\ prev[m.head] = NULL
                      /\ order'[m.head].side = sd /\ order'[m.head].price = m.price
                      /\ m.tail \in Resting /\ next[m.tail] = NULL
                      /\ order'[m.tail].side = sd /\ order'[m.tail].price = m.price
    <3>1. prev' = prev /\ next' = next  BY <1>8
    <3> QED  BY <1>11, <3>1 DEF Ends
  <2>1. PICK n \in Range(levels[sd]) : m.price = n.price /\ m.head = n.head /\ m.tail = n.tail
    BY <1>14
  <2>2. /\ n.head \in Resting /\ prev[n.head] = NULL
        /\ order[n.head].side = sd /\ order[n.head].price = n.price
        /\ n.tail \in Resting /\ next[n.tail] = NULL
        /\ order[n.tail].side = sd /\ order[n.tail].price = n.price
    BY DEF IInv, Linked, Ends
  <2> QED  BY <1>10, <1>20, <2>1, <2>2
<1>23. Covered'
  <2> SUFFICES ASSUME NEW t \in Resting
               PROVE  \E m \in Range(levels'[order'[t].side]) :
                         /\ m.price = order'[t].price
                         /\ prev[t] = NULL => m.head = t
                         /\ next[t] = NULL => m.tail = t
    BY <1>8, <1>11 DEF Covered
  <2>1. PICK n \in Range(levels[order[t].side]) :
            /\ n.price = order[t].price
            /\ prev[t] = NULL => n.head = t
            /\ next[t] = NULL => n.tail = t
    BY DEF IInv, Linked, Covered
  <2>2. order[t].side \in Side  BY <1>20, LiveOrder DEF IInv
  <2> QED  BY <1>10, <1>15, <1>20, <2>1, <2>2
<1>24. Ranked'  BY <1>8, <1>11 DEF IInv, Linked, Ranked
<1>25. IndexEntriesLive'
  BY <1>8, <1>10, <1>11, <1>20 DEF IInv, IndexEntriesLive
<1>26. IndexExact'
  BY <1>8, <1>10, <1>11, <1>20, <1>25 DEF IInv, IndexExact
<1>27. BookNeverCrossed'
  BY <1>14 DEF IInv, BookNeverCrossed, Side
<1>28. IInv'
  BY <1>16, <1>17, <1>18, <1>19, <1>21, <1>22, <1>23, <1>24, <1>25, <1>26, <1>27
     DEF IInv, Linked
<1>29. \A sd \in Side : Range(levels'[sd]) =
          IF sd = side THEN {m \in Range(levels[sd]) : m.price # l.price} \cup {ll}
          ELSE Range(levels[sd])
  <2> HIDE DEF l
  <2> QED  BY <1>7, <1>12, <1>13
<1>30. Best \in Range(levels[side]) /\ Best = l /\ maker \in Resting  BY <1>4, <1>5
<1> QED  BY <1>7, <1>10, <1>11, <1>28, <1>29, <1>30, Zenon DEF side, ll

\* submit() up to the call of match(): a slot is acquired.
LEMMA AdmitStep ==
    ASSUME IInv, taker = NULL,
           NEW id \in Ids, NEW side \in Side, NEW type \in OrderType,
           NEW price \in Prices, NEW qty \in Quantities,
           index[id] = NULL \/ AllowDuplicateIds,
           SubmitAdmitted(id, side, type, price, qty)
    PROVE  /\ IInv'
           /\ Resting' = Resting /\ levels' = levels
           /\ \A t \in Resting : order'[t] = order[t]
           /\ order'[taker'] =
                [id |-> id, side |-> side, type |-> type, price |-> price, qty |-> qty]
<1> DEFINE o == Head(free)
           new == [id |-> id, side |-> side, type |-> type, price |-> price, qty |-> qty]
<1>1. free \in Seq(Slots) /\ free # <<>>  BY DEF IInv, TypeOK, SubmitAdmitted
<1>2. /\ o \in Slots /\ o = free[1] /\ 1 \in DOMAIN free
      /\ Tail(free) \in Seq(Slots) /\ Len(Tail(free)) = Len(free) - 1
      /\ \A k \in 1..Len(free) - 1 : Tail(free)[k] = free[k + 1]
  BY <1>1, HeadTailProperties
<1>3. order[o] = NULL  BY <1>2 DEF IInv, FreeList
<1>4. new \in Order /\ new # NULL /\ o # NULL
  BY <1>2, QuantitiesAssumption, NullAssumption DEF Order
<1>5. /\ taker' = o /\ free' = Tail(free)
      /\ order' = [order EXCEPT ![o] = new]
      /\ prev' = [prev EXCEPT ![o] = NULL] /\ next' = [next EXCEPT ![o] = NULL]
      /\ levels' = levels /\ index' = index
  BY DEF SubmitAdmitted
<1> HIDE DEF o, new
<1>6. /\ order' \in [Slots -> Order \cup {NULL}] /\ order'[o] = new
      /\ \A t \in Slots \ {o} : order'[t] = order[t] /\ prev'[t] = prev[t] /\ next'[t] = next[t]
      /\ prev' \in [Slots -> Slots \cup {NULL}] /\ next' \in [Slots -> Slots \cup {NULL}]
  BY <1>2, <1>4, <1>5 DEF IInv, TypeOK
<1>7. Resting' = Resting /\ o \notin Resting /\ NULL \notin Resting
  BY <1>3, <1>5, <1>6, NullAssumption DEF Resting
<1>8. \A t \in Resting : /\ t \in Slots \ {o}
                         /\ order'[t] = order[t] /\ prev'[t] = prev[t] /\ next'[t] = next[t]
  BY <1>6, <1>7 DEF Resting
<1>9. TypeOK'  BY <1>2, <1>5, <1>6 DEF IInv, TypeOK
<1>10. FreeList'
  <2>1. DOMAIN free = 1..Len(free) /\ DOMAIN free' = 1..Len(free) - 1 /\ Len(free) \in Nat
    BY <1>1, <1>2, <1>5
  <2>2. \A k \in DOMAIN free' : k + 1 \in DOMAIN free /\ free'[k] = free[k + 1] /\ k + 1 # 1
    BY <1>2, <1>5, <2>1
  <2>3. \A k \in DOMAIN free' : free'[k] \in Slots \ {o}
    <3> SUFFICES ASSUME NEW k \in DOMAIN free' PROVE free'[k] \in Slots \ {o}  OBVIOUS
    <3>1. k + 1 \in DOMAIN free /\ free'[k] = free[k + 1] /\ k + 1 # 1  BY <2>2
    <3>2. free[k + 1] # free[1]  BY <1>2, <3>1 DEF IInv, FreeList
    <3> QED  BY <1>1, <1>2, <3>1, <3>2
  <2>4. \A k \in DOMAIN free' : order'[free'[k]] = NULL
    BY <1>6, <2>2, <2>3 DEF IInv, FreeList
  <2>5. ASSUME NEW j \in DOMAIN free', NEW k \in DOMAIN free', free'[j] = free'[k]
        PROVE  j = k
    <3>1. j + 1 = k + 1  BY <2>2, <2>5 DEF IInv, FreeList
    <3> QED  BY <2>1, <3>1
  <2>6. ASSUME NEW t \in Slots, order'[t] = NULL PROVE \E k \in DOMAIN free' : free'[k] = t
    <3>1. t # o  BY <1>4, <1>6, <2>6
    <3>2. PICK k \in DOMAIN free : free[k] = t  BY <1>6, <2>6, <3>1 DEF IInv, FreeList
    <3>3. k # 1  BY <1>2, <3>1, <3>2
    <3>4. k - 1 \in DOMAIN free' /\ (k - 1) + 1 = k  BY <2>1, <3>3
    <3> QED  BY <2>2, <3>2, <3>4
  <2> QED  BY <2>4, <2>5, <2>6 DEF FreeList
<1>11. TakerLive'
  BY <1>4, <1>5, <1>6 DEF TakerLive, new
<1>12. LevelsSorted' /\ BookNeverCrossed'
  BY <1>5 DEF IInv, LevelsSorted, BookNeverCrossed
<1>13. Neighbours'
  BY <1>7, <1>8 DEF IInv, Linked, Neighbours, SamePlace
<1>14. Ends'
  BY <1>5, <1>7, <1>8 DEF IInv, Linked, Ends
<1>15. Covered'
  BY <1>5, <1>7, <1>8 DEF IInv, Linked, Covered
<1>16. Ranked'
  BY <1>7, <1>8 DEF IInv, Linked, Ranked
<1>17. IndexEntriesLive' /\ IndexExact'
  BY <1>5, <1>7, <1>8 DEF IInv, IndexEntriesLive, IndexExact
<1>18. IInv'
  BY <1>9, <1>10, <1>11, <1>12, <1>13, <1>14, <1>15, <1>16, <1>17 DEF IInv, Linked
<1> QED  BY <1>5, <1>6, <1>7, <1>8, <1>18 DEF new

\* The end of a submit() that does not rest its remainder.
LEMMA DiscardStep ==
    ASSUME IInv, taker # NULL, Discard, taker' = NULL
    PROVE  /\ IInv'
           /\ Resting' = Resting /\ levels' = levels
           /\ \A t \in Resting : order'[t] = order[t]
<1>1. taker \in Slots /\ order[taker] # NULL  BY DEF IInv, TypeOK, TakerLive
<1>2. /\ order' = [order EXCEPT ![taker] = NULL] /\ free' = Cons(taker, free)
      /\ prev' = prev /\ next' = next /\ levels' = levels /\ index' = index
  BY DEF Discard, Release
<1>3. /\ order' \in [Slots -> Order \cup {NULL}] /\ order'[taker] = NULL
      /\ \A t \in Slots \ {taker} : order'[t] = order[t]
  BY <1>1, <1>2 DEF IInv, TypeOK
<1>4. Resting' = Resting /\ \A t \in Resting : t \in Slots /\ order'[t] = order[t]
  BY <1>1, <1>3, NullAssumption DEF Resting
<1>5. free' \in Seq(Slots) /\ FreeList'
  <2>1. \A t \in Slots \ {taker} : order'[t] = NULL <=> order[t] = NULL  BY <1>3
  <2> QED  BY <1>1, <1>2, <1>3, <2>1, ReleaseFree DEF IInv, TypeOK
<1>6. TypeOK'  BY <1>2, <1>3, <1>5 DEF IInv, TypeOK
<1>7. TakerLive'  BY DEF TakerLive
<1>8. LevelsSorted' /\ BookNeverCrossed'
  BY <1>2 DEF IInv, LevelsSorted, BookNeverCrossed
<1>9. Neighbours'  BY <1>2, <1>4 DEF IInv, Linked, Neighbours, SamePlace
<1>10. Ends'  BY <1>2, <1>4 DEF IInv, Linked, Ends
<1>11. Covered'  BY <1>2, <1>4 DEF IInv, Linked, Covered
<1>12. Ranked'  BY <1>2, <1>4 DEF IInv, Linked, Ranked
<1>13. IndexEntriesLive' /\ IndexExact'
  BY <1>2, <1>4 DEF IInv, IndexEntriesLive, IndexExact
<1>14. IInv'
  BY <1>5, <1>6, <1>7, <1>8, <1>9, <1>10, <1>11, <1>12, <1>13 DEF IInv, Linked
<1> QED  BY <1>2, <1>4, <1>14

\* What cannot match any more is on the right side of every opposing level.
LEMMA NothingCrosses ==
    ASSUME IInv, taker # NULL, ~CanMatch, order[taker].qty > 0, order[taker].type = "limit",
           NEW m \in Range(levels[Opposite(order[taker].side)])
    PROVE  ~PriceCrosses(order[taker].side, order[taker].price, m.price)
<1> DEFINE side == order[taker].side
           opp == Opposite(side)
           lvs == levels[opp]
           p == order[taker].price
<1>1. taker \in Slots /\ side \in Side /\ p \in Int
  BY LiveOrder DEF IInv, TypeOK, TakerLive
<1>2. opp \in Side  BY DEF Side, Opposite
<1>3. lvs \in Seq(Level) /\ Sorted(opp, lvs)  BY <1>2, LevelFacts DEF IInv
<1>4. PICK k \in DOMAIN lvs : m = lvs[k]  BY DEF Range
<1>5. DOMAIN lvs = 1..Len(lvs) /\ Len(lvs) \in DOMAIN lvs /\ k <= Len(lvs)
      /\ lvs[k].price \in Int /\ lvs[Len(lvs)].price \in Int /\ Len(lvs) \in Nat
  BY <1>3, <1>4, LevelSeq
<1>6. ~PriceCrosses(side, p, lvs[Len(lvs)].price)
  <2>1. lvs # <<>>  BY <1>5
  <2> QED  BY <2>1 DEF CanMatch, Opposing, Best, Last
<1>7. k = Len(lvs) \/ LessForSide(opp, lvs[k].price, lvs[Len(lvs)].price)
  BY <1>4, <1>5, <1>3 DEF Sorted
<1>8. CASE k = Len(lvs)  BY <1>4, <1>6, <1>8
<1>9. CASE LessForSide(opp, lvs[k].price, lvs[Len(lvs)].price)
  <2>1. CASE side = "buy"
    <3>1. lvs[Len(lvs)].price > p /\ lvs[k].price > lvs[Len(lvs)].price
      BY <1>1, <1>5, <1>6, <1>9, <2>1 DEF Opposite, LessForSide, PriceCrosses
    <3> QED  BY <1>1, <1>4, <1>5, <2>1, <3>1 DEF PriceCrosses
  <2>2. CASE side # "buy"
    <3>1. lvs[Len(lvs)].price < p /\ lvs[k].price < lvs[Len(lvs)].price
      BY <1>1, <1>5, <1>6, <1>9, <2>2 DEF Opposite, LessForSide, PriceCrosses
    <3> QED  BY <1>1, <1>4, <1>5, <2>2, <3>1 DEF PriceCrosses
  <2> QED  BY <2>1, <2>2
<1> QED  BY <1>7, <1>8, <1>9

\* The end of a submit() that rests its remainder: the book stays uncrossed because
\* match() stopped for want of a crossing price.
LEMMA RestStep ==
    ASSUME IInv, taker # NULL, ~CanMatch, Rest, taker' = NULL
    PROVE  /\ IInv'
           /\ \E tl, l, ll :
                /\ Appended(taker, tl, ll)
                /\ ll.total_qty = (l.total_qty + order[taker].qty) % QtyModulus
                /\ l.price = order[taker].price
                /\ \/ l \in Range(levels[order[taker].side])
                   \/ /\ l.total_qty = 0
                      /\ \A m \in Range(levels[order[taker].side]) : m.price # l.price
<1> DEFINE o == order[taker]
           home == o.side
           w == WithLevel(home, levels[home], o.price)
           i == FindLevel(home, w, o.price)
           l == w[i]
           tl == l.tail
           ll == [l EXCEPT !.head = IF l.tail = NULL THEN taker ELSE @,
                           !.tail = taker,
                           !.total_qty = (@ + o.qty) % QtyModulus]
<1>1. /\ taker \in Slots /\ o # NULL /\ home \in Side /\ o.price \in Prices
      /\ o.id \in Ids /\ o.qty \in Int
  BY LiveOrder DEF IInv, TypeOK, TakerLive
<1>2. levels[home] \in Seq(Level) /\ Sorted(home, levels[home])
  BY <1>1, LevelFacts DEF IInv
<1>3. /\ w \in Seq(Level) /\ Sorted(home, w) /\ i \in DOMAIN w /\ l.price = o.price
      /\ {m \in Range(w) : m.price # o.price} = {m \in Range(levels[home]) : m.price # o.price}
      /\ \/ l \in Range(levels[home])
         \/ /\ l.head = NULL /\ l.tail = NULL /\ l.total_qty = 0
            /\ \A m \in Range(levels[home]) : m.price # o.price
  BY <1>1, <1>2, WithLevelSpec
<1>4. l \in Level  BY <1>3
<1>5. /\ levels' = [levels EXCEPT ![home] = ReplaceAt(w, i, ll)]
      /\ prev' = [prev EXCEPT ![taker] = tl]
      /\ next' = SetIf([next EXCEPT ![taker] = NULL], tl, taker)
      /\ index' = [index EXCEPT ![o.id] = IF index[o.id] = NULL THEN taker ELSE index[o.id]]
      /\ order' = order /\ free' = free
      /\ o.qty > 0 /\ o.type = "limit"
  BY <1>1 DEF Rest, IInv, TypeOK
<1>6. l.head \in Slots \cup {NULL} /\ tl \in Slots \cup {NULL} /\ l.total_qty \in Int
  BY <1>4 DEF Level
<1>7. /\ ll \in Level /\ ll.price = o.price /\ ll.tail = taker
      /\ ll.head = IF tl = NULL THEN taker ELSE l.head
      /\ ll.total_qty = (l.total_qty + o.qty) % QtyModulus
  <2>1. (IF l.tail = NULL THEN taker ELSE l.head) \in Slots \cup {NULL}
        /\ l.total_qty + o.qty \in Int
    BY <1>1, <1>6
  <2>2. ll = [l EXCEPT !.head = IF l.tail = NULL THEN taker ELSE l.head,
                       !.tail = taker,
                       !.total_qty = (l.total_qty + o.qty) % QtyModulus]
    BY <1>4 DEF Level
  <2>3. ll \in Level
    <3> HIDE DEF l, ll, o
    <3> QED  BY <1>1, <1>4, <2>1, <2>2, ChangedLevel
  <2> HIDE DEF l
  <2> QED  BY <1>3, <1>4, <2>3 DEF Level
<1>8. /\ ReplaceAt(w, i, ll) \in Seq(Level) /\ Sorted(home, ReplaceAt(w, i, ll))
      /\ Range(ReplaceAt(w, i, ll)) = {m \in Range(levels[home]) : m.price # o.price} \cup {ll}
  <2>1. /\ ReplaceAt(w, i, ll) \in Seq(Level) /\ Sorted(home, ReplaceAt(w, i, ll))
        /\ Range(ReplaceAt(w, i, ll)) = {m \in Range(w) : m.price # ll.price} \cup {ll}
    <3>1. ll.price = w[i].price  BY <1>3, <1>7
    <3>2. home \in Side /\ w \in Seq(Level) /\ Sorted(home, w) /\ i \in DOMAIN w /\ ll \in Level
      BY <1>1, <1>3, <1>7
    <3> HIDE DEF ll, l, i, w, home
    <3> QED  BY <3>1, <3>2, ReplaceLevel
  <2> HIDE DEF ll, l, i, w, home
  <2> QED  BY <1>3, <1>7, <2>1
<1>9. /\ levels' \in [Side -> Seq(Level)]
      /\ \A sd \in Side : levels'[sd] = IF sd = home THEN ReplaceAt(w, i, ll) ELSE levels[sd]
  BY <1>1, <1>5, <1>8 DEF IInv, TypeOK
<1>10. \A sd \in Side : Range(levels'[sd]) =
          IF sd = order[taker].side
          THEN {m \in Range(levels[sd]) : m.price # order[taker].price} \cup {ll}
          ELSE Range(levels[sd])
  <2> SUFFICES ASSUME NEW sd \in Side
               PROVE  Range(levels'[sd]) =
                        IF sd = home
                        THEN {m \in Range(levels[sd]) : m.price # o.price} \cup {ll}
                        ELSE Range(levels[sd])
    OBVIOUS
  <2>1. CASE sd = home
    <3>1. levels'[sd] = ReplaceAt(w, i, ll)  BY <1>9, <2>1
    <3> HIDE DEF ll, i, w
    <3> QED  BY <1>8, <2>1, <3>1
  <2>2. CASE sd # home
    <3>1. levels'[sd] = levels[sd]  BY <1>9, <2>2
    <3> QED  BY <2>2, <3>1
  <2> QED  BY <2>1, <2>2
<1>11. taker \notin Resting /\ Resting' = Resting \cup {taker} /\ NULL \notin Resting
  BY <1>1, <1>5, NullAssumption DEF Resting
<1>12. tl # NULL => tl \in Resting /\ tl # taker
  <2>1. CASE l \in Range(levels[home])  BY <1>1, <1>11, <2>1 DEF IInv, Linked, Ends
  <2>2. CASE l \notin Range(levels[home])  BY <1>3, <2>2
  <2> QED  BY <2>1, <2>2
<1>13. /\ prev' \in [Slots -> Slots \cup {NULL}] /\ next' \in [Slots -> Slots \cup {NULL}]
       /\ \A t \in Slots :
            /\ next'[t] = IF t = taker THEN NULL ELSE IF t = tl THEN taker ELSE next[t]
            /\ prev'[t] = IF t = taker THEN tl ELSE prev[t]
  <2> HIDE DEF tl
  <2>1. CASE tl = NULL  BY <1>1, <1>5, <1>6, <2>1, NullAssumption DEF IInv, TypeOK, SetIf
  <2>2. CASE tl # NULL  BY <1>1, <1>5, <1>6, <1>12, <2>2 DEF IInv, TypeOK, SetIf
  <2> QED  BY <2>1, <2>2
<1>14. Appended(taker, tl, ll) /\ Linked'
  <2>1. \/ /\ tl = NULL /\ ll.head = taker
           /\ \A m \in Range(levels[order[taker].side]) : m.price # order[taker].price
        \/ \E m \in Range(levels[order[taker].side]) :
              m.price = order[taker].price /\ m.tail = tl /\ m.head = ll.head
    <3>1. CASE l \in Range(levels[home])
      <4>1. tl # NULL  BY <1>1, <1>11, <3>1 DEF IInv, Linked, Ends
      <4>2. ll.head = l.head  BY <1>7, <4>1
      <4> QED  BY <1>3, <3>1, <4>2
    <3>2. CASE l \notin Range(levels[home])  BY <1>3, <1>7, <3>2
    <3> QED  BY <3>1, <3>2
  <2>2. \A t \in Resting \cup {taker} :
          /\ order'[t].side = order[t].side /\ order'[t].price = order[t].price
          /\ next'[t] = IF t = taker THEN NULL ELSE IF t = tl THEN taker ELSE next[t]
          /\ prev'[t] = IF t = taker THEN tl ELSE prev[t]
    BY <1>1, <1>5, <1>13 DEF Resting
  <2>3. Appended(taker, tl, ll)
    <3> HIDE DEF ll, l, tl
    <3> QED  BY <1>1, <1>7, <1>10, <1>11, <2>1, <2>2 DEF Appended
  <2>4. TypeOK /\ LevelsSorted /\ Linked  BY DEF IInv
  <2> QED  BY <2>3, <2>4, AppendKeepsLinked, Zenon
<1>15. TypeOK'
  <2>1. index' \in [Ids -> Slots \cup {NULL}]  BY <1>1, <1>5 DEF IInv, TypeOK
  <2> QED  BY <1>5, <1>9, <1>13, <2>1 DEF IInv, TypeOK
<1>16. FreeList'  BY <1>5 DEF IInv, FreeList
<1>17. TakerLive'  BY DEF TakerLive
<1>18. LevelsSorted'  BY <1>8, <1>9 DEF IInv, LevelsSorted
<1>19. \A id \in Ids : index'[id] = IF id = order[taker].id /\ index[id] = NULL THEN taker ELSE index[id]
  BY <1>1, <1>5 DEF IInv, TypeOK
<1>20. IndexEntriesLive'
  <2> SUFFICES ASSUME NEW id \in Ids, index'[id] # NULL
               PROVE  index'[id] \in Resting \cup {taker} /\ order[index'[id]].id = id
    <3>1. order' = order  BY <1>5
    <3> HIDE DEF o, w, i, l, tl, ll
    <3> QED  BY <1>11, <3>1 DEF IndexEntriesLive
  <2>1. CASE id = order[taker].id /\ index[id] = NULL
    <3>1. index'[id] = taker  BY <1>19, <2>1
    <3> QED  BY <2>1, <3>1
  <2>2. CASE ~(id = order[taker].id /\ index[id] = NULL)
    <3>1. index'[id] = index[id]  BY <1>19, <2>2
    <3>2. index[id] \in Resting /\ order[index[id]].id = id
      BY <3>1 DEF IInv, IndexEntriesLive
    <3> QED  BY <3>1, <3>2
  <2> QED  BY <2>1, <2>2
<1>21. IndexExact'
  <2> SUFFICES ASSUME ~AllowDuplicateIds, NEW t \in Resting \cup {taker}
               PROVE  index'[order[t].id] = t
    BY <1>5, <1>11, <1>20 DEF IndexExact
  <2>1. CASE t = taker
    <3>1. index[order[taker].id] = NULL  BY DEF IInv, TakerLive
    <3> QED  BY <1>1, <1>19, <2>1, <3>1
  <2>2. CASE t # taker
    <3>1. index[order[t].id] = t /\ order[t].id \in Ids /\ t # NULL
      BY <1>11, <2>2, LiveOrder DEF IInv, IndexExact, Resting
    <3> QED  BY <1>19, <3>1
  <2> QED  BY <2>1, <2>2
<1>22. BookNeverCrossed'
  <2>0. "buy" \in Side /\ "sell" \in Side  BY DEF Side
  <2> SUFFICES ASSUME NEW bid \in Range(levels'["buy"]), NEW ask \in Range(levels'["sell"])
               PROVE  bid.price < ask.price
    BY DEF BookNeverCrossed
  <2>1. CASE home = "buy"
    <3>1. ask \in Range(levels["sell"]) /\ ask.price \in Int
      BY <1>10, <2>0, <2>1, LevelFacts DEF IInv
    <3>2. bid \in {m \in Range(levels["buy"]) : m.price # o.price} \cup {ll}
      <4> HIDE DEF ll
      <4> QED  BY <1>10, <2>0, <2>1
    <3>3. CASE bid \in Range(levels["buy"])
      BY <3>1, <3>3 DEF IInv, BookNeverCrossed
    <3>4. CASE bid = ll
      <4>1. ~PriceCrosses("buy", o.price, ask.price)
        BY <1>5, <2>1, <3>1, NothingCrosses DEF Opposite
      <4>2. o.price \in Int  BY <1>1, PricesAssumption
      <4>3. bid.price = o.price
        <5> HIDE DEF ll, o
        <5> QED  BY <1>7, <3>4
      <4>4. ask.price \in Int  BY <3>1
      <4> HIDE DEF ll, o
      <4> QED  BY <4>1, <4>2, <4>3, <4>4 DEF PriceCrosses
    <3> QED  BY <3>2, <3>3, <3>4
  <2>2. CASE home = "sell"
    <3>1. bid \in Range(levels["buy"]) /\ bid.price \in Int
      BY <1>10, <2>0, <2>2, LevelFacts DEF IInv
    <3>2. ask \in {m \in Range(levels["sell"]) : m.price # o.price} \cup {ll}
      <4> HIDE DEF ll
      <4> QED  BY <1>10, <2>0, <2>2
    <3>3. CASE ask \in Range(levels["sell"])
      BY <3>1, <3>3 DEF IInv, BookNeverCrossed
    <3>4. CASE ask = ll
      <4>1. ~PriceCrosses("sell", o.price, bid.price)
        BY <1>5, <2>2, <3>1, NothingCrosses DEF Opposite
      <4>2. o.price \in Int  BY <1>1, PricesAssumption
      <4>3. ask.price = o.price
        <5> HIDE DEF ll, o
        <5> QED  BY <1>7, <3>4
      <4>4. bid.price \in Int  BY <3>1
      <4> HIDE DEF ll, o
      <4> QED  BY <4>1, <4>2, <4>3, <4>4 DEF PriceCrosses
    <3> QED  BY <3>2, <3>3, <3>4
  <2> QED  BY <1>1, <2>1, <2>2 DEF Side
<1>23. IInv'  BY <1>14, <1>15, <1>16, <1>17, <1>18, <1>20, <1>21, <1>22 DEF IInv
<1>24. ll.total_qty = (l.total_qty + order[taker].qty) % QtyModulus  BY <1>7
<1>25. /\ l.price = order[taker].price
       /\ \/ l \in Range(levels[order[taker].side])
          \/ /\ l.total_qty = 0
             /\ \A m \in Range(levels[order[taker].side]) : m.price # l.price
  BY <1>3
<1> HIDE DEF l, ll, tl
<1> QED  BY <1>14, <1>23, <1>24, <1>25

-----------------------------------------------------------------------------
(* The theorems.                                                           *)

\* IInv is inductive: it holds initially and every operation of the book,
\* callback by callback, keeps it.
THEOREM InductiveInvariant == Spec => []IInv
<1>1. Init => IInv  BY InitInvariant
<1>2. IInv /\ [Next]_vars => IInv'
  <2> SUFFICES ASSUME IInv, [Next]_vars PROVE IInv'  OBVIOUS
  <2>1. ASSUME NEW id \in Ids, NEW side \in Side, NEW type \in OrderType,
               NEW price \in Prices, NEW qty \in Quantities,
               Submit(id, side, type, price, qty)
        PROVE  IInv'
    <3>1. CASE SubmitNothing  BY <3>1, QuietStep DEF SubmitNothing
    <3>2. CASE SubmitExhausted  BY <3>2, QuietStep DEF SubmitExhausted
    <3>3. CASE SubmitKilled(side, type, price, qty)  BY <3>3, QuietStep DEF SubmitKilled
    <3>4. CASE SubmitAdmitted(id, side, type, price, qty)
      BY <2>1, <3>4, AdmitStep DEF Submit
    <3> QED  BY <2>1, <3>1, <3>2, <3>3, <3>4 DEF Submit
  <2>2. CASE Match
    <3>1. PICK maker \in Slots : maker = Best.head /\ (FillPartial(maker) \/ FillMaker(maker))
      BY <2>2 DEF Match
    <3>2. taker # NULL /\ CanMatch  BY <2>2 DEF Match
    <3>3. CASE FillPartial(maker)  BY <3>1, <3>2, <3>3, FillPartialStep
    <3>4. CASE FillMaker(maker)  BY <3>1, <3>2, <3>4, FillMakerStep
    <3> QED  BY <3>1, <3>3, <3>4
  <2>3. CASE Finish
    <3>1. taker # NULL /\ ~CanMatch /\ taker' = NULL  BY <2>3 DEF Finish
    <3>2. CASE Rest  BY <3>1, <3>2, RestStep
    <3>3. CASE Discard  BY <3>1, <3>3, DiscardStep
    <3> QED  BY <2>3, <3>2, <3>3 DEF Finish
  <2>4. ASSUME NEW id \in Ids, Cancel(id) PROVE IInv'
    <3>1. CASE CancelMiss(id)  BY <3>1, QuietStep DEF CancelMiss
    <3>2. CASE CancelHit(id)  BY <2>4, <3>2, CancelHitStep DEF Cancel
    <3> QED  BY <2>4, <3>1, <3>2 DEF Cancel
  <2>5. CASE UNCHANGED vars  BY <2>5, QuietStep DEF vars
  <2> QED  BY <2>1, <2>2, <2>3, <2>4, <2>5 DEF Next
<1> QED  BY <1>1, <1>2, PTL DEF Spec

\* Every variable keeps the type the code declares: no read of a released slot,
\* no index outside a vector, no quantity outside its width.
THEOREM TypeCorrect == Spec => []TypeOK
<1>1. IInv => TypeOK  BY DEF IInv
<1> QED  BY <1>1, InductiveInvariant, PTL

\* The book is uncrossed at all times: match() leaves nothing that crosses
\* before rest() adds the remainder.
THEOREM NeverCrossed == Spec => []BookNeverCrossed
<1>1. IInv => BookNeverCrossed  BY DEF IInv
<1> QED  BY <1>1, InductiveInvariant, PTL

\* The binary search of SideBook always runs on a sorted vector.
THEOREM AlwaysSorted == Spec => []LevelsSorted
<1>1. IInv => LevelsSorted  BY DEF IInv
<1> QED  BY <1>1, InductiveInvariant, PTL

\* cancel() never follows an index entry to a slot that is free or belongs to
\* another order, whatever ids the clients use.
THEOREM NoDanglingIndex == Spec => []IndexEntriesLive
<1>1. IInv => IndexEntriesLive  BY DEF IInv
<1> QED  BY <1>1, InductiveInvariant, PTL

\* While clients keep ids unique, every resting order can be cancelled by its id.
THEOREM IndexComplete == Spec => []IndexExact
<1>1. IInv => IndexExact  BY DEF IInv
<1> QED  BY <1>1, InductiveInvariant, PTL

\* The lists are consistent in both directions, acyclic, and each belongs to a
\* level; the free list holds the released slots, each once.
THEOREM ListsIntact == Spec => [](Linked /\ FreeList)
<1>1. IInv => Linked /\ FreeList  BY DEF IInv
<1> QED  BY <1>1, InductiveInvariant, PTL
=============================================================================
