---------------------- MODULE OrderBookRefinementProofs ----------------------
(***************************************************************************)
(* For every capacity, id set, price set and quantity width: what the      *)
(* levels of the book hold.  A level's list, walked from its head, is the  *)
(* resting orders of its side and price, each once; its total is the sum   *)
(* of what they have left, in the width of Quantity; and a fill-or-kill    *)
(* order that was let in is filled.                                        *)
(*                                                                         *)
(* From that, while clients keep ids unique and no Capacity orders add up  *)
(* to more than the width of Quantity, the book of order_book.cpp          *)
(* implements PriceTimeBook.                                               *)
(***************************************************************************)
EXTENDS OrderBookRefinement, OrderBookProofs

-----------------------------------------------------------------------------
(* Walking a list.                                                         *)

\* g follows the links from s on, n places.
Hops(g, s, n) ==
    g = [k \in 1..n |->
            IF k = 1 THEN s ELSE IF g[k - 1] = NULL THEN NULL ELSE next[g[k - 1]]]

\* From any slot `next` can be followed any number of times.
LEMMA HopsExist ==
    ASSUME NEW s, NEW n \in Nat
    PROVE  \E g : Hops(g, s, n)
<1> DEFINE Bad == {m \in Nat : ~\E g : Hops(g, s, m)}
<1>1. SUFFICES ASSUME Bad # {} PROVE FALSE  BY Zenon
<1>2. PICK m \in Bad : \A k \in Bad : m <= k  BY <1>1, SmallestElement
<1>3. m # 0
  <2> SUFFICES ASSUME m = 0 PROVE FALSE  OBVIOUS
  <2> DEFINE z == [k \in 1..0 |-> NULL]
  <2>1. Hops(z, s, 0)  BY DEF Hops
  <2> QED  BY <1>2, <2>1
<1>4. m \in Nat /\ m - 1 \in Nat /\ m - 1 \notin Bad
  <2>1. m \in Nat  BY <1>2
  <2> HIDE DEF Bad
  <2> QED  BY <1>2, <1>3, <2>1
<1>5. PICK g : Hops(g, s, m - 1)  BY <1>4
<1> DEFINE Step(f, k) ==
              IF k = 1 THEN s ELSE IF f[k - 1] = NULL THEN NULL ELSE next[f[k - 1]]
           h == [k \in 1..m |-> IF k < m THEN g[k] ELSE Step(g, m)]
<1>6. \A k \in 1..m - 1 : g[k] = Step(g, k)  BY <1>5 DEF Hops
<1>7. \A k \in 1..m : h[k] = Step(h, k)
  <2> SUFFICES ASSUME NEW k \in 1..m PROVE h[k] = Step(h, k)  OBVIOUS
  <2>1. k # 1 => k - 1 \in 1..m /\ k - 1 < m /\ h[k - 1] = g[k - 1]  BY <1>4
  <2>2. Step(h, k) = Step(g, k)  BY <2>1
  <2>3. CASE k < m  BY <1>4, <1>6, <2>2, <2>3
  <2>4. CASE k = m  BY <1>4, <2>2, <2>4
  <2> QED  BY <1>4, <2>3, <2>4
<1>8. Hops(h, s, m)
  <2> DEFINE f == [k \in 1..m |-> Step(h, k)]
  <2>1. \A k \in 1..m : h[k] = f[k]  BY <1>7
  <2>2. h = f  BY <2>1
  <2> QED  BY <2>2 DEF Hops
<1> QED  BY <1>2, <1>8

\* ChainFrom(s) is such a walk, up to the first NULL.
LEMMA ChainIs ==
    ASSUME NEW s
    PROVE  \E hop : /\ Hops(hop, s, Capacity)
                    /\ ChainFrom(s) =
                         [k \in 1..Cardinality({j \in 1..Capacity : hop[j] # NULL}) |-> hop[k]]
<1> DEFINE hop == CHOOSE g : Hops(g, s, Capacity)
<1>1. Hops(hop, s, Capacity)
  <2>1. \E g : Hops(g, s, Capacity)  BY HopsExist, CapacityAssumption
  <2> QED  BY <2>1, Zenon
<1>2. ChainFrom(s) = [k \in 1..Cardinality({j \in 1..Capacity : hop[j] # NULL}) |-> hop[k]]
  BY Zenon DEF ChainFrom, Hops
<1> HIDE DEF hop
<1> QED  BY <1>1, <1>2

\* The resting orders of one side and price: what a level should hold.
AtPlace(side, price) == {s \in Resting : order[s].side = side /\ order[s].price = price}

\* What is known of an order that rests at a side and price.
LEMMA PlaceFacts ==
    ASSUME NEW side, NEW price, NEW s \in AtPlace(side, price)
    PROVE  /\ s \in Resting /\ s \in Slots /\ s # NULL /\ order[s] # NULL
           /\ order[s].side = side /\ order[s].price = price
  BY NullAssumption DEF AtPlace, Resting

\* A neighbour of an order of a level is an order of the level.
LEMMA PlaceKept ==
    ASSUME IInv, NEW side, NEW price, NEW s \in AtPlace(side, price)
    PROVE  /\ next[s] # NULL => next[s] \in AtPlace(side, price) /\ prev[next[s]] = s
           /\ prev[s] # NULL => prev[s] \in AtPlace(side, price) /\ next[prev[s]] = s
  BY DEF IInv, Linked, Neighbours, SamePlace, AtPlace

\* From the head of a level the links lead along orders of the level, and the links
\* back lead the same way.
LEMMA HopPlaces ==
    ASSUME IInv, NEW side \in Side, NEW l \in Range(levels[side]),
           NEW hop, Hops(hop, l.head, Capacity)
    PROVE  /\ hop[1] = l.head /\ l.head \in AtPlace(side, l.price) /\ prev[l.head] = NULL
           /\ \A k \in 1..Capacity : hop[k] \in AtPlace(side, l.price) \cup {NULL}
           /\ \A k \in 1..Capacity : k > 1 /\ hop[k] # NULL =>
                 /\ k - 1 \in 1..Capacity /\ hop[k - 1] # NULL
                 /\ next[hop[k - 1]] = hop[k] /\ prev[hop[k]] = hop[k - 1]
<1> DEFINE P == AtPlace(side, l.price)
           Bad == {k \in 1..Capacity : hop[k] \notin P \cup {NULL}}
<1>1. l.head \in P /\ prev[l.head] = NULL  BY DEF IInv, Linked, Ends, AtPlace
<1>2. \A k \in 1..Capacity : hop[k] =
          IF k = 1 THEN l.head ELSE IF hop[k - 1] = NULL THEN NULL ELSE next[hop[k - 1]]
  BY Zenon DEF Hops
<1>3. Capacity \in Nat \ {0}  BY CapacityAssumption
<1>4. hop[1] = l.head  BY <1>2, <1>3
<1>5. Bad = {}
  <2> SUFFICES ASSUME Bad # {} PROVE FALSE  OBVIOUS
  <2>1. Bad \subseteq Nat  OBVIOUS
  <2>2. PICK m \in Bad : \A k \in Bad : m <= k  BY <2>1, SmallestElement
  <2>3. m # 1  BY <1>1, <1>4, <2>2
  <2>4. m - 1 \in 1..Capacity /\ m - 1 \notin Bad
    <3>1. m \in 1..Capacity  BY <2>2
    <3> HIDE DEF Bad
    <3> QED  BY <1>3, <2>2, <2>3, <3>1
  <2>5. hop[m - 1] \in P \cup {NULL}  BY <2>4
  <2>6. hop[m] = IF hop[m - 1] = NULL THEN NULL ELSE next[hop[m - 1]]  BY <1>2, <2>2, <2>3
  <2>7. hop[m] \in P \cup {NULL}  BY <2>5, <2>6, PlaceKept
  <2> QED  BY <2>2, <2>7
<1>6. ASSUME NEW k \in 1..Capacity, k > 1, hop[k] # NULL
      PROVE  /\ k - 1 \in 1..Capacity /\ hop[k - 1] # NULL
             /\ next[hop[k - 1]] = hop[k] /\ prev[hop[k]] = hop[k - 1]
  <2>1. k - 1 \in 1..Capacity  BY <1>3, <1>6
  <2>2. hop[k] = IF hop[k - 1] = NULL THEN NULL ELSE next[hop[k - 1]]  BY <1>2, <1>6
  <2>3. hop[k - 1] \in P  BY <1>5, <1>6, <2>1, <2>2
  <2> HIDE DEF P, Bad
  <2> QED  BY <1>6, <2>1, <2>2, <2>3, PlaceKept DEF P
<1>7. \A k \in 1..Capacity : hop[k] \in P \cup {NULL}  BY <1>5
<1> QED  BY <1>1, <1>4, <1>6, <1>7

\* The walk meets no slot twice.
LEMMA HopsDiffer ==
    ASSUME IInv, NEW side \in Side, NEW l \in Range(levels[side]),
           NEW hop, Hops(hop, l.head, Capacity),
           NEW i \in 1..Capacity, NEW j \in 1..Capacity, hop[i] # NULL, hop[i] = hop[j]
    PROVE  i = j
<1> DEFINE Bad == {k \in 1..Capacity : hop[k] # NULL
                       /\ \E m \in 1..Capacity : k < m /\ hop[k] = hop[m]}
<1>0. Capacity \in Nat \ {0}  BY CapacityAssumption
<1>1. Bad = {}
  <2> SUFFICES ASSUME Bad # {} PROVE FALSE  OBVIOUS
  <2>0. Bad \subseteq Nat  OBVIOUS
  <2>1. PICK k \in Bad : \A q \in Bad : k <= q  BY <2>0, SmallestElement
  <2>2. PICK m \in 1..Capacity : k < m /\ hop[k] = hop[m]  BY <2>1
  <2>3. k \in 1..Capacity /\ hop[k] # NULL /\ m > 1  BY <2>1, <2>2
  <2>4. /\ m - 1 \in 1..Capacity /\ hop[m - 1] # NULL /\ prev[hop[k]] = hop[m - 1]
    BY <2>2, <2>3, HopPlaces
  <2>5. k # 1  BY <2>4, HopPlaces
  <2>6. k - 1 \in 1..Capacity /\ hop[k - 1] # NULL /\ prev[hop[k]] = hop[k - 1]
    <3>1. k > 1  BY <2>3, <2>5
    <3> QED  BY <2>3, <3>1, HopPlaces
  <2>7. k - 1 < m - 1  BY <2>2, <2>3
  <2>8. k - 1 \in Bad  BY <2>4, <2>6, <2>7
  <2> HIDE DEF Bad
  <2> QED  BY <2>1, <2>3, <2>8
<1> QED  BY <1>0, <1>1

\* A walk of n places among fewer than n slots meets one of them twice.
LEMMA Pigeons ==
    ASSUME NEW n \in Nat, NEW T, IsFiniteSet(T), Cardinality(T) < n,
           NEW g, \A k \in 1..n : g[k] \in T
    PROVE  \E i, j \in 1..n : i # j /\ g[i] = g[j]
<1> DEFINE h == [k \in 1..n |-> g[k]]
<1>1. PICK f \in [1..n -> T] : f = h  OBVIOUS
<1>2. IsFiniteSet(1..n) /\ Cardinality(1..n) = n  BY FS_Interval
<1>3. PICK i, j \in 1..n : i # j /\ f[i] = f[j]
  <2>1. Cardinality(T) < Cardinality(1..n)  BY <1>2
  <2> HIDE DEF h
  <2> QED  BY <1>2, <2>1, FS_PigeonHole, Zenon
<1>4. f[i] = g[i] /\ f[j] = g[j]  BY <1>1
<1> QED  BY <1>3, <1>4

\* The walk stops, and stops at the tail of the level.
LEMMA HopsEnd ==
    ASSUME IInv, NEW side \in Side, NEW l \in Range(levels[side]),
           NEW hop, Hops(hop, l.head, Capacity)
    PROVE  \E n \in 1..Capacity :
              /\ {k \in 1..Capacity : hop[k] # NULL} = 1..n
              /\ hop[n] = l.tail /\ next[l.tail] = NULL
<1> DEFINE Z == {k \in 1..Capacity + 1 : k <= Capacity => hop[k] = NULL}
<1>0. Capacity \in Nat \ {0}  BY CapacityAssumption
<1>1. /\ hop[1] = l.head /\ l.head \in AtPlace(side, l.price) /\ prev[l.head] = NULL
      /\ \A k \in 1..Capacity : hop[k] \in AtPlace(side, l.price) \cup {NULL}
      /\ \A k \in 1..Capacity : k > 1 /\ hop[k] # NULL =>
            /\ k - 1 \in 1..Capacity /\ hop[k - 1] # NULL
            /\ next[hop[k - 1]] = hop[k] /\ prev[hop[k]] = hop[k - 1]
  BY HopPlaces
<1>2. Capacity + 1 \in Z /\ Z \subseteq Nat  BY <1>0
<1>3. PICK m \in Z : \A k \in Z : m <= k  BY <1>2, SmallestElement
<1>4. hop[1] # NULL  BY <1>1, PlaceFacts
<1>5. m \in 2..Capacity + 1  BY <1>0, <1>3, <1>4
<1> DEFINE n == m - 1
<1>6. n \in 1..Capacity  BY <1>0, <1>5
<1>7. ASSUME NEW k \in 1..n PROVE k \in 1..Capacity /\ hop[k] # NULL
  <2>1. k \notin Z  BY <1>3, <1>5
  <2> QED  BY <1>0, <1>5, <2>1
<1>8. ASSUME NEW k \in 1..Capacity, hop[k] # NULL PROVE k \in 1..n
  <2> DEFINE L == {j \in 1..Capacity : hop[j] # NULL /\ j > n}
  <2>1. SUFFICES ASSUME L # {} PROVE FALSE  BY <1>6, <1>8
  <2>2. L \subseteq Nat  OBVIOUS
  <2>3. PICK j \in L : \A q \in L : j <= q  BY <2>1, <2>2, SmallestElement
  <2>4. j \in 1..Capacity /\ hop[j] # NULL /\ j > n /\ j > 1  BY <1>6, <2>3
  <2>5. j - 1 \in 1..Capacity /\ hop[j - 1] # NULL  BY <1>1, <2>4
  <2>6. j = m
    <3>1. j - 1 \notin L  BY <2>3, <2>4
    <3> QED  BY <1>6, <2>4, <2>5, <3>1
  <2> QED  BY <1>3, <2>4, <2>6
<1>9. {k \in 1..Capacity : hop[k] # NULL} = 1..n  BY <1>7, <1>8
<1>10. hop[n] \in AtPlace(side, l.price)  BY <1>1, <1>6, <1>7
<1>11. next[hop[n]] = NULL
  <2> SUFFICES ASSUME next[hop[n]] # NULL PROVE FALSE  OBVIOUS
  <2> DEFINE t == next[hop[n]]
  <2>1. t \in AtPlace(side, l.price) /\ prev[t] = hop[n]  BY <1>10, PlaceKept
  <2>2. \A j \in 1..Capacity : hop[j] # t
    <3> SUFFICES ASSUME NEW j \in 1..Capacity, hop[j] = t PROVE FALSE  OBVIOUS
    <3>1. j # 1  BY <1>1, <1>10, <2>1, PlaceFacts
    <3>2. hop[j] # NULL /\ j > 1  BY <2>1, <3>1, PlaceFacts
    <3>3. j - 1 \in 1..Capacity /\ hop[j - 1] = hop[n] /\ hop[n] # NULL
      BY <1>1, <1>7, <1>6, <2>1, <3>2
    <3>4. j - 1 = n  BY <1>6, <3>3, HopsDiffer
    <3>5. j \in 1..n  BY <1>8, <3>2
    <3> QED  BY <1>6, <3>4, <3>5
  <2>3. CASE n < Capacity
    <3>1. n + 1 \in 1..Capacity /\ n + 1 # 1 /\ (n + 1) - 1 = n
      BY <1>0, <1>6, <2>3
    <3>2. hop[n + 1] = IF hop[n] = NULL THEN NULL ELSE next[hop[n]]  BY <3>1, Zenon DEF Hops
    <3>3. hop[n] # NULL  BY <1>6, <1>7
    <3> QED  BY <2>2, <3>1, <3>2, <3>3
  <2>4. CASE n = Capacity
    <3>1. \A k \in 1..Capacity : hop[k] \in Slots \ {t}
      BY <1>1, <1>7, <2>2, <2>4, PlaceFacts
    <3>2. IsFiniteSet(Slots) /\ Cardinality(Slots) = Capacity /\ t \in Slots
      BY <1>0, <2>1, FS_Interval, PlaceFacts DEF Slots
    <3> HIDE DEF t
    <3>4. IsFiniteSet(Slots \ {t}) /\ Cardinality(Slots \ {t}) = Capacity - 1
      BY <3>2, FS_RemoveElement
    <3>5. Cardinality(Slots \ {t}) < Capacity /\ Capacity \in Nat  BY <1>0, <3>4
    <3>6. PICK i, j \in 1..Capacity : i # j /\ hop[i] = hop[j]
      BY <3>1, <3>4, <3>5, Pigeons, Zenon
    <3>7. hop[i] = hop[j] /\ hop[i] # NULL  BY <1>7, <2>4, <3>6
    <3> QED  BY <3>6, <3>7, HopsDiffer
  <2> QED  BY <1>0, <1>6, <2>3, <2>4
<1>12. hop[n] = l.tail
  <2>1. /\ hop[n] \in Resting /\ order[hop[n]].side = side /\ order[hop[n]].price = l.price
    BY <1>10, PlaceFacts
  <2>2. PICK m2 \in Range(levels[side]) : m2.price = l.price /\ m2.tail = hop[n]
    BY <1>11, <2>1 DEF IInv, Linked, Covered
  <2>3. m2 = l  BY <2>2, LevelFacts DEF IInv
  <2> QED  BY <2>2, <2>3
<1> QED  BY <1>6, <1>9, <1>11, <1>12

\* Every order of the level is met.
LEMMA HopsReach ==
    ASSUME IInv, NEW side \in Side, NEW l \in Range(levels[side]),
           NEW hop, Hops(hop, l.head, Capacity), NEW s \in AtPlace(side, l.price)
    PROVE  \E k \in 1..Capacity : hop[k] = s
<1> DEFINE P == AtPlace(side, l.price)
           U == {t \in P : \A k \in 1..Capacity : hop[k] # t}
<1>1. SUFFICES ASSUME U # {} PROVE FALSE  BY Zenon
<1>2. PICK f \in [Slots -> Nat] : \A t \in Resting : next[t] # NULL => f[t] < f[next[t]]
  BY DEF IInv, Linked, Ranked
<1> DEFINE F == {f[t] : t \in U}
<1>3. \A t \in U : t \in P /\ t \in Slots /\ t # NULL /\ f[t] \in Nat
  BY <1>2, PlaceFacts
<1>4. F \subseteq Nat /\ F # {}  BY <1>1, <1>3
<1>5. PICK t \in U : \A u \in U : f[t] <= f[u]
  <2>1. PICK m \in F : \A k \in F : m <= k  BY <1>4, SmallestElement
  <2> QED  BY <2>1
<1>6. t \in P /\ t \in Resting /\ order[t].side = side /\ order[t].price = l.price /\ t # NULL
  BY PlaceFacts
<1>0. 1 \in 1..Capacity  BY CapacityAssumption
<1>7. prev[t] # NULL
  <2> SUFFICES ASSUME prev[t] = NULL PROVE FALSE  OBVIOUS
  <2>1. PICK m \in Range(levels[side]) : m.price = l.price /\ m.head = t
    BY <1>6 DEF IInv, Linked, Covered
  <2>2. m = l  BY <2>1, LevelFacts DEF IInv
  <2>3. hop[1] = t  BY <2>1, <2>2, HopPlaces
  <2> QED  BY <1>0, <2>3
<1> DEFINE u == prev[t]
<1>8. u \in P /\ next[u] = t  BY <1>6, <1>7, PlaceKept
<1>9. u \notin U
  <2>1. f[u] < f[t] /\ f[u] \in Nat /\ f[t] \in Nat  BY <1>2, <1>6, <1>8, PlaceFacts
  <2> HIDE DEF U
  <2> QED  BY <1>5, <2>1
<1>10. PICK k \in 1..Capacity : hop[k] = u  BY <1>8, <1>9
<1>11. u # NULL /\ next[u] # NULL  BY <1>6, <1>8, PlaceFacts
<1>12. k < Capacity
  <2> SUFFICES ASSUME k = Capacity PROVE FALSE  BY CapacityAssumption
  <2>1. PICK n \in 1..Capacity : {j \in 1..Capacity : hop[j] # NULL} = 1..n
                                  /\ hop[n] = l.tail /\ next[l.tail] = NULL
    BY HopsEnd
  <2>2. n = k  BY <1>10, <1>11, <2>1
  <2> QED  BY <1>10, <1>11, <2>1, <2>2
<1>13. hop[k + 1] = t
  <2>1. k + 1 \in 1..Capacity /\ k + 1 # 1 /\ (k + 1) - 1 = k  BY <1>12, CapacityAssumption
  <2>2. hop[k + 1] = IF hop[k] = NULL THEN NULL ELSE next[hop[k]]  BY <2>1, Zenon DEF Hops
  <2> QED  BY <1>8, <1>10, <1>11, <2>2
<1>14. k + 1 \in 1..Capacity  BY <1>12, CapacityAssumption
<1> QED  BY <1>13, <1>14

\* The list of a level, walked from its head, is the resting orders of its side and
\* price, each once, linked back the way it is walked, down to the tail.
LEMMA LevelChain ==
    ASSUME IInv, NEW side \in Side, NEW l \in Range(levels[side])
    PROVE  LET c == ChainFrom(l.head)
           IN  /\ c # <<>> /\ c \in Seq(Slots)
               /\ Last(c) = l.tail /\ next[l.tail] = NULL
               /\ \A k \in DOMAIN c : prev[c[k]] = IF k = 1 THEN NULL ELSE c[k - 1]
               /\ IsInjective(c)
               /\ Range(c) = AtPlace(side, l.price)
<1>1. PICK hop : /\ Hops(hop, l.head, Capacity)
                 /\ ChainFrom(l.head) =
                      [k \in 1..Cardinality({j \in 1..Capacity : hop[j] # NULL}) |-> hop[k]]
  BY ChainIs
<1>2. PICK n \in 1..Capacity : /\ {k \in 1..Capacity : hop[k] # NULL} = 1..n
                              /\ hop[n] = l.tail /\ next[l.tail] = NULL
  BY <1>1, HopsEnd
<1>3. Cardinality(1..n) = n /\ n \in Nat \ {0} /\ Capacity \in Nat
  BY <1>2, FS_Interval, CapacityAssumption
<1>4. PICK c : c = ChainFrom(l.head)  OBVIOUS
<1>5. c = [k \in 1..n |-> hop[k]]  BY <1>1, <1>2, <1>3, <1>4
<1>6. \A k \in 1..n : k \in 1..Capacity /\ hop[k] # NULL  BY <1>2
<1>7. \A k \in 1..n : hop[k] \in AtPlace(side, l.price)  BY <1>1, <1>6, HopPlaces
<1>8. \A k \in 1..n : hop[k] \in Slots  BY <1>7, PlaceFacts
<1>9. c \in Seq(Slots) /\ Len(c) = n /\ DOMAIN c = 1..n /\ \A k \in 1..n : c[k] = hop[k]
  BY <1>3, <1>5, <1>8
<1>10. c # <<>> /\ Last(c) = l.tail  BY <1>2, <1>3, <1>9 DEF Last
<1>11. ASSUME NEW k \in DOMAIN c
       PROVE  prev[c[k]] = IF k = 1 THEN NULL ELSE c[k - 1]
  <2>1. k \in 1..Capacity /\ hop[k] # NULL /\ k \in 1..n  BY <1>6, <1>9
  <2>2. CASE k = 1  BY <1>1, <1>9, <2>1, <2>2, HopPlaces
  <2>3. CASE k # 1
    <3>1. k > 1 /\ k - 1 \in 1..n  BY <1>3, <2>1, <2>3
    <3>2. prev[hop[k]] = hop[k - 1]  BY <1>1, <2>1, <3>1, HopPlaces
    <3> QED  BY <1>9, <2>1, <2>3, <3>1, <3>2
  <2> QED  BY <2>2, <2>3
<1>12. IsInjective(c)
  <2> SUFFICES ASSUME NEW i \in 1..n, NEW j \in 1..n, hop[i] = hop[j] PROVE i = j
    BY <1>9 DEF IsInjective
  <2> QED  BY <1>1, <1>6, HopsDiffer
<1>13. Range(c) = AtPlace(side, l.price)
  <2>1. Range(c) \subseteq AtPlace(side, l.price)  BY <1>7, <1>9 DEF Range
  <2>2. ASSUME NEW s \in AtPlace(side, l.price) PROVE s \in Range(c)
    <3>1. PICK k \in 1..Capacity : hop[k] = s  BY <1>1, HopsReach
    <3>2. k \in 1..n  BY <1>2, <3>1, PlaceFacts
    <3> QED  BY <1>9, <3>1, <3>2 DEF Range
  <2> QED  BY <2>1, <2>2
<1> QED  BY <1>2, <1>4, <1>9, <1>10, <1>11, <1>12, <1>13

-----------------------------------------------------------------------------
(* Where every slot is.                                                    *)

\* The lists and the free list share no slot and miss none but the taker's.
LEMMA PartitionFollows == IInv => SlotsPartitioned
<1> SUFFICES ASSUME IInv PROVE SlotsPartitioned  OBVIOUS
<1> USE DEF IInv
<1> DEFINE busy == IF taker = NULL THEN {} ELSE {taker}
           lists == UNION {{side} \X DOMAIN levels[side] : side \in Side}
           Chain(l) == ChainFrom(levels[l[1]][l[2]].head)
           Price(l) == levels[l[1]][l[2]].price
<1>1. ASSUME NEW l \in lists
      PROVE  /\ l[1] \in Side /\ l[2] \in DOMAIN levels[l[1]] /\ l = <<l[1], l[2]>>
             /\ levels[l[1]][l[2]] \in Range(levels[l[1]])
  BY DEF Range
<1>2. ASSUME NEW l \in lists
      PROVE  IsInjective(Chain(l)) /\ Range(Chain(l)) = AtPlace(l[1], Price(l))
  BY <1>1, LevelChain
<1>3. ASSUME NEW side \in Side, NEW i \in DOMAIN levels[side]
      PROVE  <<side, i>> \in lists
  OBVIOUS
<1>4. IsInjective(free)
  BY DEF FreeList, IsInjective
<1>5. ASSUME NEW l \in lists, NEW m \in lists, l # m
      PROVE  Range(Chain(l)) \cap Range(Chain(m)) = {}
  <2> SUFFICES ASSUME NEW s \in AtPlace(l[1], Price(l)), s \in AtPlace(m[1], Price(m))
               PROVE  FALSE
    BY <1>2
  <2>1. l[1] = m[1] /\ Price(l) = Price(m)  BY PlaceFacts
  <2>2. levels[l[1]] \in Seq(Level) /\ Sorted(l[1], levels[l[1]])  BY <1>1, LevelFacts
  <2>3. l[2] = m[2]  BY <1>1, <2>1, <2>2, SortedUnique
  <2> QED  BY <1>1, <1>5, <2>1, <2>3
<1>6. \A s \in Slots : order[s] = NULL <=> s \in Range(free)
  BY DEF FreeList, TypeOK, Range
<1>7. Range(free) \cap busy = {}
  BY DEF FreeList, TakerLive, Range
<1>8. Slots \ (Range(free) \cup busy) = Resting
  <2>1. \A s \in Slots : s \in busy <=> s = taker  BY NullAssumption
  <2>2. \A s \in Slots : s \in Resting <=> s \notin Range(free) /\ s \notin busy
    BY <1>6, <2>1 DEF Resting
  <2> HIDE DEF busy
  <2> QED  BY <2>2 DEF Resting
<1>9. UNION {Range(Chain(l)) : l \in lists} = Resting
  <2>1. ASSUME NEW l \in lists, NEW s \in Range(Chain(l)) PROVE s \in Resting
    BY <1>2, <2>1, PlaceFacts
  <2>2. ASSUME NEW s \in Resting PROVE \E l \in lists : s \in Range(Chain(l))
    <3>1. order[s].side \in Side  BY LiveOrder DEF Resting
    <3>2. PICK i \in DOMAIN levels[order[s].side] :
              levels[order[s].side][i].price = order[s].price
      BY DEF Linked, Covered, Range
    <3> DEFINE l == <<order[s].side, i>>
    <3>3. l \in lists  BY <1>3, <3>1, <3>2
    <3>4. s \in AtPlace(l[1], Price(l))  BY <3>2 DEF AtPlace
    <3> QED  BY <1>2, <3>3, <3>4
  <2> HIDE DEF lists, Chain
  <2> QED  BY <2>1, <2>2
<1>10. \A l \in lists : IsInjective(Chain(l))  BY <1>2
<1>11. \A l, m \in lists : l # m => Range(Chain(l)) \cap Range(Chain(m)) = {}  BY <1>5
<1> QED  BY <1>4, <1>6, <1>7, <1>8, <1>9, <1>10, <1>11, Zenon DEF SlotsPartitioned

\* Whatever is submitted and cancelled, each slot of the pool is free, or in one level, or
\* the taker's: nothing leaks, nothing is released twice, nothing is in two lists.
THEOREM PoolPartitioned == Spec => []SlotsPartitioned
<1>1. IInv => SlotsPartitioned  BY PartitionFollows
<1> QED  BY <1>1, InductiveInvariant, PTL

-----------------------------------------------------------------------------
(* What a set of orders has left.                                          *)

\* Remaining, of an order function given by itself.
Left(o, S) == SumFunction([s \in S |-> o[s].qty])

\* What orders have left is the sum of any weights that agree with them.
LEMMA LeftIs ==
    ASSUME NEW o, NEW S, IsFiniteSet(S), NEW w, \A s \in S : w[s] = o[s].qty
    PROVE  Left(o, S) = SumFunctionOnSet(w, S)
<1>1. PICK v : v = [s \in S |-> o[s].qty]  OBVIOUS
<1>2. DOMAIN v = S /\ \A s \in S : v[s] = w[s]  BY <1>1
<1>3. Left(o, S) = SumFunctionOnSet(v, S)  BY <1>1, <1>2 DEF Left, SumFunction
<1> QED  BY <1>2, <1>3, SumAgree

\* No orders have nothing left.
LEMMA LeftEmpty ==
    ASSUME NEW o
    PROVE  Left(o, {}) = 0
<1>1. Left(o, {}) = SumFunctionOnSet([s \in {} |-> 0], {})  BY LeftIs, FS_EmptySet
<1> QED  BY <1>1, SumEmpty

\* What orders have left is a natural number.
LEMMA LeftNat ==
    ASSUME NEW o, NEW S, IsFiniteSet(S), \A s \in S : o[s].qty \in Nat
    PROVE  Left(o, S) \in Nat
<1>1. PICK w : w = [s \in S |-> o[s].qty]  OBVIOUS
<1>2. \A s \in S : w[s] = o[s].qty /\ w[s] \in Nat  BY <1>1
<1> QED  BY <1>2, LeftIs, SumNat

\* Orders that have the same left have the same left together.
LEMMA LeftSame ==
    ASSUME NEW o, NEW p, NEW S, IsFiniteSet(S), \A s \in S : o[s].qty = p[s].qty
    PROVE  Left(o, S) = Left(p, S)
<1>1. PICK w : w = [s \in S |-> o[s].qty]  OBVIOUS
<1>2. \A s \in S : w[s] = o[s].qty /\ w[s] = p[s].qty  BY <1>1
<1> QED  BY <1>2, LeftIs

\* One order more adds what it has left.
LEMMA LeftAdd ==
    ASSUME NEW o, NEW S, IsFiniteSet(S), NEW x, x \notin S,
           \A s \in S \cup {x} : o[s].qty \in Nat
    PROVE  Left(o, S \cup {x}) = o[x].qty + Left(o, S)
<1>1. PICK w : w = [s \in S \cup {x} |-> o[s].qty]  OBVIOUS
<1>2. \A s \in S \cup {x} : w[s] = o[s].qty /\ w[s] \in Int  BY <1>1
<1>3. IsFiniteSet(S \cup {x})  BY FS_AddElement
<1>4. Left(o, S) = SumFunctionOnSet(w, S)  BY <1>2, LeftIs
<1>5. Left(o, S \cup {x}) = SumFunctionOnSet(w, S \cup {x})  BY <1>2, <1>3, LeftIs
<1>6. SumFunctionOnSet(w, S \cup {x}) = w[x] + SumFunctionOnSet(w, S)  BY <1>2, SumAdd
<1> QED  BY <1>2, <1>4, <1>5, <1>6

\* One order less takes it away.
LEMMA LeftRemove ==
    ASSUME NEW o, NEW S, IsFiniteSet(S), NEW x \in S, \A s \in S : o[s].qty \in Nat
    PROVE  Left(o, S) = o[x].qty + Left(o, S \ {x})
<1>1. IsFiniteSet(S \ {x}) /\ (S \ {x}) \cup {x} = S /\ x \notin S \ {x}  BY FS_Subset
<1> QED  BY <1>1, LeftAdd

\* One order has less left, the others as much as before.
LEMMA LeftChange ==
    ASSUME NEW o, NEW p, NEW S, IsFiniteSet(S), NEW x \in S,
           \A s \in S : o[s].qty \in Nat /\ p[s].qty \in Nat,
           \A s \in S \ {x} : o[s].qty = p[s].qty
    PROVE  Left(p, S) = Left(o, S) - o[x].qty + p[x].qty
<1>1. IsFiniteSet(S \ {x})  BY FS_Subset
<1>2. Left(o, S \ {x}) = Left(p, S \ {x})  BY <1>1, LeftSame
<1>3. Left(o, S \ {x}) \in Nat  BY <1>1, LeftNat
<1>4. Left(o, S) = o[x].qty + Left(o, S \ {x})  BY LeftRemove
<1>5. Left(p, S) = p[x].qty + Left(p, S \ {x})  BY LeftRemove
<1> QED  BY <1>2, <1>3, <1>4, <1>5

-----------------------------------------------------------------------------
(* The totals of the levels.                                               *)

\* A level's total is what its orders have left, in the width of Quantity.
Totals ==
    \A side \in Side : \A l \in Range(levels[side]) :
        l.total_qty = Remaining(AtPlace(side, l.price)) % QtyModulus

\* What waits in the book is unfilled and may wait.
RestingOrders == \A s \in Resting : order[s].type = "limit" /\ order[s].qty > 0

\* Remaining is Left of the present orders.
LEMMA RemainingLeft ==
    ASSUME NEW S
    PROVE  Remaining(S) = Left(order, S)
  BY DEF Remaining, Left

\* The orders at a place are finitely many, with quantities that can be added.
LEMMA PlaceQuantities ==
    ASSUME TypeOK, NEW side, NEW price
    PROVE  /\ IsFiniteSet(AtPlace(side, price))
           /\ \A s \in AtPlace(side, price) : order[s].qty \in Nat
           /\ Left(order, AtPlace(side, price)) \in Nat
<1>1. IsFiniteSet(Slots)  BY FS_Interval, CapacityAssumption DEF Slots
<1>2. IsFiniteSet(AtPlace(side, price))
  <2>1. AtPlace(side, price) \subseteq Slots  BY PlaceFacts
  <2> QED  BY <1>1, <2>1, FS_Subset
<1>3. ASSUME NEW s \in AtPlace(side, price) PROVE order[s].qty \in Nat
  <2>1. order[s].qty \in 0..QtyModulus - 1  BY PlaceFacts, LiveOrder
  <2> QED  BY <2>1, ModulusAssumption
<1> QED  BY <1>2, <1>3, LeftNat

\* The orders at one price after a step that lets the order s go, if it was there.
LEMMA PlaceAfter ==
    ASSUME TypeOK, NEW s, Resting' = Resting \ {s},
           \A t \in Resting \ {s} : /\ order'[t].side = order[t].side
                                   /\ order'[t].price = order[t].price
                                   /\ order'[t].qty = order[t].qty,
           NEW side, NEW price
    PROVE  /\ AtPlace(side, price)' = AtPlace(side, price) \ {s}
           /\ (Remaining(AtPlace(side, price)))' = Left(order, AtPlace(side, price) \ {s})
<1>1. AtPlace(side, price)' = AtPlace(side, price) \ {s}
  <2>1. AtPlace(side, price)' =
           {t \in Resting \ {s} : order'[t].side = side /\ order'[t].price = price}
    BY DEF AtPlace
  <2> QED  BY <2>1 DEF AtPlace
<1> DEFINE P == AtPlace(side, price) \ {s}
<1>2. (Remaining(AtPlace(side, price)))' = Left(order', AtPlace(side, price)')
  BY DEF Remaining, Left
<1>3. IsFiniteSet(P)  BY PlaceQuantities, FS_Subset
<1>4. \A t \in P : order'[t].qty = order[t].qty  BY DEF AtPlace
<1>5. Left(order', P) = Left(order, P)  BY <1>3, <1>4, LeftSame
<1> QED  BY <1>1, <1>2, <1>5

\* Taking an order out takes what it has left out of its level's total.
LEMMA UnlinkTotals ==
    ASSUME IInv, Totals, NEW s, NEW l, NEW ll, Unlinked(s, l, ll),
           ll.total_qty = (l.total_qty - order[s].qty) % QtyModulus,
           \A t \in Resting \ {s} : order'[t].qty = order[t].qty
    PROVE  Totals'
<1> SUFFICES ASSUME NEW side \in Side, NEW m \in Range(levels'[side])
             PROVE  m.total_qty = (Remaining(AtPlace(side, m.price)))' % QtyModulus
  BY DEF Totals
<1> USE DEF IInv
<1> DEFINE P == AtPlace(side, m.price)
<1>1. (Remaining(P))' = Left(order, P \ {s})
  BY PlaceAfter, ZenonT(60) DEF Unlinked
<1>2. /\ s \in Resting /\ l \in Range(levels[order[s].side]) /\ l.price = order[s].price
      /\ ll.price = l.price
  BY DEF Unlinked
<1>3. \/ side = order[s].side /\ m = ll
      \/ /\ m \in Range(levels[side])
         /\ side # order[s].side \/ m.price # l.price
  <2>1. Range(levels'[side]) =
          IF side = order[s].side
          THEN {k \in Range(levels[side]) : k.price # l.price}
                 \cup (IF ll.head = NULL THEN {} ELSE {ll})
          ELSE Range(levels[side])
    BY DEF Unlinked
  <2>2. CASE side # order[s].side  BY <2>1, <2>2
  <2>3. CASE side = order[s].side /\ ll.head = NULL  BY <2>1, <2>3
  <2>4. CASE side = order[s].side /\ ll.head # NULL  BY <2>1, <2>4
  <2> QED  BY <2>2, <2>3, <2>4
<1>4. CASE side = order[s].side /\ m = ll
  <2>1. s \in P  BY <1>2, <1>4 DEF AtPlace
  <2>2. /\ IsFiniteSet(P) /\ \A t \in P : order[t].qty \in Nat
        /\ Left(order, P) \in Nat
    BY PlaceQuantities
  <2>3. Left(order, P) = order[s].qty + Left(order, P \ {s})  BY <2>1, <2>2, LeftRemove
  <2>4. l.total_qty = Left(order, P) % QtyModulus
    BY <1>2, <1>4, RemainingLeft DEF Totals
  <2>5. Left(order, P \ {s}) \in Nat /\ order[s].qty \in Nat
    <3>1. IsFiniteSet(P \ {s})  BY <2>2, FS_Subset
    <3> QED  BY <2>1, <2>2, <3>1, LeftNat
  <2> HIDE DEF P
  <2> DEFINE X == Left(order, P)
             q == order[s].qty
  <2>6. X \in Int /\ -q \in Int /\ QtyModulus \in Nat \ {0}  BY <2>2, <2>5, ModulusAssumption
  <2>7. ((X % QtyModulus) + (-q)) % QtyModulus = (X + (-q)) % QtyModulus
    <3> HIDE DEF X, q
    <3> QED  BY <2>6, ModPlus
  <2>8. (X % QtyModulus) + (-q) = l.total_qty - q /\ X + (-q) = Left(order, P \ {s})
    <3>1. X % QtyModulus \in Int  BY <2>6, ModBound
    <3> QED  BY <2>3, <2>4, <2>5, <3>1
  <2> QED  BY <1>1, <1>4, <2>7, <2>8 DEF P
<1>5. CASE m \in Range(levels[side]) /\ (side # order[s].side \/ m.price # l.price)
  <2>1. P \ {s} = P  BY <1>2, <1>5 DEF AtPlace
  <2> QED  BY <1>1, <1>5, <2>1, RemainingLeft DEF Totals
<1> QED  BY <1>3, <1>4, <1>5

\* A step that leaves the levels and their orders alone.
LEMMA SameTotals ==
    ASSUME TypeOK, Totals, RestingOrders, Resting' = Resting, levels' = levels,
           \A t \in Resting : order'[t] = order[t]
    PROVE  Totals' /\ RestingOrders'
<1>1. RestingOrders'  BY DEF RestingOrders
<1>2. ASSUME NEW side \in Side, NEW m \in Range(levels[side])
      PROVE  m.total_qty = (Remaining(AtPlace(side, m.price)))' % QtyModulus
  <2>1. NULL \notin Resting  BY NullAssumption DEF Resting
  <2>2. Resting' = Resting \ {NULL}  BY <2>1
  <2>3. AtPlace(side, m.price) \ {NULL} = AtPlace(side, m.price)  BY <2>1 DEF AtPlace
  <2>4. (Remaining(AtPlace(side, m.price)))' = Left(order, AtPlace(side, m.price))
    BY <2>2, <2>3, PlaceAfter
  <2> QED  BY <2>4, RemainingLeft DEF Totals
<1> QED  BY <1>1, <1>2 DEF Totals

\* Appending an order adds what it has left to the total of its level.
LEMMA AppendTotals ==
    ASSUME IInv, Totals, NEW o, NEW tl, NEW l, NEW ll, Appended(o, tl, ll),
           order' = order, l.price = order[o].price,
           ll.total_qty = (l.total_qty + order[o].qty) % QtyModulus,
           \/ l \in Range(levels[order[o].side])
           \/ l.total_qty = 0 /\ \A m \in Range(levels[order[o].side]) : m.price # l.price
    PROVE  Totals'
<1> SUFFICES ASSUME NEW side \in Side, NEW m \in Range(levels'[side])
             PROVE  m.total_qty = (Remaining(AtPlace(side, m.price)))' % QtyModulus
  BY DEF Totals
<1> USE DEF IInv
<1> DEFINE P == AtPlace(side, m.price)
<1>1. /\ o \in Slots /\ order[o] # NULL /\ o \notin Resting /\ o \notin P
      /\ ll.price = order[o].price /\ Resting' = Resting \cup {o}
  BY DEF Appended, AtPlace
<1>2. order[o].qty \in Nat /\ order[o].side \in Side
  BY <1>1, LiveOrder, ModulusAssumption
<1>3. /\ IsFiniteSet(P) /\ \A t \in P : order[t].qty \in Nat
      /\ Left(order, P) \in Nat
  BY PlaceQuantities
<1>4. (Remaining(P))' = Left(order, P')  BY DEF Remaining, Left
<1>5. P' = IF side = order[o].side /\ m.price = order[o].price THEN P \cup {o} ELSE P
  <2>1. P' = {t \in Resting \cup {o} : order[t].side = side /\ order[t].price = m.price}
    BY <1>1 DEF AtPlace
  <2> QED  BY <2>1 DEF AtPlace
<1>6. \/ side = order[o].side /\ m = ll
      \/ /\ m \in Range(levels[side])
         /\ side # order[o].side \/ m.price # order[o].price
  <2>1. Range(levels'[side]) =
          IF side = order[o].side
          THEN {k \in Range(levels[side]) : k.price # order[o].price} \cup {ll}
          ELSE Range(levels[side])
    BY DEF Appended
  <2>2. CASE side # order[o].side  BY <2>1, <2>2
  <2>3. CASE side = order[o].side  BY <2>1, <2>3
  <2> QED  BY <2>2, <2>3
<1>7. CASE side = order[o].side /\ m = ll
  <2>1. (Remaining(P))' = order[o].qty + Left(order, P)
    <3>1. P' = P \cup {o}  BY <1>1, <1>5, <1>7
    <3>2. Left(order, P \cup {o}) = order[o].qty + Left(order, P)
      <4> HIDE DEF P
      <4> QED  BY <1>1, <1>2, <1>3, LeftAdd
    <3> QED  BY <1>4, <3>1, <3>2
  <2>2. l.total_qty = Left(order, P) % QtyModulus
    <3>1. CASE l \in Range(levels[side])
      BY <1>1, <1>7, <3>1, RemainingLeft DEF Totals
    <3>2. CASE l.total_qty = 0 /\ \A k \in Range(levels[side]) : k.price # l.price
      <4>1. P = {}
        <5> SUFFICES ASSUME NEW t \in P PROVE FALSE  OBVIOUS
        <5>1. t \in Resting /\ order[t].side = side /\ order[t].price = l.price
          BY <1>1, <1>7, PlaceFacts
        <5> QED  BY <3>2, <5>1 DEF Linked, Covered
      <4>2. Left(order, P) = 0  BY <4>1, LeftEmpty
      <4> HIDE DEF P
      <4>3. (QtyModulus * 0 + 0) % QtyModulus = 0  BY ModUnique, ModulusAssumption
      <4>4. 0 % QtyModulus = 0  BY <4>3, ModulusAssumption
      <4> QED  BY <3>2, <4>2, <4>4
    <3> QED  BY <1>7, <3>1, <3>2
  <2> DEFINE X == Left(order, P)
             q == order[o].qty
  <2>3. X \in Int /\ q \in Int /\ QtyModulus \in Nat \ {0}  BY <1>2, <1>3, ModulusAssumption
  <2>4. ((X % QtyModulus) + q) % QtyModulus = (X + q) % QtyModulus
    <3> HIDE DEF X, q
    <3> QED  BY <2>3, ModPlus
  <2>5. X + q = order[o].qty + Left(order, P)  BY <2>3
  <2> QED  BY <1>7, <2>1, <2>2, <2>4, <2>5
<1>8. CASE m \in Range(levels[side]) /\ (side # order[o].side \/ m.price # order[o].price)
  <2>1. P' = P  BY <1>5, <1>8
  <2> QED  BY <1>4, <1>8, <2>1, RemainingLeft DEF Totals
<1> QED  BY <1>6, <1>7, <1>8

\* Filling a part of one order takes the fill out of its level's total.
LEMMA PartialTotals ==
    ASSUME IInv, Totals, NEW maker \in Resting, Resting' = Resting,
           NEW l \in Range(levels[order[maker].side]), l.price = order[maker].price,
           NEW ll, ll.price = l.price, NEW fill \in Nat, fill <= order[maker].qty,
           ll.total_qty = (l.total_qty - fill) % QtyModulus,
           \A side \in Side : Range(levels'[side]) =
              IF side = order[maker].side
              THEN {m \in Range(levels[side]) : m.price # l.price} \cup {ll}
              ELSE Range(levels[side]),
           /\ order'[maker].side = order[maker].side
           /\ order'[maker].price = order[maker].price
           /\ order'[maker].qty = order[maker].qty - fill,
           \A t \in Resting \ {maker} : order'[t] = order[t]
    PROVE  Totals'
<1> SUFFICES ASSUME NEW side \in Side, NEW m \in Range(levels'[side])
             PROVE  m.total_qty = (Remaining(AtPlace(side, m.price)))' % QtyModulus
  BY DEF Totals
<1> USE DEF IInv
<1> DEFINE P == AtPlace(side, m.price)
<1>1. P' = P
  <2>1. P' = {t \in Resting : order'[t].side = side /\ order'[t].price = m.price}
    BY DEF AtPlace
  <2> QED  BY <2>1 DEF AtPlace
<1>2. (Remaining(P))' = Left(order', P)  BY <1>1 DEF Remaining, Left
<1>3. /\ IsFiniteSet(P) /\ \A t \in P : order[t].qty \in Nat /\ t \in Resting
      /\ Left(order, P) \in Nat
  BY PlaceQuantities, PlaceFacts
<1>4. order[maker].qty \in Nat
  BY LiveOrder, ModulusAssumption DEF Resting
<1>5. \/ side = order[maker].side /\ m = ll
      \/ /\ m \in Range(levels[side])
         /\ side # order[maker].side \/ m.price # order[maker].price
  OBVIOUS
<1>6. CASE side = order[maker].side /\ m = ll
  <2>1. maker \in P  BY <1>6 DEF AtPlace
  <2>2. Left(order', P) = Left(order, P) - fill
    <3> HIDE DEF P
    <3>1. \A t \in P : order[t].qty \in Nat /\ order'[t].qty \in Nat
      BY <1>3, <1>4
    <3>2. \A t \in P \ {maker} : order[t].qty = order'[t].qty  BY <1>3
    <3>3. Left(order', P) = Left(order, P) - order[maker].qty + order'[maker].qty
      BY <1>3, <2>1, <3>1, <3>2, LeftChange
    <3> QED  BY <1>3, <1>4, <3>3
  <2>3. l.total_qty = Left(order, P) % QtyModulus
    BY <1>6, RemainingLeft DEF Totals
  <2> DEFINE X == Left(order, P)
  <2>4. X \in Int /\ -fill \in Int /\ QtyModulus \in Nat \ {0}  BY <1>3, ModulusAssumption
  <2>5. ((X % QtyModulus) + (-fill)) % QtyModulus = (X + (-fill)) % QtyModulus
    <3> HIDE DEF X
    <3> QED  BY <2>4, ModPlus
  <2>6. (X % QtyModulus) + (-fill) = l.total_qty - fill /\ X + (-fill) = Left(order, P) - fill
    <3>1. X % QtyModulus \in Int  BY <2>4, ModBound
    <3> QED  BY <2>3, <2>4, <3>1
  <2> QED  BY <1>2, <1>6, <2>2, <2>5, <2>6
<1>7. CASE m \in Range(levels[side])
           /\ (side # order[maker].side \/ m.price # order[maker].price)
  <2>1. maker \notin P  BY <1>7, PlaceFacts
  <2>2. Left(order', P) = Left(order, P)
    <3>1. \A t \in P : order'[t].qty = order[t].qty  BY <1>3, <2>1
    <3> HIDE DEF P
    <3> QED  BY <1>3, <3>1, LeftSame
  <2> QED  BY <1>2, <1>7, <2>2, RemainingLeft DEF Totals
<1> QED  BY <1>5, <1>6, <1>7

-----------------------------------------------------------------------------
(* The fill-or-kill scan.                                                  *)

\* The levels the scan adds up, and what it arrives at.
Reach(lvs, side, price) ==
    {i \in DOMAIN lvs : \A j \in i..Len(lvs) : PriceCrosses(side, price, lvs[j].price)}

Scan(lvs, side, price) == SumFunction([i \in Reach(lvs, side, price) |-> lvs[i].total_qty])

\* The look-ahead of a fill-or-kill order, as one sum over levels.
LEMMA FillableIs ==
    ASSUME NEW side, NEW price, NEW qty
    PROVE  Fillable(side, price, qty) <=> Scan(levels[Opposite(side)], side, price) >= qty
  BY DEF Fillable, Scan, Reach

\* The scan as a sum of any function that gives the totals.
LEMMA ScanIs ==
    ASSUME NEW lvs \in Seq(Level), NEW side, NEW price,
           NEW w, \A i \in Reach(lvs, side, price) : w[i] = lvs[i].total_qty
    PROVE  /\ IsFiniteSet(Reach(lvs, side, price))
           /\ \A i \in Reach(lvs, side, price) : i \in DOMAIN lvs /\ w[i] \in Nat
           /\ Scan(lvs, side, price) = SumFunctionOnSet(w, Reach(lvs, side, price))
           /\ Scan(lvs, side, price) \in Nat
<1> DEFINE R == Reach(lvs, side, price)
<1>1. Len(lvs) \in Nat /\ DOMAIN lvs = 1..Len(lvs) /\ \A i \in DOMAIN lvs : lvs[i] \in Level
  BY LevelSeq
<1>2. IsFiniteSet(R)
  <2>1. R \subseteq 1..Len(lvs)  BY <1>1 DEF Reach
  <2>2. IsFiniteSet(1..Len(lvs))  BY <1>1, FS_Interval
  <2> QED  BY <2>1, <2>2, FS_Subset
<1>3. ASSUME NEW i \in R PROVE i \in DOMAIN lvs /\ w[i] \in Nat
  <2>1. i \in DOMAIN lvs  BY DEF Reach
  <2>2. lvs[i].total_qty \in 0..QtyModulus - 1  BY <1>1, <2>1 DEF Level
  <2> QED  BY <2>1, <2>2, ModulusAssumption
<1>4. PICK v : v = [i \in R |-> lvs[i].total_qty]  OBVIOUS
<1>5. DOMAIN v = R /\ \A i \in R : v[i] = w[i]  BY <1>4
<1>6. Scan(lvs, side, price) = SumFunctionOnSet(v, R)  BY <1>4, <1>5 DEF Scan, SumFunction
<1>7. Scan(lvs, side, price) = SumFunctionOnSet(w, R)
  <2> HIDE DEF R
  <2> QED  BY <1>2, <1>5, <1>6, SumAgree
<1>8. SumFunctionOnSet(w, R) \in Nat  BY <1>2, <1>3, SumNat
<1> QED  BY <1>2, <1>3, <1>7, <1>8

\* That sum is a natural number.
LEMMA ScanNat ==
    ASSUME NEW lvs \in Seq(Level), NEW side, NEW price
    PROVE  Scan(lvs, side, price) \in Nat
<1>1. PICK w : w = [i \in DOMAIN lvs |-> lvs[i].total_qty]  OBVIOUS
<1>2. \A i \in Reach(lvs, side, price) : w[i] = lvs[i].total_qty  BY <1>1 DEF Reach
<1> QED  BY <1>2, ScanIs

\* match() takes what it fills from the best level: what the scan would arrive at drops
\* by no more than the fill, also when an emptied level goes.
LEMMA ScanTake ==
    ASSUME NEW lvs \in Seq(Level), lvs # <<>>, NEW side, NEW price,
           PriceCrosses(side, price, lvs[Len(lvs)].price),
           NEW ll \in Level, ll.price = lvs[Len(lvs)].price, NEW fill \in Nat,
           ll.total_qty = (lvs[Len(lvs)].total_qty - fill) % QtyModulus,
           ll.head = NULL => lvs[Len(lvs)].total_qty <= fill
    PROVE  /\ StoreLevel(lvs, Len(lvs), ll) \in Seq(Level)
           /\ Scan(StoreLevel(lvs, Len(lvs), ll), side, price) >= Scan(lvs, side, price) - fill
<1>1. Len(lvs) \in Nat /\ DOMAIN lvs = 1..Len(lvs) /\ \A i \in DOMAIN lvs : lvs[i] \in Level
  BY LevelSeq
<1>2. PICK n \in Nat \ {0} : n = Len(lvs) /\ n \in DOMAIN lvs
  <2>1. Len(lvs) # 0  OBVIOUS
  <2>2. Len(lvs) \in Nat \ {0} /\ Len(lvs) \in DOMAIN lvs  BY <1>1, <2>1
  <2> QED  BY <2>2
<1>3. PICK R : R = Reach(lvs, side, price)  OBVIOUS
<1>4. n \in R  BY <1>1, <1>2, <1>3 DEF Reach
<1>5. PICK w : w = [i \in 1..n |-> lvs[i].total_qty]  OBVIOUS
<1>6. \A i \in 1..n : w[i] = lvs[i].total_qty /\ w[i] \in Nat /\ w[i] < QtyModulus
  <2> SUFFICES ASSUME NEW i \in 1..n
               PROVE  w[i] = lvs[i].total_qty /\ w[i] \in Nat /\ w[i] < QtyModulus
    OBVIOUS
  <2>1. lvs[i].total_qty \in 0..QtyModulus - 1  BY <1>1, <1>2 DEF Level
  <2> QED  BY <1>5, <2>1, ModulusAssumption
<1>7. R \subseteq 1..n  BY <1>1, <1>2, <1>3 DEF Reach
<1>8. IsFiniteSet(R) /\ Scan(lvs, side, price) = SumFunctionOnSet(w, R)
  BY <1>3, <1>6, <1>7, ScanIs
<1>9. CASE ll.head = NULL
  <2>1. PICK r : r = RemoveAt(lvs, n)  OBVIOUS
  <2>2. r \in Seq(Level) /\ Len(r) = n - 1 /\ \A j \in 1..n - 1 : r[j] = lvs[j]
    <3> DEFINE a == SubSeq(lvs, 1, n - 1)
               b == SubSeq(lvs, n + 1, n)
    <3>1. r = a \o b  BY <1>2, <2>1 DEF RemoveAt
    <3>2. a \in Seq(Level) /\ Len(a) = n - 1 /\ \A j \in 1..n - 1 : a[j] = lvs[j]
      BY <1>1, <1>2, SubSeqProperties
    <3>3. b = <<>>  BY <1>1, <1>2
    <3>4. a \o <<>> = a  BY <3>2, ConcatEmptySeq
    <3> QED  BY <3>1, <3>2, <3>3, <3>4
  <2>3. Reach(r, side, price) = R \ {n}
    <3>1. DOMAIN r = 1..n - 1  BY <1>2, <2>2
    <3>2. ASSUME NEW i \in 1..n - 1
          PROVE  (\A j \in i..n - 1 : PriceCrosses(side, price, lvs[j].price))
                   <=> (\A j \in i..n : PriceCrosses(side, price, lvs[j].price))
      <4>1. \A j \in i..n : j \in i..n - 1 \/ j = n  BY <1>2
      <4>2. \A j \in i..n - 1 : j \in i..n  BY <1>2
      <4> QED  BY <1>2, <4>1, <4>2
    <3>3. \A i \in 1..n - 1 : (\A j \in i..n - 1 : PriceCrosses(side, price, r[j].price))
                   <=> (\A j \in i..n - 1 : PriceCrosses(side, price, lvs[j].price))
      BY <1>2, <2>2, SMTT(60)
    <3>4. \A i : i \in Reach(r, side, price) <=> i \in 1..n - 1
                   /\ \A j \in i..n - 1 : PriceCrosses(side, price, r[j].price)
      BY <2>2, <3>1 DEF Reach
    <3>5. \A i : i \in R <=> i \in 1..n /\ \A j \in i..n : PriceCrosses(side, price, lvs[j].price)
      BY <1>1, <1>2, <1>3 DEF Reach
    <3>6. \A i : i \in 1..n - 1 <=> i \in 1..n /\ i # n  BY <1>2
    <3> QED  BY <3>2, <3>3, <3>4, <3>5, <3>6
  <2>4. \A i \in R \ {n} : w[i] = r[i].total_qty
    BY <1>2, <1>6, <1>7, <2>2, SMTT(60)
  <2>5. Scan(r, side, price) = SumFunctionOnSet(w, R \ {n}) /\ Scan(r, side, price) \in Nat
    BY <2>2, <2>3, <2>4, ScanIs
  <2>6. SumFunctionOnSet(w, R) = w[n] + SumFunctionOnSet(w, R \ {n})
    <3>1. \A i \in R : w[i] \in Int  BY <1>6, <1>7
    <3>2. IsFiniteSet(R)  BY <1>8
    <3> QED  BY <1>4, <3>1, <3>2, SumRemove, ZenonT(60)
  <2>7. w[n] <= fill /\ w[n] \in Nat  BY <1>2, <1>6, <1>9
  <2>8. StoreLevel(lvs, n, ll) = r  BY <1>9, <2>1 DEF StoreLevel
  <2> QED  BY <1>2, <1>8, <2>2, <2>5, <2>6, <2>7, <2>8
<1>10. CASE ll.head # NULL
  <2>1. PICK r : r = ReplaceAt(lvs, n, ll)  OBVIOUS
  <2>2. /\ r \in Seq(Level) /\ Len(r) = n /\ DOMAIN r = 1..n /\ r[n] = ll
        /\ \A j \in 1..n : j # n => r[j] = lvs[j]
    BY <1>1, <1>2, <2>1, ExceptSeq, ZenonT(60) DEF ReplaceAt
  <2>3. \A j \in 1..n : r[j].price = lvs[j].price  BY <1>2, <2>2
  <2>4. Reach(r, side, price) = R
    <3>1. \A i \in 1..n : \A j \in i..n : j \in 1..n  BY <1>2
    <3>2. \A i : i \in Reach(r, side, price) <=> i \in 1..n
                   /\ \A j \in i..n : PriceCrosses(side, price, r[j].price)
      BY <2>2 DEF Reach
    <3>3. \A i : i \in R <=> i \in 1..n /\ \A j \in i..n : PriceCrosses(side, price, lvs[j].price)
      BY <1>1, <1>2, <1>3 DEF Reach
    <3> QED  BY <2>3, <3>1, <3>2, <3>3
  <2>5. PICK v : v = [i \in 1..n |-> r[i].total_qty]  OBVIOUS
  <2>6. \A i \in 1..n : v[i] = r[i].total_qty  BY <2>5
  <2>7. /\ \A i \in R : v[i] \in Nat
        /\ Scan(r, side, price) = SumFunctionOnSet(v, R) /\ Scan(r, side, price) \in Nat
    <3>1. \A i \in R : v[i] = r[i].total_qty  BY <1>7, <2>6
    <3> QED  BY <2>2, <2>4, <3>1, ScanIs
  <2>8. SumFunctionOnSet(v, R) = SumFunctionOnSet(w, R) - w[n] + v[n]
    <3>1. \A i \in R : v[i] \in Int /\ w[i] \in Int  BY <1>6, <1>7, <2>7
    <3>2. \A i \in R \ {n} : v[i] = w[i]  BY <1>6, <1>7, <2>2, <2>6
    <3> QED  BY <1>4, <1>8, <3>1, <3>2, SumChange
  <2>9. v[n] >= w[n] - fill /\ v[n] \in Nat /\ w[n] \in Nat
    <3>1. v[n] = (w[n] - fill) % QtyModulus  BY <1>2, <1>6, <2>2, <2>6
    <3>2. w[n] \in Nat /\ w[n] < QtyModulus /\ v[n] \in Nat  BY <1>2, <1>4, <1>6, <2>7
    <3>3. CASE w[n] >= fill
      <4>1. PICK d \in 0..QtyModulus - 1 : d = w[n] - fill  BY <3>2, <3>3, ModulusAssumption
      <4>2. (QtyModulus * 0 + d) % QtyModulus = d  BY ModUnique, ModulusAssumption
      <4>3. QtyModulus * 0 + d = d  BY ModulusAssumption
      <4> QED  BY <3>1, <3>2, <4>1, <4>2, <4>3
    <3>4. CASE w[n] < fill  BY <3>2, <3>4
    <3> QED  BY <3>2, <3>3, <3>4
  <2>10. SumFunctionOnSet(w, R) \in Int
    <3>1. \A i \in R : w[i] \in Int  BY <1>6, <1>7
    <3> QED  BY <1>8, <3>1, SumInt
  <2>11. StoreLevel(lvs, n, ll) = r  BY <1>10, <2>1 DEF StoreLevel
  <2> QED  BY <1>2, <1>8, <2>2, <2>7, <2>8, <2>9, <2>10, <2>11
<1> QED  BY <1>9, <1>10

-----------------------------------------------------------------------------
(* The second invariant: totals, the orders that wait, and the promise of  *)
(* the fill-or-kill scan.                                                  *)

\* While a fill-or-kill order is matched, the scan, run again with what is left of the
\* order, would let it in again.
FokPromise ==
    taker # NULL /\ order[taker].type = "fok" =>
        Fillable(order[taker].side, order[taker].price, order[taker].qty)

TInv == IInv /\ Totals /\ RestingOrders /\ FokPromise

\* The empty book: all totals are right.
LEMMA InitTotals == Init => TInv
<1> SUFFICES ASSUME Init PROVE TInv  OBVIOUS
<1>1. IInv  BY InitInvariant
<1>2. \A side \in Side : Range(levels[side]) = {}  BY DEF Init, Range
<1>3. Totals  BY <1>2 DEF Totals
<1>4. Resting = {}  BY DEF Init, Resting
<1>5. taker = NULL  BY DEF Init
<1> QED  BY <1>1, <1>3, <1>4, <1>5 DEF TInv, RestingOrders, FokPromise

\* A call that changes nothing of the book keeps the totals.
LEMMA QuietTotals ==
    ASSUME TInv, UNCHANGED <<order, prev, next, free, levels, index, taker>>
    PROVE  TInv'
<1>1. IInv'  BY QuietStep DEF TInv
<1>2. Resting' = Resting  BY DEF Resting
<1>3. Totals' /\ RestingOrders'  BY <1>2, SameTotals DEF TInv, IInv
<1>4. FokPromise'  BY DEF TInv, FokPromise, Fillable
<1> QED  BY <1>1, <1>3, <1>4 DEF TInv

\* So does admitting a taker, which gives a fill-or-kill its promise.
LEMMA AdmitTotals ==
    ASSUME TInv, taker = NULL,
           NEW id \in Ids, NEW side \in Side, NEW type \in OrderType,
           NEW price \in Prices, NEW qty \in Quantities,
           index[id] = NULL \/ AllowDuplicateIds,
           SubmitAdmitted(id, side, type, price, qty)
    PROVE  TInv'
<1>1. /\ IInv' /\ Resting' = Resting /\ levels' = levels
      /\ \A t \in Resting : order'[t] = order[t]
      /\ order'[taker'] =
           [id |-> id, side |-> side, type |-> type, price |-> price, qty |-> qty]
  BY AdmitStep DEF TInv
<1>2. Totals' /\ RestingOrders'  BY <1>1, SameTotals DEF TInv, IInv
<1>3. type = "fok" => Fillable(side, price, qty)  BY DEF SubmitAdmitted
<1>4. /\ order'[taker'].type = type /\ order'[taker'].side = side
      /\ order'[taker'].price = price /\ order'[taker'].qty = qty
  BY <1>1
<1>5. FokPromise'
  <2> SUFFICES ASSUME type = "fok"
               PROVE  Scan(levels'[Opposite(side)], side, price) >= qty
    BY <1>4, FillableIs DEF FokPromise, Fillable, Scan, Reach
  <2> QED  BY <1>1, <1>3, FillableIs
<1> QED  BY <1>1, <1>2, <1>5 DEF TInv

\* A level that loses its last order held no more than that order.
LEMMA LastOrderTotal ==
    ASSUME IInv, Totals, NEW s \in Resting, prev[s] = NULL, next[s] = NULL,
           NEW l \in Range(levels[order[s].side]), l.price = order[s].price
    PROVE  l.total_qty = order[s].qty
<1> USE DEF IInv
<1> DEFINE P == AtPlace(order[s].side, l.price)
<1>1. order[s].side \in Side /\ order[s].qty \in 0..QtyModulus - 1
  BY LiveOrder DEF Resting
<1>2. P = {s}
  <2>1. s \in P  BY DEF AtPlace
  <2>2. ASSUME NEW t \in P PROVE t = s
    <3>1. t \in Resting /\ SamePlace(s, t)  BY PlaceFacts DEF SamePlace
    <3> QED  BY <3>1, LoneOrder
  <2> QED  BY <2>1, <2>2
<1>3. Left(order, P) = order[s].qty
  <2>1. IsFiniteSet(P) /\ \A t \in P : order[t].qty \in Nat  BY PlaceQuantities
  <2>2. s \in P /\ P \ {s} = {}  BY <1>2
  <2> HIDE DEF P
  <2>3. Left(order, P) = order[s].qty + Left(order, P \ {s})  BY <2>1, <2>2, LeftRemove
  <2> QED  BY <2>1, <2>2, <2>3, LeftEmpty
<1>4. l.total_qty = order[s].qty % QtyModulus
  BY <1>1, <1>3, RemainingLeft DEF Totals
<1>5. PICK q \in 0..QtyModulus - 1 : q = order[s].qty  BY <1>1
<1>6. (QtyModulus * 0 + q) % QtyModulus = q /\ QtyModulus * 0 + q = q
  BY ModUnique, ModulusAssumption
<1> QED  BY <1>4, <1>5, <1>6

\* A fill that uses up the maker takes the same from level and taker.
LEMMA FillMakerTotals ==
    ASSUME TInv, taker # NULL, CanMatch, NEW maker \in Slots, maker = Best.head,
           FillMaker(maker)
    PROVE  TInv'
<1> DEFINE side == Opposite(order[taker].side)
           lvs == levels[side]
           fill == order[maker].qty
           ll == PopHead(Take(Best, fill))
<1>1. /\ IInv' /\ Unlinked(maker, Best, ll) /\ ll \in Level
      /\ ll.total_qty = (Best.total_qty - order[maker].qty) % QtyModulus
      /\ maker # taker /\ order'[taker] = [order[taker] EXCEPT !.qty = @ - order[maker].qty]
      /\ \A t \in Slots \ {maker, taker} : order'[t] = order[t]
  BY FillMakerStep DEF TInv
<1>2. /\ maker \in Resting /\ Best \in Range(levels[order[maker].side])
      /\ Best.price = order[maker].price /\ ll.price = Best.price
      /\ Resting' = Resting \ {maker}
      /\ ll.head = IF prev[maker] = NULL THEN next[maker] ELSE Best.head
  BY <1>1 DEF Unlinked
<1>3. \A t \in Resting \ {maker} : order'[t] = order[t]  BY <1>1 DEF Resting
<1>4. Totals'
  <2>1. \A t \in Resting \ {maker} : order'[t].qty = order[t].qty  BY <1>3
  <2> HIDE DEF ll
  <2> QED  BY <1>1, <2>1, UnlinkTotals DEF TInv
<1>5. RestingOrders'  BY <1>2, <1>3 DEF TInv, RestingOrders
<1>6. FokPromise'
  <2>1. taker \in Slots /\ order[taker] \in Order /\ order[taker].side \in Side
    BY LiveOrder DEF TInv, IInv, TypeOK, TakerLive
  <2>2. side \in Side  BY DEF Side, Opposite
  <2>3. taker' = taker /\ levels'[side] = StoreLevel(lvs, Len(lvs), ll)
    BY <2>2 DEF FillMaker, TInv, IInv, TypeOK
  <2>4. lvs \in Seq(Level) /\ lvs # <<>> /\ Best = lvs[Len(lvs)]
    BY <2>2 DEF CanMatch, Opposing, Best, Last, TInv, IInv, TypeOK
  <2>5. /\ order'[taker].type = order[taker].type /\ order'[taker].side = order[taker].side
        /\ order'[taker].price = order[taker].price
        /\ order'[taker].qty = order[taker].qty - fill
    BY <1>1, <2>1 DEF Order
  <2>6. fill \in Nat /\ order[taker].qty \in Nat
    <3>1. fill \in 0..QtyModulus - 1 /\ order[taker].qty \in 0..QtyModulus - 1
      BY <1>2, <2>1, LiveOrder DEF Resting, TInv, IInv, Order
    <3> QED  BY <3>1, ModulusAssumption
  <2> SUFFICES ASSUME order[taker].type = "fok"
               PROVE  Scan(levels'[side], order[taker].side, order[taker].price)
                        >= order[taker].qty - fill
    BY <2>3, <2>5 DEF FokPromise, Fillable, Scan, Reach
  <2>7. PriceCrosses(order[taker].side, order[taker].price, lvs[Len(lvs)].price)
    BY <2>4 DEF CanMatch
  <2>8. Scan(lvs, order[taker].side, order[taker].price) >= order[taker].qty
    BY FillableIs DEF TInv, FokPromise
  <2>9. ll.head = NULL => lvs[Len(lvs)].total_qty <= fill
    <3> SUFFICES ASSUME ll.head = NULL PROVE Best.total_qty <= fill  BY <2>4
    <3>1. prev[maker] = NULL
      BY <1>2, NullAssumption, LiveOrder DEF TInv, IInv, Linked, Ends, Resting
    <3>2. next[maker] = NULL  BY <1>2, <3>1
    <3>3. Best.total_qty = order[maker].qty  BY <1>2, <3>1, <3>2, LastOrderTotal DEF TInv
    <3> QED  BY <2>6, <3>3
  <2>10. ll.price = lvs[Len(lvs)].price
         /\ ll.total_qty = (lvs[Len(lvs)].total_qty - fill) % QtyModulus
    BY <1>1, <1>2, <2>4
  <2>11. Scan(StoreLevel(lvs, Len(lvs), ll), order[taker].side, order[taker].price)
           >= Scan(lvs, order[taker].side, order[taker].price) - fill
    <3> HIDE DEF ll, lvs, fill
    <3> QED  BY <1>1, <2>4, <2>6, <2>7, <2>9, <2>10, ScanTake
  <2>12. /\ Scan(lvs, order[taker].side, order[taker].price) \in Nat
         /\ Scan(StoreLevel(lvs, Len(lvs), ll), order[taker].side, order[taker].price) \in Nat
    <3>1. StoreLevel(lvs, Len(lvs), ll) \in Seq(Level)
      <4> HIDE DEF ll, lvs, fill
      <4> QED  BY <1>1, <2>4, <2>6, <2>7, <2>9, <2>10, ScanTake
    <3> QED  BY <2>4, <3>1, ScanNat
  <2> HIDE DEF ll, lvs, fill
  <2> QED  BY <2>3, <2>6, <2>8, <2>11, <2>12
<1> QED  BY <1>1, <1>4, <1>5, <1>6 DEF TInv

\* So does a fill that leaves something of the maker.
LEMMA FillPartialTotals ==
    ASSUME TInv, taker # NULL, CanMatch, NEW maker \in Slots, maker = Best.head,
           FillPartial(maker)
    PROVE  TInv'
<1> DEFINE side == Opposite(order[taker].side)
           fill == order[taker].qty
           ll == Take(Best, fill)
<1>1. /\ IInv'
      /\ Best \in Range(levels[side]) /\ ll \in Level /\ ll.price = Best.price
      /\ ll.total_qty = (Best.total_qty - fill) % QtyModulus
      /\ \A sd \in Side : Range(levels'[sd]) =
            IF sd = side THEN {m \in Range(levels[sd]) : m.price # Best.price} \cup {ll}
            ELSE Range(levels[sd])
      /\ maker \in Resting /\ Resting' = Resting
      /\ order'[taker] = [order[taker] EXCEPT !.qty = 0]
      /\ order'[maker] = [order[maker] EXCEPT !.qty = @ - fill]
      /\ \A t \in Slots \ {maker, taker} : order'[t] = order[t]
  BY FillPartialStep DEF TInv
<1>2. /\ taker \in Slots /\ order[taker] \in Order /\ order[taker].side \in Side
      /\ order[taker].qty \in 0..QtyModulus - 1
  BY LiveOrder DEF TInv, IInv, TypeOK, TakerLive
<1>3. side \in Side  BY DEF Side, Opposite
<1>4. order[maker] \in Order /\ order[maker].qty \in 0..QtyModulus - 1
  BY <1>1, LiveOrder DEF Resting, TInv, IInv
<1>5. order[maker].side = side /\ order[maker].price = Best.price
  BY <1>1, <1>3 DEF TInv, IInv, Linked, Ends
<1>6. /\ order'[maker].side = order[maker].side /\ order'[maker].price = order[maker].price
      /\ order'[maker].type = order[maker].type
      /\ order'[maker].qty = order[maker].qty - fill
  BY <1>1, <1>4 DEF Order
<1>7. fill \in Nat /\ fill < order[maker].qty /\ order[maker].qty \in Nat
  BY <1>2, <1>4, ModulusAssumption DEF FillPartial
<1>8. \A t \in Resting \ {maker} : order'[t] = order[t]  BY <1>1 DEF Resting
<1>9. Totals'
  <2>1. Best \in Range(levels[order[maker].side]) /\ fill <= order[maker].qty
    BY <1>1, <1>5, <1>7
  <2>2. \A sd \in Side : Range(levels'[sd]) =
            IF sd = order[maker].side
            THEN {m \in Range(levels[sd]) : m.price # Best.price} \cup {ll}
            ELSE Range(levels[sd])
    BY <1>1, <1>5
  <2>3. IInv /\ Totals  BY DEF TInv
  <2>4. /\ maker \in Resting /\ Resting' = Resting /\ Best.price = order[maker].price
        /\ ll.price = Best.price /\ ll.total_qty = (Best.total_qty - fill) % QtyModulus
    BY <1>1, <1>5
  <2> HIDE DEF ll, fill, side
  <2> QED  BY <1>6, <1>7, <1>8, <2>1, <2>2, <2>3, <2>4, PartialTotals, ZenonT(60)
<1>10. RestingOrders'
  <2>1. \A t \in Resting : order[t].type = "limit" /\ order[t].qty > 0
    BY DEF TInv, RestingOrders
  <2>2. order'[maker].type = "limit" /\ order'[maker].qty > 0  BY <1>1, <1>6, <1>7, <2>1
  <2> QED  BY <1>1, <1>8, <2>1, <2>2 DEF RestingOrders
<1>11. FokPromise'
  <2>1. taker' = taker  BY DEF FillPartial
  <2>2. /\ order'[taker].side = order[taker].side /\ order'[taker].price = order[taker].price
        /\ order'[taker].qty = 0
    BY <1>1, <1>2 DEF Order
  <2>3. levels'[side] \in Seq(Level)  BY <1>1, <1>3 DEF IInv, TypeOK
  <2>4. Scan(levels'[side], order[taker].side, order[taker].price) \in Nat
    BY <2>3, ScanNat
  <2>5. Scan(levels'[side], order[taker].side, order[taker].price) >= 0  BY <2>4
  <2> QED  BY <2>1, <2>2, <2>5 DEF FokPromise, Fillable, Scan, Reach
<1> QED  BY <1>1, <1>9, <1>10, <1>11 DEF TInv

\* The remainder that rests is added to its level.
LEMMA RestTotals ==
    ASSUME TInv, taker # NULL, ~CanMatch, Rest, taker' = NULL
    PROVE  TInv'
<1>1. PICK tl, l, ll :
        /\ Appended(taker, tl, ll)
        /\ ll.total_qty = (l.total_qty + order[taker].qty) % QtyModulus
        /\ l.price = order[taker].price
        /\ \/ l \in Range(levels[order[taker].side])
           \/ /\ l.total_qty = 0
              /\ \A m \in Range(levels[order[taker].side]) : m.price # l.price
  BY RestStep, Zenon DEF TInv
<1>2. IInv'  BY RestStep DEF TInv
<1>3. order' = order /\ order[taker].type = "limit" /\ order[taker].qty > 0  BY DEF Rest
<1>4. Totals'  BY <1>1, <1>3, AppendTotals DEF TInv
<1>5. Resting' = Resting \cup {taker}  BY <1>1 DEF Appended
<1>6. RestingOrders'  BY <1>3, <1>5 DEF TInv, RestingOrders
<1>7. FokPromise'  BY DEF FokPromise
<1> QED  BY <1>2, <1>4, <1>6, <1>7 DEF TInv

\* A remainder that is dropped was in no level.
LEMMA DiscardTotals ==
    ASSUME TInv, taker # NULL, Discard, taker' = NULL
    PROVE  TInv'
<1>1. /\ IInv' /\ Resting' = Resting /\ levels' = levels
      /\ \A t \in Resting : order'[t] = order[t]
  BY DiscardStep DEF TInv
<1>2. Totals' /\ RestingOrders'  BY <1>1, SameTotals DEF TInv, IInv
<1>3. FokPromise'  BY DEF FokPromise
<1> QED  BY <1>1, <1>2, <1>3 DEF TInv

\* A cancelled order's remainder leaves its level.
LEMMA CancelTotals ==
    ASSUME TInv, NEW id \in Ids, taker = NULL, CancelHit(id)
    PROVE  TInv'
<1> DEFINE s == index[id]
<1>1. IInv'  BY CancelHitStep DEF TInv
<1>2. PICK l, ll : /\ Unlinked(s, l, ll)
                   /\ ll.total_qty = (l.total_qty - order[s].qty) % QtyModulus
  BY CancelHitStep DEF TInv
<1>3. Resting' = Resting \ {s} /\ s \in Slots  BY <1>2 DEF Unlinked, Resting
<1>4. \A t \in Resting \ {s} : order'[t] = order[t]
  BY <1>3 DEF CancelHit, Release, TInv, IInv, TypeOK, Resting
<1>5. Totals'
  <2>1. \A t \in Resting \ {s} : order'[t].qty = order[t].qty  BY <1>4
  <2> HIDE DEF s
  <2> QED  BY <1>2, <2>1, UnlinkTotals DEF TInv
<1>6. RestingOrders'  BY <1>3, <1>4 DEF TInv, RestingOrders
<1>7. FokPromise'  BY DEF FokPromise, CancelHit
<1> QED  BY <1>1, <1>5, <1>6, <1>7 DEF TInv

\* Submission, matching callback by callback, resting and cancelling keep the totals exact
\* in the width of Quantity, and keep what the scan promised a fill-or-kill order.
THEOREM TotalsInvariant == Spec => []TInv
<1>1. Init => TInv  BY InitTotals
<1>2. TInv /\ [Next]_vars => TInv'
  <2> SUFFICES ASSUME TInv, [Next]_vars PROVE TInv'  OBVIOUS
  <2>1. ASSUME NEW id \in Ids, NEW side \in Side, NEW type \in OrderType,
               NEW price \in Prices, NEW qty \in Quantities,
               Submit(id, side, type, price, qty)
        PROVE  TInv'
    <3>1. CASE SubmitNothing  BY <3>1, QuietTotals DEF SubmitNothing
    <3>2. CASE SubmitExhausted  BY <3>2, QuietTotals DEF SubmitExhausted
    <3>3. CASE SubmitKilled(side, type, price, qty)  BY <3>3, QuietTotals DEF SubmitKilled
    <3>4. CASE SubmitAdmitted(id, side, type, price, qty)
      BY <2>1, <3>4, AdmitTotals DEF Submit
    <3> QED  BY <2>1, <3>1, <3>2, <3>3, <3>4 DEF Submit
  <2>2. CASE Match
    <3>1. PICK maker \in Slots : maker = Best.head /\ (FillPartial(maker) \/ FillMaker(maker))
      BY <2>2 DEF Match
    <3>2. taker # NULL /\ CanMatch  BY <2>2 DEF Match
    <3>3. CASE FillPartial(maker)  BY <3>1, <3>2, <3>3, FillPartialTotals
    <3>4. CASE FillMaker(maker)  BY <3>1, <3>2, <3>4, FillMakerTotals
    <3> QED  BY <3>1, <3>3, <3>4
  <2>3. CASE Finish
    <3>1. taker # NULL /\ ~CanMatch /\ taker' = NULL  BY <2>3 DEF Finish
    <3>2. CASE Rest  BY <3>1, <3>2, RestTotals
    <3>3. CASE Discard  BY <3>1, <3>3, DiscardTotals
    <3> QED  BY <2>3, <3>2, <3>3 DEF Finish
  <2>4. ASSUME NEW id \in Ids, Cancel(id) PROVE TInv'
    <3>1. CASE CancelMiss(id)  BY <3>1, QuietTotals DEF CancelMiss
    <3>2. CASE CancelHit(id)  BY <2>4, <3>2, CancelTotals DEF Cancel
    <3> QED  BY <2>4, <3>1, <3>2 DEF Cancel
  <2>5. CASE UNCHANGED vars  BY <2>5, QuietTotals DEF vars
  <2> QED  BY <2>1, <2>2, <2>3, <2>4, <2>5 DEF Next
<1> QED  BY <1>1, <1>2, PTL DEF Spec

\* Every level the book shows is its list: non-empty, linked back as it is linked forth,
\* of live limit orders of its side and price, with the sum of what they have left.
THEOREM LevelsExact == Spec => []LevelsWellFormed
<1>1. TInv => LevelsWellFormed
  <2> SUFFICES ASSUME TInv, NEW side \in Side, NEW i \in DOMAIN levels[side]
               PROVE  LevelWellFormed(side, levels[side][i])
    BY DEF LevelsWellFormed
  <2>1. PICK l \in Range(levels[side]) : l = levels[side][i]  BY DEF Range
  <2>2. PICK c : c = ChainFrom(l.head)  OBVIOUS
  <2>3. /\ c # <<>> /\ Last(c) = l.tail /\ next[l.tail] = NULL
        /\ \A k \in DOMAIN c : prev[c[k]] = IF k = 1 THEN NULL ELSE c[k - 1]
        /\ Range(c) = AtPlace(side, l.price)
    BY <2>2, LevelChain DEF TInv
  <2>4. ASSUME NEW k \in DOMAIN c
        PROVE  /\ order[c[k]] # NULL /\ order[c[k]].side = side
               /\ order[c[k]].price = l.price
               /\ order[c[k]].type = "limit" /\ order[c[k]].qty > 0
    <3>1. c[k] \in AtPlace(side, l.price)  BY <2>3 DEF Range
    <3> QED  BY <3>1, PlaceFacts DEF TInv, RestingOrders
  <2>5. l.total_qty = Remaining(Range(c)) % QtyModulus  BY <2>3 DEF TInv, Totals
  <2> QED  BY <2>1, <2>2, <2>3, <2>4, <2>5, Zenon DEF LevelWellFormed
<1> QED  BY <1>1, TotalsInvariant, PTL

\* When nothing is left to match, the scan of what is left finds nothing.
LEMMA FokFollows == TInv => FokAllOrNothing
<1> SUFFICES ASSUME TInv, taker # NULL, order[taker].type = "fok", ~CanMatch,
                    order[taker].qty # 0
             PROVE  FALSE
  BY DEF FokAllOrNothing
<1> DEFINE lvs == levels[Opposite(order[taker].side)]
<1>1. /\ order[taker].side \in Side /\ order[taker].qty \in 0..QtyModulus - 1
  BY LiveOrder DEF TInv, IInv, TypeOK, TakerLive
<1>2. lvs \in Seq(Level)  BY DEF TInv, IInv, TypeOK, Side, Opposite
<1>3. order[taker].qty > 0  BY <1>1, ModulusAssumption
<1>4. lvs = <<>> \/ ~PriceCrosses(order[taker].side, order[taker].price, lvs[Len(lvs)].price)
  BY <1>3 DEF CanMatch, Opposing, Best, Last
<1>5. Reach(lvs, order[taker].side, order[taker].price) = {}
  <2>1. \A i \in DOMAIN lvs : i \in 1..Len(lvs) /\ Len(lvs) \in i..Len(lvs) /\ lvs # <<>>
    BY <1>2
  <2> QED  BY <1>4, <2>1 DEF Reach
<1>6. Scan(lvs, order[taker].side, order[taker].price) = 0
  <2>1. PICK w : w = [i \in DOMAIN lvs |-> lvs[i].total_qty]  OBVIOUS
  <2> HIDE DEF lvs
  <2>2. \A i \in Reach(lvs, order[taker].side, order[taker].price) : w[i] = lvs[i].total_qty
    BY <1>5
  <2>3. Scan(lvs, order[taker].side, order[taker].price)
          = SumFunctionOnSet(w, Reach(lvs, order[taker].side, order[taker].price))
    BY <1>2, <2>2, ScanIs
  <2> QED  BY <1>5, <2>3, SumEmpty
<1>7. Scan(lvs, order[taker].side, order[taker].price) >= order[taker].qty
  BY FillableIs DEF TInv, FokPromise
<1> QED  BY <1>1, <1>3, <1>6, <1>7

\* A fill-or-kill order that the scan lets in is filled to the last unit, even where the
\* totals it reads have wrapped around.
THEOREM FokFills == Spec => []FokAllOrNothing
  BY FokFollows, TotalsInvariant, PTL

\* On a sorted vector the scan stops at the first level that does not cross, and misses
\* none that does.
LEMMA ReachCrosses ==
    ASSUME IInv, NEW side \in Side, NEW price \in Prices,
           NEW i \in DOMAIN levels[Opposite(side)],
           PriceCrosses(side, price, levels[Opposite(side)][i].price)
    PROVE  i \in Reach(levels[Opposite(side)], side, price)
<1>1. PICK opp \in Side : opp = Opposite(side)  BY DEF Side, Opposite
<1>2. PICK lvs \in Seq(Level) : lvs = levels[opp] /\ Sorted(opp, lvs)
  BY LevelFacts DEF IInv
<1>3. Len(lvs) \in Nat /\ DOMAIN lvs = 1..Len(lvs) /\ \A k \in DOMAIN lvs : lvs[k].price \in Int
  BY LevelSeq
<1>4. i \in 1..Len(lvs) /\ price \in Int  BY <1>1, <1>2, <1>3, PricesAssumption
<1>5. ASSUME NEW j \in i..Len(lvs) PROVE PriceCrosses(side, price, lvs[j].price)
  <2>1. CASE j = i  BY <1>1, <1>2, <2>1
  <2>2. CASE j # i
    <3>1. j \in DOMAIN lvs /\ i \in DOMAIN lvs /\ i < j  BY <1>3, <1>4, <2>2
    <3>2. LessForSide(opp, lvs[i].price, lvs[j].price)  BY <1>2, <3>1 DEF Sorted
    <3>3. lvs[i].price \in Int /\ lvs[j].price \in Int  BY <1>3, <3>1
    <3>4. PriceCrosses(side, price, lvs[i].price)  BY <1>1, <1>2
    <3> QED  BY <1>1, <1>4, <3>2, <3>3, <3>4 DEF Side, Opposite, LessForSide, PriceCrosses
  <2> QED  BY <2>1, <2>2
<1> QED  BY <1>1, <1>2, <1>3, <1>4, <1>5 DEF Reach

\* Without wrap-around the scan arrives at what the crossing orders have left.
LEMMA ScanExact ==
    ASSUME TInv, NEW side \in Side, NEW price \in Prices,
           \A p \in Prices : Remaining(AtPlace(Opposite(side), p)) < QtyModulus
    PROVE  Scan(levels[Opposite(side)], side, price)
             = Remaining({s \in Resting : /\ order[s].side = Opposite(side)
                                          /\ PriceCrosses(side, price, order[s].price)})
<1> USE DEF TInv, IInv
<1> DEFINE opp == Opposite(side)
           lvs == levels[opp]
           R == Reach(lvs, side, price)
           W == {s \in Resting : order[s].side = opp /\ PriceCrosses(side, price, order[s].price)}
<1>1. opp \in Side  BY DEF Side, Opposite
<1>2. lvs \in Seq(Level) /\ Sorted(opp, lvs)  BY <1>1, LevelFacts
<1>3. \A i \in R : /\ i \in DOMAIN lvs /\ lvs[i] \in Range(lvs) /\ lvs[i].price \in Prices
                   /\ PriceCrosses(side, price, lvs[i].price)
  <2> SUFFICES ASSUME NEW i \in R
               PROVE  /\ i \in DOMAIN lvs /\ lvs[i] \in Range(lvs) /\ lvs[i].price \in Prices
                      /\ PriceCrosses(side, price, lvs[i].price)
    OBVIOUS
  <2>1. i \in DOMAIN lvs /\ Len(lvs) \in Nat /\ DOMAIN lvs = 1..Len(lvs) /\ lvs[i].price \in Prices
    BY <1>2, LevelSeq DEF Reach
  <2>2. i \in i..Len(lvs)  BY <2>1
  <2> QED  BY <2>1, <2>2 DEF Reach, Range
<1>4. PICK P : P = [i \in R |-> AtPlace(opp, lvs[i].price)]  OBVIOUS
<1>5. PICK w : w = [i \in R |-> lvs[i].total_qty]  OBVIOUS
<1>6. PICK v : v = [s \in Slots |-> order[s].qty]  OBVIOUS
<1>7. \A i \in R : P[i] = AtPlace(opp, lvs[i].price) /\ w[i] = lvs[i].total_qty
  BY <1>4, <1>5
<1>8. Merged(P, R) = W
  <2>1. ASSUME NEW s \in Merged(P, R) PROVE s \in W
    <3>1. PICK i \in R : s \in AtPlace(opp, lvs[i].price)  BY <1>7 DEF Merged
    <3>2. s \in Resting /\ order[s].side = opp /\ order[s].price = lvs[i].price
      BY <3>1, PlaceFacts
    <3> QED  BY <1>3, <3>2
  <2>2. ASSUME NEW s \in W PROVE s \in Merged(P, R)
    <3>1. PICK i \in DOMAIN lvs : lvs[i].price = order[s].price
      BY DEF Linked, Covered, Range
    <3>2. i \in R  BY <3>1, ReachCrosses
    <3>3. s \in P[i]  BY <1>7, <3>1, <3>2 DEF AtPlace
    <3> QED  BY <3>2, <3>3 DEF Merged
  <2> QED  BY <2>1, <2>2
<1>9. IsFiniteSet(W)
  <2>1. IsFiniteSet(Slots)  BY FS_Interval, CapacityAssumption DEF Slots
  <2>2. W \subseteq Slots  BY DEF Resting
  <2> QED  BY <2>1, <2>2, FS_Subset
<1>10. \A s \in W : s \in Slots /\ v[s] = order[s].qty /\ v[s] \in Int
  <2> SUFFICES ASSUME NEW s \in W PROVE s \in Slots /\ v[s] = order[s].qty /\ v[s] \in Int
    OBVIOUS
  <2>1. s \in Slots /\ order[s] # NULL  BY DEF Resting
  <2>2. order[s].qty \in 0..QtyModulus - 1  BY <2>1, LiveOrder
  <2> QED  BY <1>6, <2>1, <2>2
<1>11. IsFiniteSet(R) /\ Scan(lvs, side, price) = SumFunctionOnSet(w, R)
  BY <1>2, <1>7, ScanIs
<1>12. ASSUME NEW i \in R, NEW j \in R, i # j PROVE P[i] \cap P[j] = {}
  <2> SUFFICES ASSUME NEW s \in AtPlace(opp, lvs[i].price), s \in AtPlace(opp, lvs[j].price)
               PROVE  FALSE
    BY <1>7
  <2>1. lvs[i].price = lvs[j].price  BY PlaceFacts
  <2> QED  BY <1>1, <1>2, <1>3, <1>12, <2>1, SortedUnique
<1>13. ASSUME NEW i \in R PROVE w[i] = SumFunctionOnSet(v, P[i])
  <2>1. PICK S : S = AtPlace(opp, lvs[i].price)  OBVIOUS
  <2>2. IsFiniteSet(S) /\ Left(order, S) \in Nat /\ S \subseteq Slots
    BY <2>1, PlaceQuantities, PlaceFacts
  <2>3. lvs[i].total_qty = Left(order, S) % QtyModulus
    BY <1>1, <1>3, <2>1, RemainingLeft DEF Totals
  <2>4. Left(order, S) < QtyModulus  BY <1>3, <2>1, RemainingLeft
  <2>5. lvs[i].total_qty = Left(order, S)
    <3>1. PICK q \in 0..QtyModulus - 1 : q = Left(order, S)  BY <2>2, <2>4, ModulusAssumption
    <3>2. (QtyModulus * 0 + q) % QtyModulus = q /\ QtyModulus * 0 + q = q
      BY ModUnique, ModulusAssumption
    <3> QED  BY <2>3, <3>1, <3>2
  <2>6. \A s \in S : v[s] = order[s].qty  BY <1>6, <2>2
  <2>7. Left(order, S) = SumFunctionOnSet(v, S)  BY <2>2, <2>6, LeftIs
  <2> QED  BY <1>7, <2>1, <2>5, <2>7
<1>14. SumFunctionOnSet(w, R) = SumFunctionOnSet(v, W)
  <2> HIDE DEF R, W, lvs, opp
  <2> QED  BY <1>8, <1>9, <1>10, <1>11, <1>12, <1>13, SumOfParts
<1>15. Left(order, W) = SumFunctionOnSet(v, W)
  <2> HIDE DEF W
  <2> QED  BY <1>9, <1>10, LeftIs
<1> QED  BY <1>11, <1>14, <1>15, RemainingLeft

\* The scan turns a fill-or-kill order away only for want of orders, or where what waits
\* at some price does not fit the width of Quantity.
THEOREM FokKills == Spec => []FokKilledOnlyWhenShort
<1>1. TInv => FokKilledOnlyWhenShort
  <2> SUFFICES ASSUME TInv, NEW side \in Side, NEW price \in Prices, NEW qty \in Quantities,
                      ~Fillable(side, price, qty),
                      \A p \in Prices : ~(Remaining({s \in Resting : order[s].side # side
                                              /\ order[s].price \in {p}}) >= QtyModulus)
               PROVE  Remaining({s \in Resting : order[s].side # side
                          /\ order[s].price \in {p \in Prices : PriceCrosses(side, price, p)}}) < qty
    BY DEF FokKilledOnlyWhenShort
  <2>1. \A s \in Resting : /\ order[s].side # side <=> order[s].side = Opposite(side)
                           /\ order[s].price \in Prices
    <3> SUFFICES ASSUME NEW s \in Resting
                 PROVE  /\ order[s].side # side <=> order[s].side = Opposite(side)
                        /\ order[s].price \in Prices
      OBVIOUS
    <3>1. order[s].side \in Side /\ order[s].price \in Prices
      BY LiveOrder DEF TInv, IInv, Resting
    <3> QED  BY <3>1 DEF Side, Opposite
  <2>2. ASSUME NEW p \in Prices
        PROVE  Remaining(AtPlace(Opposite(side), p)) < QtyModulus
    <3>1. AtPlace(Opposite(side), p)
            = {s \in Resting : order[s].side # side /\ order[s].price \in {p}}
      BY <2>1 DEF AtPlace
    <3>2. Remaining(AtPlace(Opposite(side), p)) \in Nat
      BY PlaceQuantities, RemainingLeft DEF TInv, IInv
    <3>3. ~(Remaining(AtPlace(Opposite(side), p)) >= QtyModulus)  BY <3>1
    <3> QED  BY <3>2, <3>3, ModulusAssumption
  <2>3. {s \in Resting : order[s].side # side
            /\ order[s].price \in {p \in Prices : PriceCrosses(side, price, p)}}
          = {s \in Resting : /\ order[s].side = Opposite(side)
                             /\ PriceCrosses(side, price, order[s].price)}
    BY <2>1
  <2> DEFINE N == Scan(levels[Opposite(side)], side, price)
  <2>4. N = Remaining({s \in Resting : /\ order[s].side = Opposite(side)
                                       /\ PriceCrosses(side, price, order[s].price)})
    BY <2>2, ScanExact
  <2>5. ~(N >= qty)  BY FillableIs
  <2>6. N \in Nat /\ qty \in Int
    <3>1. levels[Opposite(side)] \in Seq(Level)  BY DEF TInv, IInv, TypeOK, Side, Opposite
    <3> QED  BY <3>1, ScanNat, QuantitiesAssumption, ModulusAssumption
  <2>7. N < qty
    <3> HIDE DEF N
    <3> QED  BY <2>5, <2>6
  <2> QED  BY <2>3, <2>4, <2>7
<1> QED  BY <1>1, TotalsInvariant, PTL

-----------------------------------------------------------------------------
(* Lists: sequences of slots that the links back determine.                *)

\* c lists the elements of S, each once, and p leads back through it.
IsList(p, S, c) ==
    /\ c \in Seq(S) /\ Range(c) = S /\ IsInjective(c)
    /\ \A k \in DOMAIN c : p[c[k]] = IF k = 1 THEN NULL ELSE c[k - 1]

\* Two lists of the same links and slots agree place by place.
LEMMA ListAgrees ==
    ASSUME NEW p, NEW S, NULL \notin S, NEW c, IsList(p, S, c), NEW d, IsList(p, S, d),
           NEW k \in DOMAIN c
    PROVE  k \in DOMAIN d /\ d[k] = c[k]
<1> DEFINE Bad == {n \in DOMAIN c : ~(n \in DOMAIN d /\ d[n] = c[n])}
<1>1. SUFFICES ASSUME Bad # {} PROVE FALSE  OBVIOUS
<1>2. /\ Len(c) \in Nat /\ DOMAIN c = 1..Len(c) /\ \A n \in DOMAIN c : c[n] \in S
      /\ Len(d) \in Nat /\ DOMAIN d = 1..Len(d) /\ \A n \in DOMAIN d : d[n] \in S
  BY DEF IsList
<1>3. Bad \subseteq Nat  BY <1>2
<1>4. PICK n \in Bad : \A m \in Bad : n <= m  BY <1>1, <1>3, SmallestElement
<1>5. n \in DOMAIN c /\ n \in Nat /\ n >= 1 /\ c[n] \in S  BY <1>2, <1>4
<1>6. PICK m \in DOMAIN d : d[m] = c[n]  BY <1>5 DEF IsList, Range
<1>7. p[c[n]] = (IF m = 1 THEN NULL ELSE d[m - 1])
      /\ p[c[n]] = (IF n = 1 THEN NULL ELSE c[n - 1])
  BY <1>5, <1>6 DEF IsList
<1>8. CASE n = 1
  <2>1. m = 1
    <3> SUFFICES ASSUME m # 1 PROVE FALSE  OBVIOUS
    <3>1. m - 1 \in DOMAIN d  BY <1>2, <1>6
    <3> QED  BY <1>2, <1>7, <1>8, <3>1
  <2> QED  BY <1>4, <1>6, <1>8, <2>1
<1>9. CASE n # 1
  <2>1. n - 1 \in DOMAIN c /\ n - 1 \notin Bad
    <3>1. n - 1 \in DOMAIN c /\ n - 1 < n  BY <1>2, <1>5, <1>9
    <3> HIDE DEF Bad
    <3> QED  BY <1>4, <1>5, <3>1
  <2>2. n - 1 \in DOMAIN d /\ d[n - 1] = c[n - 1]  BY <2>1
  <2>3. m # 1  BY <1>2, <1>7, <1>9, <2>1
  <2>4. m - 1 \in DOMAIN d /\ d[m - 1] = d[n - 1]
    BY <1>2, <1>6, <1>7, <1>9, <2>2, <2>3
  <2>5. m - 1 = n - 1  BY <2>2, <2>4 DEF IsList, IsInjective
  <2>6. m = n  BY <1>2, <1>5, <1>6, <2>5
  <2> QED  BY <1>4, <1>6, <2>6
<1> QED  BY <1>8, <1>9

\* There is one list at most.
LEMMA ListUnique ==
    ASSUME NEW p, NEW S, NULL \notin S, NEW c, IsList(p, S, c), NEW d, IsList(p, S, d)
    PROVE  c = d
<1>1. DOMAIN c = DOMAIN d  BY ListAgrees
<1>2. \A k \in DOMAIN c : c[k] = d[k]  BY ListAgrees
<1>3. c = [k \in DOMAIN c |-> c[k]] /\ d = [k \in DOMAIN d |-> d[k]]
  BY DEF IsList
<1> QED  BY <1>1, <1>2, <1>3

\* Nothing depends on p elsewhere.
LEMMA ListSame ==
    ASSUME NEW p, NEW q, NEW S, NEW c, IsList(p, S, c), \A s \in S : q[s] = p[s]
    PROVE  IsList(q, S, c)
<1>1. \A k \in DOMAIN c : c[k] \in S  BY DEF IsList
<1> QED  BY <1>1 DEF IsList

\* A slot that points back at the last one makes the list longer by itself.
LEMMA ListAppend ==
    ASSUME NEW p, NEW q, NEW S, NEW c, IsList(p, S, c), NEW o, o \notin S,
           \A s \in S : q[s] = p[s],
           q[o] = IF c = <<>> THEN NULL ELSE c[Len(c)]
    PROVE  IsList(q, S \cup {o}, Append(c, o))
<1>1. /\ c \in Seq(S) /\ Len(c) \in Nat /\ DOMAIN c = 1..Len(c)
      /\ \A k \in DOMAIN c : c[k] \in S
  BY DEF IsList
<1>2. PICK d : d = Append(c, o)  OBVIOUS
<1>3. /\ d \in Seq(S \cup {o}) /\ Len(d) = Len(c) + 1 /\ DOMAIN d = 1..Len(c) + 1
      /\ \A k \in 1..Len(c) : d[k] = c[k] /\ d[Len(c) + 1] = o
  <2>1. c \in Seq(S \cup {o})  BY <1>1
  <2> QED  BY <1>1, <1>2, <2>1
<1>4. d[Len(c) + 1] = o
  <2>1. c \in Seq(S \cup {o})  BY <1>1
  <2> QED  BY <1>1, <1>2, <2>1
<1>5. Range(d) = S \cup {o}
  <2>1. \A k \in DOMAIN d : d[k] \in S \cup {o}  BY <1>3
  <2>2. ASSUME NEW s \in S PROVE \E k \in DOMAIN d : d[k] = s
    <3>1. PICK k \in DOMAIN c : c[k] = s  BY DEF IsList, Range
    <3> QED  BY <1>1, <1>3, <3>1
  <2>3. Len(c) + 1 \in DOMAIN d  BY <1>1, <1>3
  <2> QED  BY <1>4, <2>1, <2>2, <2>3 DEF Range
<1>6. IsInjective(d)
  <2> SUFFICES ASSUME NEW i \in DOMAIN d, NEW j \in DOMAIN d, d[i] = d[j] PROVE i = j
    BY DEF IsInjective
  <2>1. i \in DOMAIN c \/ i = Len(c) + 1  BY <1>1, <1>3
  <2>2. j \in DOMAIN c \/ j = Len(c) + 1  BY <1>1, <1>3
  <2> QED  BY <1>1, <1>3, <1>4, <2>1, <2>2 DEF IsList, IsInjective
<1>7. ASSUME NEW k \in DOMAIN d PROVE q[d[k]] = IF k = 1 THEN NULL ELSE d[k - 1]
  <2>1. CASE k \in DOMAIN c
    <3>1. d[k] = c[k] /\ q[d[k]] = p[c[k]]  BY <1>1, <1>3, <2>1
    <3>2. k # 1 => d[k - 1] = c[k - 1]  BY <1>1, <1>3, <2>1
    <3> QED  BY <2>1, <3>1, <3>2 DEF IsList
  <2>2. CASE k = Len(c) + 1
    <3>1. k = 1 <=> c = <<>>  BY <1>1, <2>2
    <3>2. k # 1 => d[k - 1] = c[Len(c)]  BY <1>1, <1>3, <2>2
    <3> QED  BY <1>4, <2>2, <3>1, <3>2
  <2> QED  BY <1>1, <1>3, <2>1, <2>2
<1> QED  BY <1>2, <1>3, <1>5, <1>6, <1>7 DEF IsList

\* RemoveAt, place by place.
LEMMA RemoveAtPlaces ==
    ASSUME NEW T, NEW c \in Seq(T), NEW i \in DOMAIN c
    PROVE  /\ RemoveAt(c, i) \in Seq(T)
           /\ Len(RemoveAt(c, i)) = Len(c) - 1
           /\ DOMAIN RemoveAt(c, i) = 1..Len(c) - 1
           /\ \A j \in 1..Len(c) - 1 : RemoveAt(c, i)[j] = IF j < i THEN c[j] ELSE c[j + 1]
<1> DEFINE a == SubSeq(c, 1, i - 1)
           b == SubSeq(c, i + 1, Len(c))
           r == a \o b
<1>0. i \in 1..Len(c) /\ Len(c) \in Nat  OBVIOUS
<1>1. a \in Seq(T) /\ Len(a) = i - 1 /\ \A j \in 1..i - 1 : a[j] = c[j]
  BY <1>0, SubSeqProperties
<1>2. b \in Seq(T) /\ Len(b) = Len(c) - i /\ \A j \in 1..Len(c) - i : b[j] = c[i + j]
  BY <1>0, SubSeqProperties
<1>3. /\ r \in Seq(T) /\ Len(r) = Len(a) + Len(b)
      /\ \A j \in 1..Len(a) + Len(b) : r[j] = IF j <= Len(a) THEN a[j] ELSE b[j - Len(a)]
  BY <1>1, <1>2, ConcatProperties, Zenon
<1>4. RemoveAt(c, i) = r  BY DEF RemoveAt
<1> HIDE DEF a, b, r
<1>5. Len(r) = Len(c) - 1  BY <1>0, <1>1, <1>2, <1>3
<1>6. ASSUME NEW j \in 1..Len(c) - 1, j < i PROVE r[j] = c[j]
  BY <1>0, <1>1, <1>2, <1>3, <1>6, SMTT(60)
<1>7. ASSUME NEW j \in 1..Len(c) - 1, ~(j < i) PROVE r[j] = c[j + 1]
  <2>1. /\ j - (i - 1) \in 1..Len(c) - i
        /\ j \in 1..(i - 1) + (Len(c) - i) /\ ~(j <= i - 1)
    BY <1>0, <1>7
  <2>2. r[j] = b[j - (i - 1)]  BY <1>1, <1>2, <1>3, <2>1
  <2>3. i + (j - (i - 1)) = j + 1  BY <1>0
  <2> QED  BY <1>2, <2>1, <2>2, <2>3
<1>8. DOMAIN r = 1..Len(c) - 1  BY <1>3, <1>5
<1> QED  BY <1>3, <1>4, <1>5, <1>6, <1>7, <1>8

\* An element leaves, and its follower leads back to its predecessor.
LEMMA ListRemove ==
    ASSUME NEW p, NEW q, NEW S, NULL \notin S, NEW c, IsList(p, S, c), NEW i \in DOMAIN c,
           \A t \in S \ {c[i]} : q[t] = IF p[t] = c[i] THEN p[c[i]] ELSE p[t]
    PROVE  IsList(q, S \ {c[i]}, RemoveAt(c, i))
<1>1. /\ c \in Seq(S) /\ Len(c) \in Nat /\ DOMAIN c = 1..Len(c)
      /\ \A k \in DOMAIN c : c[k] \in S
      /\ \A j, k \in DOMAIN c : c[j] = c[k] => j = k
  BY DEF IsList, IsInjective
<1>2. PICK d : d = RemoveAt(c, i)  OBVIOUS
<1>3. /\ d \in Seq(S) /\ Len(d) = Len(c) - 1 /\ DOMAIN d = 1..Len(c) - 1
      /\ \A j \in 1..Len(c) - 1 : d[j] = IF j < i THEN c[j] ELSE c[j + 1]
  BY <1>1, <1>2, RemoveAtPlaces
<1> DEFINE old(k) == IF k < i THEN k ELSE k + 1
<1>4. \A k \in DOMAIN d : old(k) \in DOMAIN c /\ old(k) # i /\ d[k] = c[old(k)] /\ k \in Int
  BY <1>1, <1>3
<1>5. \A j, k \in DOMAIN d : old(j) = old(k) => j = k  BY <1>1, <1>3
<1>6. \A k \in DOMAIN d : d[k] \in S \ {c[i]}
  <2> HIDE DEF old
  <2> QED  BY <1>1, <1>4
<1>7. d \in Seq(S \ {c[i]})
  <2>1. d = [k \in 1..Len(d) |-> d[k]] /\ Len(d) \in Nat  BY <1>3
  <2>2. \A k \in 1..Len(d) : d[k] \in S \ {c[i]}  BY <1>1, <1>3, <1>6
  <2> QED  BY <2>1, <2>2
<1>8. Range(d) = S \ {c[i]}
  <2>1. \A k \in DOMAIN d : d[k] \in S \ {c[i]}  BY <1>6
  <2>2. ASSUME NEW s \in S \ {c[i]} PROVE \E k \in DOMAIN d : d[k] = s
    <3>1. PICK k \in DOMAIN c : c[k] = s  BY DEF IsList, Range
    <3>2. CASE k < i
      <4>1. k \in DOMAIN d /\ d[k] = c[k]  BY <1>1, <1>3, <3>2
      <4> QED  BY <3>1, <4>1
    <3>3. CASE k > i
      <4>1. k - 1 \in DOMAIN d /\ d[k - 1] = c[k]  BY <1>1, <1>3, <3>3
      <4> QED  BY <3>1, <4>1
    <3>4. k # i /\ k \in Int /\ i \in Int  BY <1>1, <3>1
    <3> QED  BY <3>2, <3>3, <3>4
  <2> QED  BY <2>1, <2>2 DEF Range
<1>9. IsInjective(d)
  <2> SUFFICES ASSUME NEW j \in DOMAIN d, NEW k \in DOMAIN d, d[j] = d[k] PROVE j = k
    BY DEF IsInjective
  <2>1. old(j) = old(k)
    <3> HIDE DEF old
    <3> QED  BY <1>1, <1>4
  <2> QED  BY <1>5, <2>1
<1>10. ASSUME NEW k \in DOMAIN d PROVE q[d[k]] = IF k = 1 THEN NULL ELSE d[k - 1]
  <2>1. \A n \in DOMAIN c : p[c[n]] = IF n = 1 THEN NULL ELSE c[n - 1]  BY DEF IsList
  <2>2. q[d[k]] = IF p[d[k]] = c[i] THEN p[c[i]] ELSE p[d[k]]  BY <1>6
  <2>3. i \in 1..Len(c) /\ k \in 1..Len(c) - 1  BY <1>1, <1>3
  <2>4. CASE k < i
    <3>1. d[k] = c[k] /\ k \in DOMAIN c  BY <1>1, <1>3, <2>3, <2>4
    <3>2. CASE k = 1
      <4>1. p[c[k]] = NULL  BY <2>1, <3>1, <3>2
      <4>2. c[i] # NULL  BY <1>1
      <4> QED  BY <2>2, <3>1, <3>2, <4>1, <4>2
    <3>3. CASE k # 1
      <4>1. k - 1 \in DOMAIN d /\ k - 1 < i /\ k - 1 # i /\ k - 1 \in DOMAIN c
        BY <1>1, <1>3, <2>3, <2>4, <3>3
      <4>2. p[c[k]] = c[k - 1] /\ d[k - 1] = c[k - 1]  BY <1>3, <2>1, <3>1, <3>3, <4>1
      <4>3. c[k - 1] # c[i]  BY <1>1, <4>1
      <4> QED  BY <2>2, <3>1, <3>3, <4>2, <4>3
    <3> QED  BY <3>2, <3>3
  <2>5. CASE k = i
    <3>1. d[k] = c[k + 1] /\ k + 1 \in DOMAIN c /\ k + 1 # 1 /\ (k + 1) - 1 = k
      BY <1>1, <1>3, <2>3, <2>5
    <3>2. p[c[k + 1]] = c[i]  BY <2>1, <2>5, <3>1
    <3>3. q[d[k]] = IF i = 1 THEN NULL ELSE c[i - 1]  BY <2>1, <2>2, <3>1, <3>2
    <3>4. k # 1 => d[k - 1] = c[k - 1]  BY <1>1, <1>3, <2>3, <2>5
    <3> QED  BY <2>5, <3>3, <3>4
  <2>6. CASE k > i
    <3>1. /\ d[k] = c[k + 1] /\ k + 1 \in DOMAIN c /\ k + 1 # 1 /\ (k + 1) - 1 = k
          /\ k # 1 /\ k \in DOMAIN c /\ k # i
      BY <1>1, <1>3, <2>3, <2>6
    <3>2. p[c[k + 1]] = c[k]  BY <2>1, <3>1
    <3>3. c[k] # c[i]  BY <1>1, <3>1
    <3>4. d[k - 1] = c[k]
      <4>1. k - 1 \in 1..Len(c) - 1 /\ ~(k - 1 < i) /\ (k - 1) + 1 = k  BY <2>3, <2>6
      <4> QED  BY <1>3, <4>1
    <3> QED  BY <2>2, <3>1, <3>2, <3>3, <3>4
  <2> QED  BY <2>3, <2>4, <2>5, <2>6
<1> QED  BY <1>2, <1>7, <1>8, <1>9, <1>10 DEF IsList

\* The first element leaves.
LEMMA TailRemoves ==
    ASSUME NEW T, NEW c \in Seq(T), c # <<>>
    PROVE  RemoveAt(c, 1) = Tail(c)
<1>1. 1 \in DOMAIN c
  <2>1. Len(c) \in Nat /\ DOMAIN c = 1..Len(c)  OBVIOUS
  <2>2. Len(c) # 0  OBVIOUS
  <2> QED  BY <2>1, <2>2
<1>2. /\ RemoveAt(c, 1) \in Seq(T) /\ Len(RemoveAt(c, 1)) = Len(c) - 1
      /\ \A j \in 1..Len(c) - 1 : RemoveAt(c, 1)[j] = c[j + 1]
  <2>1. \A j \in 1..Len(c) - 1 : ~(j < 1)  OBVIOUS
  <2> QED  BY <1>1, <2>1, RemoveAtPlaces
<1>3. Tail(c) \in Seq(T) /\ Len(Tail(c)) = Len(c) - 1
      /\ \A j \in 1..Len(c) - 1 : Tail(c)[j] = c[j + 1]
  OBVIOUS
<1>4. \A j \in 1..Len(RemoveAt(c, 1)) : RemoveAt(c, 1)[j] = Tail(c)[j]  BY <1>2, <1>3
<1> QED  BY <1>2, <1>3, <1>4, SeqEqual

-----------------------------------------------------------------------------
(* The queue of a price is its list, seen through the orders.              *)

\* The list of a side and price, empty where there is no level.
SlotsAt(side, price) ==
    LET at == {i \in DOMAIN levels[side] : levels[side][i].price = price}
    IN  IF at = {} THEN <<>> ELSE ChainFrom(levels[side][CHOOSE i \in at : TRUE].head)

\* What PriceTimeBook sees of an order, and of a list of orders.
Entry(o, s) == [id |-> o[s].id, qty |-> o[s].qty]
View(o, c) == [k \in DOMAIN c |-> Entry(o, c[k])]
Entries == [id : Ids, qty : Nat]

\* The refinement's queue is the list of the level, seen as entries.
LEMMA QueueIsView ==
    ASSUME NEW side, NEW price
    PROVE  QueueAt(side, price) = View(order, SlotsAt(side, price))
<1>1. CASE {i \in DOMAIN levels[side] : levels[side][i].price = price} = {}
  BY <1>1 DEF QueueAt, SlotsAt, View, Entry
<1>2. CASE {i \in DOMAIN levels[side] : levels[side][i].price = price} # {}
  BY <1>2 DEF QueueAt, SlotsAt, View, Entry
<1> QED  BY <1>1, <1>2

\* The lists hold the resting orders of their side and price.
ListsAt ==
    \A side \in Side : \A price \in Prices :
        IsList(prev, AtPlace(side, price), SlotsAt(side, price))

\* From the invariant of the lists: each walk is the list of its level's orders.
LEMMA ListsFollow == IInv => ListsAt
<1> SUFFICES ASSUME IInv, NEW side \in Side, NEW price \in Prices
             PROVE  IsList(prev, AtPlace(side, price), SlotsAt(side, price))
  BY DEF ListsAt
<1> DEFINE at == {i \in DOMAIN levels[side] : levels[side][i].price = price}
<1>1. CASE at = {}
  <2>1. SlotsAt(side, price) = <<>>  BY <1>1 DEF SlotsAt
  <2>2. AtPlace(side, price) = {}
    <3> SUFFICES ASSUME NEW s \in AtPlace(side, price) PROVE FALSE  OBVIOUS
    <3>1. s \in Resting /\ order[s].side = side /\ order[s].price = price  BY PlaceFacts
    <3>2. PICK l \in Range(levels[side]) : l.price = price
      BY <3>1 DEF IInv, Linked, Covered
    <3> QED  BY <1>1, <3>2 DEF Range
  <2>3. <<>> \in Seq({}) /\ DOMAIN <<>> = {}  OBVIOUS
  <2> QED  BY <2>1, <2>2, <2>3 DEF IsList, Range, IsInjective
<1>2. CASE at # {}
  <2>1. PICK i \in at : i = CHOOSE k \in at : TRUE  BY <1>2
  <2>2. levels[side][i] \in Range(levels[side]) /\ levels[side][i].price = price
    BY <2>1 DEF Range
  <2>3. PICK c : c = ChainFrom(levels[side][i].head)  OBVIOUS
  <2>4. SlotsAt(side, price) = c  BY <1>2, <2>1, <2>3 DEF SlotsAt
  <2>5. /\ c \in Seq(Slots) /\ IsInjective(c) /\ Range(c) = AtPlace(side, price)
        /\ \A k \in DOMAIN c : prev[c[k]] = IF k = 1 THEN NULL ELSE c[k - 1]
    BY <2>2, <2>3, LevelChain
  <2>6. c \in Seq(AtPlace(side, price))
    <3>1. c = [k \in 1..Len(c) |-> c[k]] /\ Len(c) \in Nat  BY <2>5
    <3>2. \A k \in 1..Len(c) : c[k] \in AtPlace(side, price)  BY <2>5 DEF Range
    <3> QED  BY <3>1, <3>2
  <2> QED  BY <2>4, <2>5, <2>6 DEF IsList
<1> QED  BY <1>1, <1>2

\* What PriceTimeBook sees of a resting order has its types.
LEMMA EntryFacts ==
    ASSUME TypeOK, NEW s \in Resting
    PROVE  /\ Entry(order, s) \in Entries
           /\ Entry(order, s).id = order[s].id /\ Entry(order, s).qty = order[s].qty
<1>1. order[s].id \in Ids /\ order[s].qty \in 0..QtyModulus - 1
  BY LiveOrder DEF Resting
<1>2. order[s].qty \in Nat  BY <1>1, ModulusAssumption
<1> QED  BY <1>1, <1>2 DEF Entry, Entries

\* So has what it sees of a list: as many entries, in the same order.
LEMMA ViewFacts ==
    ASSUME TypeOK, NEW S, S \subseteq Resting, NEW c, IsList(prev, S, c)
    PROVE  /\ View(order, c) \in Seq(Entries) /\ Len(View(order, c)) = Len(c)
           /\ DOMAIN View(order, c) = DOMAIN c /\ DOMAIN c = 1..Len(c) /\ Len(c) \in Nat
           /\ \A k \in DOMAIN c : View(order, c)[k] = Entry(order, c[k]) /\ c[k] \in S
           /\ Range(View(order, c)) = {Entry(order, s) : s \in S}
<1>1. c \in Seq(S) /\ DOMAIN c = 1..Len(c) /\ Len(c) \in Nat /\ \A k \in DOMAIN c : c[k] \in S
  BY DEF IsList
<1>2. PICK v : v = View(order, c)  OBVIOUS
<1>3. DOMAIN v = 1..Len(c) /\ \A k \in 1..Len(c) : v[k] = Entry(order, c[k])
  BY <1>1, <1>2 DEF View
<1>4. \A k \in 1..Len(c) : Entry(order, c[k]) \in Entries  BY <1>1, EntryFacts
<1>5. v \in Seq(Entries) /\ Len(v) = Len(c)
  <2>1. v = [k \in 1..Len(c) |-> Entry(order, c[k])]  BY <1>1, <1>2 DEF View
  <2> QED  BY <1>1, <1>4, <2>1
<1>6. Range(v) = {Entry(order, s) : s \in S}
  <2>1. \A s \in S : \E k \in DOMAIN c : c[k] = s  BY DEF IsList, Range
  <2> QED  BY <1>1, <1>3, <2>1 DEF Range
<1> QED  BY <1>1, <1>2, <1>3, <1>5, <1>6

\* A list seen after one of its orders left.
LEMMA ViewRemove ==
    ASSUME NEW o, NEW p, NEW T, NEW c \in Seq(T), NEW i \in DOMAIN c,
           View(o, c) \in Seq(Entries), IsInjective(c),
           \A k \in DOMAIN c : k # i => Entry(p, c[k]) = Entry(o, c[k])
    PROVE  View(p, RemoveAt(c, i)) = RemoveAt(View(o, c), i)
<1>1. PICK v \in Seq(Entries) : v = View(o, c)  OBVIOUS
<1>2. DOMAIN v = DOMAIN c /\ \A k \in DOMAIN c : v[k] = Entry(o, c[k])
  BY <1>1 DEF View
<1>3. Len(c) \in Nat /\ DOMAIN c = 1..Len(c) /\ DOMAIN v = 1..Len(v) /\ Len(v) \in Nat
  OBVIOUS
<1>4. Len(v) = Len(c)  BY <1>2, <1>3
<1>5. PICK d : d = RemoveAt(c, i)  OBVIOUS
<1>6. DOMAIN d = 1..Len(c) - 1 /\ \A j \in 1..Len(c) - 1 : d[j] = IF j < i THEN c[j] ELSE c[j + 1]
  BY <1>5, RemoveAtPlaces
<1>7. PICK w : w = RemoveAt(v, i)  OBVIOUS
<1>8. /\ w \in Seq(Entries) /\ Len(w) = Len(c) - 1 /\ DOMAIN w = 1..Len(c) - 1
      /\ \A j \in 1..Len(c) - 1 : w[j] = IF j < i THEN v[j] ELSE v[j + 1]
  BY <1>2, <1>4, <1>7, RemoveAtPlaces, ZenonT(60)
<1>9. ASSUME NEW j \in 1..Len(c) - 1 PROVE w[j] = Entry(p, d[j])
  <2>1. CASE j < i
    <3>1. j \in DOMAIN c /\ j # i  BY <1>3, <2>1
    <3> QED  BY <1>2, <1>6, <1>8, <2>1, <3>1
  <2>2. CASE ~(j < i)
    <3>1. j + 1 \in DOMAIN c /\ j + 1 # i  BY <1>3, <2>2
    <3> QED  BY <1>2, <1>6, <1>8, <2>2, <3>1
  <2> QED  BY <2>1, <2>2
<1>10. View(p, d) = [j \in 1..Len(c) - 1 |-> Entry(p, d[j])]  BY <1>6 DEF View
<1>11. w = [j \in 1..Len(c) - 1 |-> w[j]]  BY <1>8
<1>12. w = View(p, d)  BY <1>9, <1>10, <1>11
<1> QED  BY <1>1, <1>5, <1>7, <1>12

\* A list seen after an order joined it.
LEMMA ViewAppend ==
    ASSUME NEW o, NEW p, NEW s, NEW T, NEW c, c \in Seq(T), View(o, c) \in Seq(Entries),
           \A k \in DOMAIN c : Entry(p, c[k]) = Entry(o, c[k]), Entry(p, s) \in Entries
    PROVE  View(p, Append(c, s)) = Append(View(o, c), Entry(p, s))
<1>1. PICK v \in Seq(Entries) : v = View(o, c)  OBVIOUS
<1>2. DOMAIN v = DOMAIN c /\ \A k \in DOMAIN c : v[k] = Entry(o, c[k])
  BY <1>1 DEF View
<1>3. Len(c) \in Nat /\ DOMAIN c = 1..Len(c) /\ DOMAIN v = 1..Len(v) /\ Len(v) \in Nat
  OBVIOUS
<1>4. Len(v) = Len(c)  BY <1>2, <1>3
<1>5. PICK d : d = Append(c, s)  OBVIOUS
<1>6. /\ DOMAIN d = 1..Len(c) + 1 /\ d[Len(c) + 1] = s
      /\ \A k \in 1..Len(c) : d[k] = c[k]
  BY <1>3, <1>5
<1>7. PICK w : w = Append(v, Entry(p, s))  OBVIOUS
<1>8. /\ DOMAIN w = 1..Len(c) + 1 /\ w[Len(c) + 1] = Entry(p, s)
      /\ \A k \in 1..Len(c) : w[k] = v[k]
  BY <1>3, <1>4, <1>7
<1>9. ASSUME NEW k \in 1..Len(c) + 1 PROVE w[k] = Entry(p, d[k])
  <2>1. k \in DOMAIN c \/ k = Len(c) + 1  BY <1>3
  <2> QED  BY <1>2, <1>3, <1>6, <1>8, <2>1
<1>10. View(p, d) = [k \in 1..Len(c) + 1 |-> Entry(p, d[k])]  BY <1>6 DEF View
<1>11. w = [k \in 1..Len(c) + 1 |-> w[k]]
  <2>1. w \in Seq(Entries)  BY <1>7
  <2> QED  BY <1>8, <2>1
<1>12. w = View(p, d)  BY <1>9, <1>10, <1>11
<1> QED  BY <1>1, <1>5, <1>7, <1>12

\* A list seen after nothing changed in it.
LEMMA ViewSame ==
    ASSUME NEW o, NEW p, NEW c, \A k \in DOMAIN c : Entry(p, c[k]) = Entry(o, c[k])
    PROVE  View(p, c) = View(o, c)
  BY DEF View

-----------------------------------------------------------------------------
(* What the steps do to the lists.                                         *)

\* Where there is a level, its list is not empty and has the level's ends.
LEMMA SlotsOfLevel ==
    ASSUME IInv, NEW side \in Side, NEW l \in Range(levels[side])
    PROVE  LET c == SlotsAt(side, l.price)
           IN  /\ IsList(prev, AtPlace(side, l.price), c) /\ c # <<>>
               /\ c[1] = l.head /\ c[Len(c)] = l.tail /\ 1 \in DOMAIN c
<1>1. l.price \in Prices /\ \A m \in Range(levels[side]) : m.price = l.price => m = l
  BY LevelFacts DEF IInv
<1>2. PICK c : c = SlotsAt(side, l.price)  OBVIOUS
<1>3. IsList(prev, AtPlace(side, l.price), c)  BY <1>1, <1>2, ListsFollow DEF ListsAt
<1>4. c = ChainFrom(l.head)
  <2> DEFINE at == {i \in DOMAIN levels[side] : levels[side][i].price = l.price}
  <2>1. at # {}  BY DEF Range
  <2>2. PICK i \in at : i = CHOOSE k \in at : TRUE  BY <2>1
  <2>3. levels[side][i] = l  BY <1>1, <2>2 DEF Range
  <2> QED  BY <1>2, <2>1, <2>2, <2>3 DEF SlotsAt
<1>5. c # <<>> /\ c \in Seq(Slots) /\ Last(c) = l.tail  BY <1>4, LevelChain
<1>6. Len(c) \in Nat /\ Len(c) # 0 /\ DOMAIN c = 1..Len(c)  BY <1>5
<1>7. 1 \in DOMAIN c  BY <1>6
<1>8. prev[c[1]] = NULL /\ c[1] \in AtPlace(side, l.price)  BY <1>3, <1>7 DEF IsList
<1>9. c[1] = l.head
  <2>1. c[1] \in Resting /\ order[c[1]].side = side /\ order[c[1]].price = l.price
    BY <1>8, PlaceFacts
  <2>2. PICK m \in Range(levels[side]) : m.price = l.price /\ m.head = c[1]
    BY <1>8, <2>1 DEF IInv, Linked, Covered
  <2> QED  BY <1>1, <2>2
<1> QED  BY <1>2, <1>3, <1>5, <1>7, <1>9 DEF Last

\* Where there is no level nobody waits.
LEMMA SlotsNowhere ==
    ASSUME NEW side, NEW price, \A l \in Range(levels[side]) : l.price # price
    PROVE  SlotsAt(side, price) = <<>>
  BY DEF SlotsAt, Range

\* A step that changes neither the orders of a place nor their `prev` keeps its list.
LEMMA SlotsKept ==
    ASSUME ListsAt, ListsAt', NEW side \in Side, NEW price \in Prices,
           AtPlace(side, price)' = AtPlace(side, price),
           \A s \in AtPlace(side, price) : prev'[s] = prev[s]
    PROVE  SlotsAt(side, price)' = SlotsAt(side, price)
<1>1. PICK S : S = AtPlace(side, price)  OBVIOUS
<1>2. PICK c : c = SlotsAt(side, price)  OBVIOUS
<1>3. PICK d : d = SlotsAt(side, price)'  OBVIOUS
<1>4. IsList(prev, S, c)  BY <1>1, <1>2 DEF ListsAt
<1>5. IsList(prev', S, d)  BY <1>1, <1>3 DEF ListsAt, IsList
<1>6. IsList(prev', S, c)  BY <1>1, <1>4, ListSame
<1>7. NULL \notin S  BY <1>1, PlaceFacts
<1> QED  BY <1>2, <1>3, <1>5, <1>6, <1>7, ListUnique

\* Unlinking takes one order away from its place and from no other.
LEMMA PlaceUnlinked ==
    ASSUME NEW s, NEW l, NEW ll, Unlinked(s, l, ll), NEW side, NEW price
    PROVE  AtPlace(side, price)' = AtPlace(side, price) \ {s}
<1>1. AtPlace(side, price)' = {t \in Resting' : order'[t].side = side /\ order'[t].price = price}
  BY DEF AtPlace
<1>2. Resting' = Resting \ {s} /\ \A t \in Resting \ {s} :
          order'[t].side = order[t].side /\ order'[t].price = order[t].price
  BY DEF Unlinked
<1> QED  BY <1>1, <1>2 DEF AtPlace

\* The list that s was in goes on without s, and the others as they were.
LEMMA SlotsUnlinked ==
    ASSUME IInv, ListsAt, ListsAt', NEW s, NEW l, NEW ll, Unlinked(s, l, ll),
           NEW side \in Side, NEW price \in Prices
    PROVE  IF side = order[s].side /\ price = order[s].price
           THEN \E i \in DOMAIN SlotsAt(side, price) :
                    /\ SlotsAt(side, price)[i] = s
                    /\ SlotsAt(side, price)' = RemoveAt(SlotsAt(side, price), i)
           ELSE SlotsAt(side, price)' = SlotsAt(side, price)
<1>1. PICK S : S = AtPlace(side, price)  OBVIOUS
<1>2. AtPlace(side, price)' = S \ {s}  BY <1>1, PlaceUnlinked
<1>3. s \in Resting /\ s # NULL
      /\ \A t \in Resting \ {s} : prev'[t] = IF t = next[s] THEN prev[s] ELSE prev[t]
  BY NullAssumption DEF Unlinked, Resting
<1>4. \A t \in S : t \in Resting /\ t # NULL /\ order[t].side = side /\ order[t].price = price
  BY <1>1, PlaceFacts
<1>5. s \in AtPlace(order[s].side, order[s].price)  BY <1>3 DEF AtPlace
<1>6. CASE side = order[s].side /\ price = order[s].price
  <2>1. s \in S  BY <1>1, <1>5, <1>6
  <2>2. ASSUME NEW t \in S \ {s} PROVE prev'[t] = IF prev[t] = s THEN prev[s] ELSE prev[t]
    <3>1. t = next[s] => prev[t] = s  BY <1>1, <1>4, <2>1, PlaceKept
    <3>2. prev[t] = s => next[s] = t  BY <1>1, <1>3, PlaceKept
    <3> QED  BY <1>3, <1>4, <3>1, <3>2
  <2>3. PICK c : c = SlotsAt(side, price)  OBVIOUS
  <2>4. PICK d : d = SlotsAt(side, price)'  OBVIOUS
  <2>5. IsList(prev, S, c)  BY <1>1, <2>3 DEF ListsAt
  <2>6. IsList(prev', S \ {s}, d)  BY <1>2, <2>4 DEF ListsAt, IsList
  <2>7. PICK i \in DOMAIN c : c[i] = s  BY <2>1, <2>5 DEF IsList, Range
  <2>8. NULL \notin S /\ NULL \notin S \ {s}  BY <1>4
  <2>9. IsList(prev', S \ {s}, RemoveAt(c, i))
    <3>1. PICK q : q = prev'  OBVIOUS
    <3>2. \A t \in S \ {c[i]} : q[t] = IF prev[t] = c[i] THEN prev[c[i]] ELSE prev[t]
      BY <2>2, <2>7, <3>1
    <3>3. IsList(q, S \ {c[i]}, RemoveAt(c, i))  BY <2>5, <2>8, <3>2, ListRemove
    <3> QED  BY <2>7, <3>1, <3>3 DEF IsList
  <2>10. d = RemoveAt(c, i)  BY <2>6, <2>8, <2>9, ListUnique
  <2> QED  BY <1>6, <2>3, <2>4, <2>7, <2>10
<1>7. CASE ~(side = order[s].side /\ price = order[s].price)
  <2>1. s \notin S  BY <1>4, <1>7
  <2>2. ASSUME NEW t \in S PROVE prev'[t] = prev[t]
    <3>1. t # next[s]
      <4> SUFFICES ASSUME t = next[s] PROVE FALSE  OBVIOUS
      <4>1. t \in AtPlace(order[s].side, order[s].price)  BY <1>4, <1>5, PlaceKept
      <4>2. order[t].side = order[s].side /\ order[t].price = order[s].price
        BY <4>1, PlaceFacts
      <4> QED  BY <1>4, <1>7, <4>2
    <3> QED  BY <1>3, <1>4, <2>1, <3>1
  <2>3. AtPlace(side, price)' = AtPlace(side, price)  BY <1>1, <1>2, <2>1
  <2>4. SlotsAt(side, price)' = SlotsAt(side, price)  BY <1>1, <2>2, <2>3, SlotsKept
  <2> QED  BY <1>7, <2>4
<1> QED  BY <1>6, <1>7

\* The list that o joins gets it at its end, and the others stay as they were.
LEMMA SlotsAppended ==
    ASSUME IInv, ListsAt, ListsAt', NEW o, NEW tl, NEW ll, Appended(o, tl, ll),
           NEW side \in Side, NEW price \in Prices
    PROVE  SlotsAt(side, price)' =
               IF side = order[o].side /\ price = order[o].price
               THEN Append(SlotsAt(side, price), o) ELSE SlotsAt(side, price)
<1>1. PICK S : S = AtPlace(side, price)  OBVIOUS
<1>2. PICK c : c = SlotsAt(side, price)  OBVIOUS
<1>3. PICK d : d = SlotsAt(side, price)'  OBVIOUS
<1>4. IsList(prev, S, c)  BY <1>1, <1>2 DEF ListsAt
<1>5. \A t \in S : t \in Resting /\ t # NULL /\ order[t].side = side /\ order[t].price = price
  BY <1>1, PlaceFacts
<1>6. /\ o \in Slots /\ o # NULL /\ o \notin Resting /\ Resting' = Resting \cup {o}
      /\ \A t \in Resting \cup {o} :
            /\ order'[t].side = order[t].side /\ order'[t].price = order[t].price
            /\ prev'[t] = IF t = o THEN tl ELSE prev[t]
  BY NullAssumption DEF Appended
<1>7. AtPlace(side, price)' = {t \in Resting \cup {o} : order[t].side = side /\ order[t].price = price}
  <2>1. AtPlace(side, price)' = {t \in Resting' : order'[t].side = side /\ order'[t].price = price}
    BY DEF AtPlace
  <2> QED  BY <1>6, <2>1
<1>8. \A t \in S : prev'[t] = prev[t] /\ t # o  BY <1>5, <1>6
<1>9. CASE side = order[o].side /\ price = order[o].price
  <2>1. AtPlace(side, price)' = S \cup {o} /\ o \notin S  BY <1>1, <1>5, <1>6, <1>7, <1>9 DEF AtPlace
  <2>2. tl = IF c = <<>> THEN NULL ELSE c[Len(c)]
    <3>1. CASE tl = NULL /\ \A m \in Range(levels[side]) : m.price # price
      BY <1>2, <3>1, SlotsNowhere
    <3>2. CASE \E l \in Range(levels[side]) : l.price = price /\ l.tail = tl
      BY <1>2, <3>2, SlotsOfLevel
    <3> QED  BY <1>9, <3>1, <3>2 DEF Appended
  <2>3. prev'[o] = tl  BY <1>6
  <2>4. IsList(prev', S \cup {o}, d)  BY <1>3, <2>1 DEF ListsAt, IsList
  <2>5. IsList(prev', S \cup {o}, Append(c, o))
    <3>1. PICK q : q = prev'  OBVIOUS
    <3>2. q[o] = IF c = <<>> THEN NULL ELSE c[Len(c)]  BY <2>2, <2>3, <3>1
    <3>3. \A t \in S : q[t] = prev[t]  BY <1>8, <3>1
    <3>4. IsList(q, S \cup {o}, Append(c, o))  BY <1>4, <2>1, <3>2, <3>3, ListAppend
    <3> QED  BY <3>1, <3>4 DEF IsList
  <2>6. NULL \notin S \cup {o}  BY <1>5, <1>6
  <2>7. d = Append(c, o)  BY <2>4, <2>5, <2>6, ListUnique
  <2> QED  BY <1>2, <1>3, <1>9, <2>7
<1>10. CASE ~(side = order[o].side /\ price = order[o].price)
  <2>1. AtPlace(side, price)' = AtPlace(side, price)  BY <1>6, <1>7, <1>10 DEF AtPlace
  <2>2. SlotsAt(side, price)' = SlotsAt(side, price)  BY <1>1, <1>8, <2>1, SlotsKept
  <2> QED  BY <1>10, <2>2
<1> QED  BY <1>9, <1>10

-----------------------------------------------------------------------------
(* What PriceTimeBook sees of a state.                                     *)

\* The library operators PriceTimeBook uses are those of the book.
LEMMA SameLibrary ==
    /\ \A f : Abstract!Range(f) = Range(f)
    /\ \A S : Abstract!Cardinality(S) = Cardinality(S)
    /\ \A c, i : Abstract!RemoveAt(c, i) = RemoveAt(c, i)
    /\ \A f : Abstract!SumFunction(f) = SumFunction(f)
<1>1. \A f : Abstract!Range(f) = Range(f)  BY DEF Abstract!Range, Range
<1>2. \A S : Abstract!Cardinality(S) = Cardinality(S)
  BY Zenon DEF Abstract!Cardinality, Cardinality, Abstract!IsFiniteSet, IsFiniteSet
<1>3. \A c, i : Abstract!RemoveAt(c, i) = RemoveAt(c, i)  BY DEF Abstract!RemoveAt, RemoveAt
<1>4. \A f : Abstract!SumFunction(f) = SumFunction(f)
  <2> SUFFICES ASSUME NEW f PROVE Abstract!SumFunction(f) = SumFunction(f)  OBVIOUS
  <2> QED
    BY Zenon DEF Abstract!SumFunction, SumFunction,
        Abstract!SumFunctionOnSet, SumFunctionOnSet,
        Abstract!FoldFunctionOnSet, FoldFunctionOnSet,
        Abstract!MapThenFoldSet, MapThenFoldSet
<1> QED  BY <1>1, <1>2, <1>3, <1>4

\* All its queues.
Queues == [side \in Side |-> [price \in Prices |-> QueueAt(side, price)]]

\* The queues of the refinement, place by place.
LEMMA QueuesAre ==
    ASSUME NEW side \in Side, NEW price \in Prices
    PROVE  Queues[side][price] = View(order, SlotsAt(side, price))
  BY QueueIsView DEF Queues

\* A queue holds the entries of the orders at its place and nothing else.
LEMMA QueueFacts ==
    ASSUME IInv, NEW side \in Side, NEW price \in Prices
    PROVE  /\ Queues[side][price] \in Seq(Entries)
           /\ Range(Queues[side][price]) = {Entry(order, s) : s \in AtPlace(side, price)}
           /\ Queues[side][price] = <<>> <=> AtPlace(side, price) = {}
<1>1. PICK c : c = SlotsAt(side, price)  OBVIOUS
<1>2. PICK S : S = AtPlace(side, price)  OBVIOUS
<1>3. IsList(prev, S, c) /\ S \subseteq Resting
  BY <1>1, <1>2, ListsFollow, PlaceFacts DEF ListsAt
<1>4. TypeOK  BY DEF IInv
<1>5. /\ View(order, c) \in Seq(Entries) /\ Len(View(order, c)) = Len(c) /\ Len(c) \in Nat
      /\ Range(View(order, c)) = {Entry(order, s) : s \in S}
  BY <1>3, <1>4, ViewFacts
<1>6. View(order, c) = <<>> <=> S = {}
  <2>1. View(order, c) = <<>> <=> Range(View(order, c)) = {}
    <3>1. PICK v \in Seq(Entries) : v = View(order, c)  BY <1>5
    <3>2. v = <<>> <=> DOMAIN v = {}  OBVIOUS
    <3> QED  BY <3>1, <3>2 DEF Range
  <2> QED  BY <1>5, <2>1
<1> QED  BY <1>1, <1>2, <1>5, <1>6, QueuesAre

\* PriceTimeBook's Waiting are the orders at the place.
LEMMA WaitingIs ==
    ASSUME IInv, NEW side \in Side, NEW price \in Prices
    PROVE  Abstract!Waiting(side, price) = {Entry(order, s) : s \in AtPlace(side, price)}
<1>1. Abstract!Waiting(side, price) = Abstract!Range(Queues[side][price])
  BY DEF Abstract!Waiting, Queues
<1> QED  BY <1>1, QueueFacts, SameLibrary

\* Its AllWaiting are the resting orders.
LEMMA AllWaitingIs ==
    ASSUME IInv
    PROVE  Abstract!AllWaiting = {Entry(order, s) : s \in Resting}
<1>1. Abstract!AllWaiting
        = UNION {Abstract!Waiting(side, price) : side \in Side, price \in Prices}
  BY DEF Abstract!AllWaiting, Abstract!Side, Side
<1>2. ASSUME NEW s \in Resting
      PROVE  order[s].side \in Side /\ order[s].price \in Prices
             /\ s \in AtPlace(order[s].side, order[s].price)
  BY LiveOrder DEF AtPlace, Resting, IInv
<1>3. ASSUME NEW side \in Side, NEW price \in Prices, NEW e \in Abstract!Waiting(side, price)
      PROVE  \E s \in Resting : e = Entry(order, s)
  <2>1. PICK s \in AtPlace(side, price) : e = Entry(order, s)  BY WaitingIs
  <2> QED  BY <2>1, PlaceFacts
<1>4. ASSUME NEW s \in Resting PROVE Entry(order, s) \in Abstract!AllWaiting
  <2>1. Entry(order, s) \in Abstract!Waiting(order[s].side, order[s].price)
    BY <1>2, WaitingIs
  <2> QED  BY <1>1, <1>2, <2>1
<1> QED  BY <1>1, <1>3, <1>4

\* Ids tell the resting orders apart.
LEMMA EntriesDiffer ==
    ASSUME IInv, ~AllowDuplicateIds, NEW s \in Resting, NEW t \in Resting,
           order[s].id = order[t].id \/ Entry(order, s) = Entry(order, t)
    PROVE  s = t
<1>1. order[s].id = order[t].id  BY EntryFacts DEF IInv
<1>2. index[order[s].id] = s /\ index[order[t].id] = t  BY DEF IInv, IndexExact
<1> QED  BY <1>1, <1>2

\* An id unknown to it is one without entry in the index.
LEMMA UnknownIs ==
    ASSUME IInv, ~AllowDuplicateIds, NEW id \in Ids
    PROVE  Abstract!Unknown(id) <=> index[id] = NULL
<1>1. \A s \in Resting : Entry(order, s).id = order[s].id  BY EntryFacts DEF IInv
<1>2. Abstract!Unknown(id) <=> \A s \in Resting : order[s].id # id
  BY <1>1, AllWaitingIs DEF Abstract!Unknown
<1>3. index[id] # NULL => index[id] \in Resting /\ order[index[id]].id = id
  BY DEF IInv, IndexEntriesLive
<1>4. \A s \in Resting : order[s].id = id => index[id] = s /\ s # NULL
  BY NullAssumption DEF IInv, IndexExact, Resting
<1> QED  BY <1>2, <1>3, <1>4

\* The pool has a slot for the next order exactly while fewer than Capacity wait.
LEMMA RoomIs ==
    ASSUME IInv, ~AllowDuplicateIds, taker = NULL
    PROVE  Abstract!Room <=> free # <<>>
<1>1. IsFiniteSet(Slots) /\ Cardinality(Slots) = Capacity
  BY FS_Interval, CapacityAssumption DEF Slots
<1>2. Resting = {s \in Slots : order[s] # NULL}  BY NullAssumption DEF Resting
<1>3. PICK W : W = {Entry(order, s) : s \in Resting}  OBVIOUS
<1>4. IsFiniteSet(Resting) /\ Cardinality(Resting) <= Capacity
      /\ (Cardinality(Resting) = Capacity => Resting = Slots)
  <2>1. Resting \in SUBSET Slots  BY <1>2
  <2> QED  BY <1>1, <2>1, FS_Subset
<1>5. Cardinality(W) = Cardinality(Resting)
  <2>1. PICK g : g = [s \in Resting |-> Entry(order, s)]  OBVIOUS
  <2>2. g \in Surjection(Resting, W)  BY <1>3, <2>1 DEF Surjection
  <2>3. \A s, t \in Resting : g[s] = g[t] => s = t  BY <2>1, EntriesDiffer
  <2>4. g \in Injection(Resting, W)
    BY <1>3, <2>1, <2>3 DEF Injection, IsInjective
  <2> QED  BY <1>4, <2>2, <2>4, FS_Surjection
<1>6. Abstract!Room <=> Cardinality(Resting) < Capacity
  BY <1>3, <1>5, AllWaitingIs, SameLibrary DEF Abstract!Room
<1>7. Cardinality(Resting) \in Nat /\ Capacity \in Nat
  BY <1>4, FS_CardinalityType, CapacityAssumption
<1>8. Cardinality(Resting) < Capacity <=> Resting # Slots  BY <1>1, <1>4, <1>7
<1>9. free # <<>> <=> DOMAIN free # {}
  <2>1. PICK f \in Seq(Slots) : f = free  BY DEF IInv, TypeOK
  <2>2. Len(f) \in Nat /\ DOMAIN f = 1..Len(f) /\ (f # <<>> <=> Len(f) # 0)
    BY EmptySeq
  <2>3. Len(f) # 0 => 1 \in DOMAIN f  BY <2>2
  <2>4. \A k \in DOMAIN f : Len(f) # 0  BY <2>2
  <2> QED  BY <2>1, <2>2, <2>3, <2>4
<1>10. \A k \in DOMAIN free : free[k] \in Slots /\ order[free[k]] = NULL
  BY DEF IInv, TypeOK, FreeList
<1>11. \A s \in Slots : order[s] = NULL => \E k \in DOMAIN free : free[k] = s
  BY DEF IInv, FreeList
<1>12. Resting # Slots <=> DOMAIN free # {}  BY <1>2, <1>10, <1>11
<1> QED  BY <1>6, <1>8, <1>9, <1>12

\* Prices it can trade at are those that cross and have orders.
LEMMA ReachableIs ==
    ASSUME IInv, NEW side \in Side, NEW type, NEW limit \in Prices
    PROVE  Abstract!Reachable(side, type, limit) =
               {p \in Prices : /\ type = "market" \/ PriceCrosses(side, limit, p)
                               /\ AtPlace(Opposite(side), p) # {}}
<1>1. PICK opp \in Side : opp = Opposite(side)  BY DEF Side, Opposite
<1>2. Abstract!Opposite(side) = opp  BY <1>1 DEF Abstract!Opposite, Opposite
<1>3. Abstract!Acceptable(side, limit) = {p \in Prices : PriceCrosses(side, limit, p)}
  BY DEF Abstract!Acceptable, PriceCrosses
<1>4. Abstract!Reachable(side, type, limit)
        = {p \in IF type = "market" THEN Prices ELSE Abstract!Acceptable(side, limit) :
              Queues[opp][p] # <<>>}
  BY <1>2 DEF Abstract!Reachable, Queues
<1>5. \A p \in Prices : Queues[opp][p] # <<>> <=> AtPlace(opp, p) # {}  BY QueueFacts
<1> QED  BY <1>1, <1>3, <1>4, <1>5

\* What is available to a fill-or-kill order is what the crossing orders have left.
LEMMA AvailableIs ==
    ASSUME IInv, ~AllowDuplicateIds, NEW side \in Side, NEW price \in Prices
    PROVE  Abstract!Available(side, "fok", price)
             = Remaining({s \in Resting : /\ order[s].side = Opposite(side)
                                          /\ PriceCrosses(side, price, order[s].price)})
<1>1. PICK opp \in Side : opp = Opposite(side)  BY DEF Side, Opposite
<1>2. Abstract!Opposite(side) = opp  BY <1>1 DEF Abstract!Opposite, Opposite
<1>3. PICK W : W = {s \in Resting : order[s].side = opp /\ PriceCrosses(side, price, order[s].price)}
  OBVIOUS
<1>4. PICK E : E = {Entry(order, s) : s \in W}  OBVIOUS
<1>5. PICK R : R = Abstract!Reachable(side, "fok", price)  OBVIOUS
<1>6. R = {p \in Prices : PriceCrosses(side, price, p) /\ AtPlace(opp, p) # {}}
  BY <1>1, <1>5, ReachableIs
<1>7. \A s \in Resting : order[s].price \in Prices  BY LiveOrder DEF Resting, IInv
<1>8. UNION {Abstract!Waiting(opp, p) : p \in R} = E
  <2>1. ASSUME NEW p \in R, NEW e \in Abstract!Waiting(opp, p) PROVE e \in E
    <3>1. PICK s \in AtPlace(opp, p) : e = Entry(order, s)  BY <1>6, WaitingIs
    <3>2. s \in Resting /\ order[s].side = opp /\ order[s].price = p  BY PlaceFacts
    <3>3. s \in W  BY <1>3, <1>6, <3>2
    <3> QED  BY <1>4, <3>1, <3>3
  <2>2. ASSUME NEW s \in W PROVE \E p \in R : Entry(order, s) \in Abstract!Waiting(opp, p)
    <3>1. s \in AtPlace(opp, order[s].price)  BY <1>3 DEF AtPlace
    <3>2. order[s].price \in R  BY <1>3, <1>6, <1>7, <3>1
    <3>3. order[s].price \in Prices  BY <1>6, <3>2
    <3>4. Entry(order, s) \in Abstract!Waiting(opp, order[s].price)  BY <3>1, <3>3, WaitingIs
    <3> QED  BY <3>2, <3>4
  <2> QED  BY <1>4, <2>1, <2>2
<1>9. Abstract!Available(side, "fok", price) = SumFunction([e \in E |-> e.qty])
  BY <1>2, <1>5, <1>8, SameLibrary DEF Abstract!Available
<1>10. IsFiniteSet(W)
  <2>1. IsFiniteSet(Slots)  BY FS_Interval, CapacityAssumption DEF Slots
  <2>2. W \in SUBSET Slots  BY <1>3 DEF Resting
  <2> QED  BY <2>1, <2>2, FS_Subset
<1>11. PICK f : f = [s \in W |-> Entry(order, s)]  OBVIOUS
<1>12. PICK w : w = [s \in W |-> order[s].qty]  OBVIOUS
<1>13. PICK v : v = [e \in E |-> e.qty]  OBVIOUS
<1>14. \A s \in W : /\ f[s] = Entry(order, s) /\ f[s] \in E /\ w[s] = order[s].qty
                    /\ w[s] \in Int /\ v[f[s]] = w[s]
  <2> SUFFICES ASSUME NEW s \in W
               PROVE  /\ f[s] = Entry(order, s) /\ f[s] \in E /\ w[s] = order[s].qty
                      /\ w[s] \in Int /\ v[f[s]] = w[s]
    OBVIOUS
  <2>1. s \in Resting  BY <1>3
  <2>2. Entry(order, s).qty = order[s].qty  BY <2>1, EntryFacts DEF IInv
  <2>3. order[s].qty \in Int  BY <2>1, LiveOrder DEF Resting, IInv
  <2> QED  BY <1>4, <1>11, <1>12, <1>13, <2>2, <2>3
<1>15. \A s, t \in W : f[s] = f[t] => s = t
  <2>1. W \subseteq Resting  BY <1>3
  <2> QED  BY <1>14, <2>1, EntriesDiffer
<1>16. {f[s] : s \in W} = E  BY <1>4, <1>14
<1>17. SumFunctionOnSet(v, E) = SumFunctionOnSet(w, W)
  <2>1. SumFunctionOnSet(v, {f[s] : s \in W}) = SumFunctionOnSet(w, W)
    BY <1>10, <1>14, <1>15, SumOfImage
  <2> QED  BY <1>16, <2>1
<1>18. SumFunction(v) = SumFunctionOnSet(v, E)  BY <1>13 DEF SumFunction
<1>19. Remaining(W) = SumFunctionOnSet(w, W)  BY <1>10, <1>14, RemainingLeft, LeftIs
<1> QED  BY <1>1, <1>3, <1>9, <1>13, <1>17, <1>18, <1>19

\* The incoming order can trade exactly while match() goes on; then the best price in its
\* reach is that of the best level, and who waited longest there is at its head.
LEMMA MatchIs ==
    ASSUME IInv, taker # NULL, NEW reach,
           reach = Abstract!Reachable(order[taker].side, order[taker].type, order[taker].price)
    PROVE  /\ CanMatch <=> order[taker].qty > 0 /\ reach # {}
           /\ CanMatch =>
                /\ Best \in Range(levels[Opposite(order[taker].side)])
                /\ Abstract!BestOf(order[taker].side, reach) = Best.price
<1> DEFINE side == order[taker].side
           limit == order[taker].price
           market == order[taker].type = "market"
<1>1. taker \in Slots /\ side \in Side /\ limit \in Prices /\ limit \in Int
      /\ order[taker].qty \in Int
  BY LiveOrder DEF IInv, TypeOK, TakerLive
<1>2. PICK opp \in Side : opp = Opposite(side)  BY <1>1 DEF Side, Opposite
<1>3. PICK lvs \in Seq(Level) : lvs = levels[opp] /\ Sorted(opp, lvs)
  BY LevelFacts DEF IInv
<1>4. Len(lvs) \in Nat /\ DOMAIN lvs = 1..Len(lvs)
      /\ \A k \in DOMAIN lvs : lvs[k].price \in Prices /\ lvs[k].price \in Int
  BY <1>3, LevelSeq
<1>5. reach = {p \in Prices : (market \/ PriceCrosses(side, limit, p)) /\ AtPlace(opp, p) # {}}
  BY <1>1, <1>2, ReachableIs
<1>6. \A p \in Prices : AtPlace(opp, p) # {} <=> \E k \in DOMAIN lvs : lvs[k].price = p
  <2> SUFFICES ASSUME NEW p \in Prices
               PROVE  AtPlace(opp, p) # {} <=> \E k \in DOMAIN lvs : lvs[k].price = p
    OBVIOUS
  <2>1. ASSUME NEW s \in AtPlace(opp, p) PROVE \E k \in DOMAIN lvs : lvs[k].price = p
    <3>1. s \in Resting /\ order[s].side = opp /\ order[s].price = p  BY PlaceFacts
    <3>2. PICK l \in Range(levels[opp]) : l.price = p
      BY <3>1 DEF IInv, Linked, Covered
    <3> QED  BY <1>3, <3>2 DEF Range
  <2>2. ASSUME NEW k \in DOMAIN lvs, lvs[k].price = p PROVE AtPlace(opp, p) # {}
    <3>1. lvs[k] \in Range(levels[opp])  BY <1>3 DEF Range
    <3>2. lvs[k].head \in AtPlace(opp, p)  BY <2>2, <3>1 DEF IInv, Linked, Ends, AtPlace
    <3> QED  BY <3>2
  <2> QED  BY <2>1, <2>2
<1>7. CanMatch <=> /\ order[taker].qty > 0 /\ lvs # <<>>
                   /\ market \/ PriceCrosses(side, limit, lvs[Len(lvs)].price)
  BY <1>2, <1>3 DEF CanMatch, Opposing, Best, Last
<1>8. lvs # <<>> <=> Len(lvs) \in DOMAIN lvs  BY <1>4
<1>9. \A k \in DOMAIN lvs :
         /\ side = "buy" => lvs[Len(lvs)].price <= lvs[k].price
         /\ side # "buy" => lvs[Len(lvs)].price >= lvs[k].price
         /\ PriceCrosses(side, limit, lvs[k].price) => PriceCrosses(side, limit, lvs[Len(lvs)].price)
  <2> SUFFICES ASSUME NEW k \in DOMAIN lvs
               PROVE  /\ side = "buy" => lvs[Len(lvs)].price <= lvs[k].price
                      /\ side # "buy" => lvs[Len(lvs)].price >= lvs[k].price
                      /\ PriceCrosses(side, limit, lvs[k].price)
                           => PriceCrosses(side, limit, lvs[Len(lvs)].price)
    OBVIOUS
  <2>1. Len(lvs) \in DOMAIN lvs /\ lvs[k].price \in Int /\ lvs[Len(lvs)].price \in Int
    BY <1>4
  <2>2. k = Len(lvs) \/ LessForSide(opp, lvs[k].price, lvs[Len(lvs)].price)
    <3>1. k = Len(lvs) \/ k < Len(lvs)  BY <1>4
    <3> QED  BY <1>3, <2>1, <3>1 DEF Sorted
  <2> HIDE DEF side, limit
  <2> QED  BY <1>1, <1>2, <2>1, <2>2 DEF Opposite, Side, LessForSide, PriceCrosses
<1>10. CanMatch <=> order[taker].qty > 0 /\ reach # {}
  <2>1. ASSUME lvs # <<>>, market \/ PriceCrosses(side, limit, lvs[Len(lvs)].price)
        PROVE  lvs[Len(lvs)].price \in reach
    BY <1>4, <1>5, <1>6, <1>8, <2>1
  <2>2. ASSUME NEW p \in reach
        PROVE  lvs # <<>> /\ (market \/ PriceCrosses(side, limit, lvs[Len(lvs)].price))
    <3>1. PICK k \in DOMAIN lvs : lvs[k].price = p  BY <1>5, <1>6
    <3>2. lvs # <<>>  BY <3>1
    <3> QED  BY <1>5, <1>9, <3>1, <3>2
  <2> QED  BY <1>7, <2>1, <2>2
<1>11. ASSUME CanMatch
       PROVE  /\ Best \in Range(levels[Opposite(side)])
              /\ Abstract!BestOf(side, reach) = Best.price
  <2>1. lvs # <<>> /\ Len(lvs) \in DOMAIN lvs  BY <1>7, <1>8, <1>11
  <2>2. Best = lvs[Len(lvs)]  BY <1>2, <1>3 DEF Opposing, Best, Last
  <2>3. Best.price \in reach
    BY <1>4, <1>5, <1>6, <1>7, <1>11, <2>1, <2>2
  <2>4. \A p \in reach : \E k \in DOMAIN lvs : lvs[k].price = p  BY <1>5, <1>6
  <2>5. Best.price \in Int /\ \A p \in reach : p \in Int  BY <1>4, <2>1, <2>2, <2>4
  <2>6. \A p \in reach : /\ side = "buy" => Best.price <= p
                         /\ side # "buy" => Best.price >= p
    BY <1>9, <2>2, <2>4
  <2>7. CASE side = "buy"
    <3>1. Abstract!Min(reach) = Best.price
      <4>1. \A m \in reach : (\A p \in reach : m <= p) => m = Best.price
        BY <2>3, <2>5, <2>6, <2>7
      <4>2. \A p \in reach : Best.price <= p  BY <2>6, <2>7
      <4> QED  BY <2>3, <4>1, <4>2 DEF Abstract!Min
    <3> QED  BY <1>2, <1>3, <2>1, <2>2, <2>7, <3>1 DEF Abstract!BestOf, Range
  <2>8. CASE side # "buy"
    <3>1. Abstract!Max(reach) = Best.price
      <4>1. \A m \in reach : (\A p \in reach : m >= p) => m = Best.price
        BY <2>3, <2>5, <2>6, <2>8
      <4>2. \A p \in reach : Best.price >= p  BY <2>6, <2>8
      <4> QED  BY <2>3, <4>1, <4>2 DEF Abstract!Max
    <3> QED  BY <1>2, <1>3, <2>1, <2>2, <2>8, <3>1 DEF Abstract!BestOf, Range
  <2> QED  BY <2>7, <2>8
<1> QED  BY <1>10, <1>11

-----------------------------------------------------------------------------
(* The third invariant: no order is larger than what was submitted.        *)

\* The largest quantity of which Capacity orders still fit the width of Quantity.
Most == (QtyModulus - 1) \div Capacity

TotalsFit == \A q \in Quantities : Capacity * q < QtyModulus

\* As many orders of quantity Most as the pool holds fit the width.
LEMMA MostFits == Most \in Nat /\ Capacity * Most < QtyModulus
<1>1. PICK n \in Nat \ {0} : n = Capacity  BY CapacityAssumption
<1>2. PICK m \in Nat : m = QtyModulus - 1  BY ModulusAssumption
<1>3. m \div n \in Nat /\ n * (m \div n) <= m  OBVIOUS
<1> QED  BY <1>1, <1>2, <1>3, ModulusAssumption DEF Most

\* No quantity that is submitted is larger.
LEMMA QuantitiesFit ==
    ASSUME TotalsFit, NEW q \in Quantities
    PROVE  q <= Most
<1>1. PICK n \in Nat \ {0} : n = Capacity  BY CapacityAssumption
<1>2. PICK m \in Nat : m = QtyModulus - 1  BY ModulusAssumption
<1>3. PICK k \in Nat : k = q  BY QuantitiesAssumption, ModulusAssumption
<1>4. n * k <= m  BY <1>1, <1>2, <1>3, ModulusAssumption DEF TotalsFit
<1>5. PICK j \in Nat : j = m \div n /\ m < n * (j + 1)  OBVIOUS
<1>6. k <= j
  <2> SUFFICES ASSUME ~(k <= j) PROVE FALSE  OBVIOUS
  <2>1. PICK d \in Nat : d = k - (j + 1)  OBVIOUS
  <2>2. k = (j + 1) + d  BY <2>1
  <2>3. n * k = n * (j + 1) + n * d  BY <2>2
  <2>4. n * d \in Nat /\ n * k \in Nat /\ n * (j + 1) \in Nat  OBVIOUS
  <2> QED  BY <1>4, <1>5, <2>3, <2>4
<1> QED  BY <1>1, <1>2, <1>3, <1>5, <1>6 DEF Most

QuantityBound == \A s \in Slots : order[s] # NULL => order[s].qty <= Most

\* Then the orders at a price fit the width of Quantity together.
LEMMA PlaceFits ==
    ASSUME TypeOK, QuantityBound, NEW side, NEW price
    PROVE  Remaining(AtPlace(side, price)) < QtyModulus
<1>1. PICK S : S = AtPlace(side, price)  OBVIOUS
<1>2. PICK w : w = [s \in S |-> order[s].qty]  OBVIOUS
<1>3. IsFiniteSet(S) /\ \A s \in S : order[s].qty \in Nat  BY <1>1, PlaceQuantities
<1>4. \A s \in S : w[s] = order[s].qty /\ w[s] \in 0..Most
  <2> SUFFICES ASSUME NEW s \in S PROVE order[s].qty \in 0..Most  BY <1>2
  <2>1. order[s].qty <= Most  BY <1>1, PlaceFacts DEF QuantityBound
  <2> QED  BY <1>3, <2>1, MostFits
<1>5. Remaining(S) = SumFunctionOnSet(w, S)  BY <1>3, <1>4, RemainingLeft, LeftIs
<1>6. SumFunctionOnSet(w, S) <= Cardinality(S) * Most  BY <1>3, <1>4, MostFits, SumBound
<1>7. Cardinality(S) \in Nat /\ Cardinality(S) <= Capacity
  <2>1. IsFiniteSet(Slots) /\ Cardinality(Slots) = Capacity
    BY FS_Interval, CapacityAssumption DEF Slots
  <2>2. S \in SUBSET Slots  BY <1>1, PlaceFacts
  <2> QED  BY <1>3, <2>1, <2>2, FS_Subset, FS_CardinalityType
<1>8. Cardinality(S) * Most <= Capacity * Most
  <2>1. \A a, b, c \in Nat : a <= b => a * c <= b * c
    <3> TAKE a, b, c \in Nat
    <3> HAVE a <= b
    <3>1. PICK d \in Nat : d = b - a  OBVIOUS
    <3>2. b = a + d  BY <3>1
    <3>3. b * c = a * c + d * c  BY <3>2
    <3>4. a * c \in Nat /\ d * c \in Nat  OBVIOUS
    <3> QED  BY <3>3, <3>4
  <2>2. Capacity \in Nat /\ Most \in Nat  BY CapacityAssumption, MostFits
  <2> QED  BY <1>7, <2>1, <2>2
<1>9. /\ Cardinality(S) * Most \in Int /\ Capacity * Most \in Int /\ QtyModulus \in Int
      /\ Remaining(S) \in Int
  <2>1. Capacity \in Nat /\ Most \in Nat  BY CapacityAssumption, MostFits
  <2>2. Remaining(S) \in Nat  BY <1>1, PlaceQuantities, RemainingLeft
  <2> QED  BY <1>7, <2>1, <2>2, ModulusAssumption
<1> QED  BY <1>1, <1>5, <1>6, <1>8, <1>9, MostFits

RInv == TInv /\ ListsAt /\ QuantityBound

\* Admitted orders keep the bound, fills make orders smaller, nothing makes them larger.
LEMMA BoundKept ==
    ASSUME TotalsFit, TInv, QuantityBound, Next
    PROVE  QuantityBound'
<1> USE DEF TInv
<1>1. ASSUME NEW id \in Ids, NEW side \in Side, NEW type \in OrderType,
             NEW price \in Prices, NEW qty \in Quantities,
             Submit(id, side, type, price, qty)
      PROVE  QuantityBound'
  <2>1. CASE order' = order  BY <2>1 DEF QuantityBound
  <2>2. CASE SubmitAdmitted(id, side, type, price, qty)
    <3>1. PICK h : h = Head(free)  OBVIOUS
    <3>2. PICK r : r = [id |-> id, side |-> side, type |-> type, price |-> price, qty |-> qty]
      OBVIOUS
    <3>3. order' = [order EXCEPT ![h] = r] /\ r.qty = qty
      BY <2>2, <3>1, <3>2 DEF SubmitAdmitted
    <3>4. qty <= Most  BY QuantitiesFit
    <3>5. \A s \in Slots : order'[s] = IF s = h THEN r ELSE order[s]
      BY <3>3 DEF IInv, TypeOK
    <3> QED  BY <3>3, <3>4, <3>5 DEF QuantityBound
  <2> QED
    BY <1>1, <2>1, <2>2 DEF Submit, SubmitNothing, SubmitExhausted, SubmitKilled
<1>2. CASE Match
  <2>1. PICK maker \in Slots : maker = Best.head /\ (FillPartial(maker) \/ FillMaker(maker))
    BY <1>2 DEF Match
  <2>2. taker # NULL /\ CanMatch  BY <1>2 DEF Match
  <2>3. /\ taker \in Slots /\ order[taker] \in Order
        /\ order[taker].qty \in 0..QtyModulus - 1 /\ order[taker].qty <= Most
    BY <2>2, LiveOrder DEF IInv, TypeOK, TakerLive, QuantityBound
  <2>4. order[taker].qty \in Nat /\ Most \in Nat  BY <2>3, ModulusAssumption, MostFits
  <2>5. CASE FillPartial(maker)
    <3>1. /\ maker \in Resting
          /\ order'[taker] = [order[taker] EXCEPT !.qty = 0]
          /\ order'[maker] = [order[maker] EXCEPT !.qty = @ - order[taker].qty]
          /\ \A t \in Slots \ {maker, taker} : order'[t] = order[t]
      BY <2>1, <2>2, <2>5, FillPartialStep
    <3>2. /\ order[maker] \in Order /\ order[maker].qty \in 0..QtyModulus - 1
          /\ order[maker].qty <= Most
      BY <2>1, <3>1, LiveOrder DEF IInv, Resting, QuantityBound
    <3>3. order'[taker].qty <= Most  BY <2>3, <2>4, <3>1 DEF Order
    <3>4. order'[maker].qty <= Most
      <4>1. order'[maker].qty = order[maker].qty - order[taker].qty  BY <3>1, <3>2 DEF Order
      <4> QED  BY <2>4, <3>2, <4>1, ModulusAssumption
    <3> QED  BY <3>1, <3>3, <3>4 DEF QuantityBound
  <2>6. CASE FillMaker(maker)
    <3>1. /\ maker # taker
          /\ order'[taker] = [order[taker] EXCEPT !.qty = @ - order[maker].qty]
          /\ \A t \in Slots \ {maker, taker} : order'[t] = order[t]
      BY <2>1, <2>2, <2>6, FillMakerStep
    <3>2. order'[maker] = NULL  BY <2>3, <2>6, <3>1 DEF FillMaker, IInv, TypeOK
    <3>3. order[maker].qty \in 0..QtyModulus - 1 /\ order[taker].qty >= order[maker].qty
      <4>1. Unlinked(maker, Best, PopHead(Take(Best, order[maker].qty)))
        BY <2>1, <2>2, <2>6, FillMakerStep
      <4>2. maker \in Resting  BY <4>1 DEF Unlinked
      <4> QED  BY <2>6, <4>2, LiveOrder DEF FillMaker, Resting, IInv
    <3>4. order'[taker].qty = order[taker].qty - order[maker].qty  BY <2>3, <3>1 DEF Order
    <3>5. order'[taker].qty <= Most  BY <2>3, <2>4, <3>3, <3>4, ModulusAssumption
    <3> QED  BY <3>1, <3>2, <3>5 DEF QuantityBound
  <2> QED  BY <2>1, <2>5, <2>6
<1>3. ASSUME NEW s, order' = [order EXCEPT ![s] = NULL] PROVE QuantityBound'
  <2>1. \A t \in Slots : order'[t] = IF t = s THEN NULL ELSE order[t]
    BY <1>3 DEF IInv, TypeOK
  <2> QED  BY <2>1 DEF QuantityBound
<1>4. CASE Finish
  <2>1. CASE Rest  BY <2>1 DEF Rest, QuantityBound
  <2>2. CASE Discard  BY <1>3, <2>2 DEF Discard, Release
  <2> QED  BY <1>4, <2>1, <2>2 DEF Finish
<1>5. ASSUME NEW id \in Ids, Cancel(id) PROVE QuantityBound'
  <2>1. CASE CancelMiss(id)  BY <2>1 DEF CancelMiss, QuantityBound
  <2>2. CASE CancelHit(id)  BY <1>3, <2>2 DEF CancelHit, Release
  <2> QED  BY <1>5, <2>1, <2>2 DEF Cancel
<1> QED  BY <1>1, <1>2, <1>4, <1>5 DEF Next

\* If totals fit their width: TInv always holds, the lists are those of the levels, and no
\* order is larger than what was submitted.
THEOREM RefinementInvariant == ASSUME TotalsFit PROVE Spec => []RInv
<1>1. Init => QuantityBound  BY DEF Init, QuantityBound
<1>2. TInv /\ QuantityBound /\ [Next]_vars => QuantityBound'
  <2>1. CASE Next  BY <2>1, BoundKept
  <2>2. CASE UNCHANGED vars  BY <2>2 DEF vars, QuantityBound
  <2> QED  BY <2>1, <2>2
<1>3. TInv => ListsAt  BY ListsFollow DEF TInv
<1> QED  BY <1>1, <1>2, <1>3, TotalsInvariant, PTL DEF Spec, RInv

-----------------------------------------------------------------------------
(* The queues after a step.                                                *)

\* The order PriceTimeBook sees being executed.
Incoming == IF taker = NULL THEN NULL ELSE order[taker]

\* The queues after a step, place by place.
LEMMA QueuesNext ==
    ASSUME NEW side \in Side, NEW price \in Prices
    PROVE  Queues'[side][price] = View(order', SlotsAt(side, price)')
<1>1. Queues'[side][price] = QueueAt(side, price)'  BY DEF Queues
<1>2. CASE {i \in DOMAIN levels'[side] : levels'[side][i].price = price} = {}
  BY <1>1, <1>2 DEF QueueAt, SlotsAt, View, Entry
<1>3. CASE {i \in DOMAIN levels'[side] : levels'[side][i].price = price} # {}
  BY <1>1, <1>3 DEF QueueAt, SlotsAt, View, Entry
<1> QED  BY <1>2, <1>3

\* One queue changes.
LEMMA QueuesUpdate ==
    ASSUME NEW sd \in Side, NEW pr \in Prices, NEW q,
           \A side \in Side : \A price \in Prices :
               Queues'[side][price] = IF side = sd /\ price = pr THEN q ELSE Queues[side][price]
    PROVE  Queues' = [Queues EXCEPT ![sd] = [@ EXCEPT ![pr] = q]]
<1>1. PICK f : f = Queues  OBVIOUS
<1>2. PICK g : g = Queues'  OBVIOUS
<1>3. f = [side \in Side |-> [price \in Prices |-> f[side][price]]]  BY <1>1 DEF Queues
<1>4. g = [side \in Side |-> [price \in Prices |-> g[side][price]]]  BY <1>2 DEF Queues
<1>5. PICK h : h = [f EXCEPT ![sd] = [@ EXCEPT ![pr] = q]]  OBVIOUS
<1>6. \A side \in Side : g[side] = h[side]
  <2> SUFFICES ASSUME NEW side \in Side PROVE g[side] = h[side]  OBVIOUS
  <2>1. CASE side = sd
    <3>1. h[side] = [f[side] EXCEPT ![pr] = q]  BY <1>3, <1>5, <2>1
    <3>2. f[side] = [price \in Prices |-> f[side][price]]  BY <1>3
    <3>3. h[side] = [price \in Prices |-> IF price = pr THEN q ELSE f[side][price]]
      BY <3>1, <3>2
    <3>4. g[side] = [price \in Prices |-> g[side][price]]  BY <1>4
    <3>5. \A price \in Prices : g[side][price] = IF price = pr THEN q ELSE f[side][price]
      BY <1>1, <1>2, <2>1
    <3> QED  BY <3>3, <3>4, <3>5
  <2>2. CASE side # sd
    <3>1. h[side] = f[side]  BY <1>3, <1>5, <2>2
    <3>2. f[side] = [price \in Prices |-> f[side][price]]  BY <1>3
    <3>3. g[side] = [price \in Prices |-> g[side][price]]  BY <1>4
    <3>4. \A price \in Prices : g[side][price] = f[side][price]  BY <1>1, <1>2, <2>2
    <3> QED  BY <3>1, <3>2, <3>3, <3>4
  <2> QED  BY <2>1, <2>2
<1>7. g = [side \in Side |-> g[side]] /\ h = [side \in Side |-> h[side]]  BY <1>3, <1>4, <1>5
<1>8. g = h  BY <1>6, <1>7
<1> QED  BY <1>1, <1>2, <1>5, <1>8

\* No queue changes while the resting orders and the links between them stay.
LEMMA QueuesStay ==
    ASSUME ListsAt, ListsAt', Resting' = Resting,
           \A s \in Resting : order'[s] = order[s] /\ prev'[s] = prev[s]
    PROVE  Queues' = Queues
<1>1. ASSUME NEW side \in Side, NEW price \in Prices
      PROVE  Queues'[side][price] = Queues[side][price]
  <2>1. AtPlace(side, price)' = AtPlace(side, price)
    <3>1. AtPlace(side, price)' = {s \in Resting' : order'[s].side = side /\ order'[s].price = price}
      BY DEF AtPlace
    <3> QED  BY <3>1 DEF AtPlace
  <2>2. PICK S : S = AtPlace(side, price)  OBVIOUS
  <2>3. \A s \in S : s \in Resting  BY <2>2, PlaceFacts
  <2>4. SlotsAt(side, price)' = SlotsAt(side, price)  BY <2>1, <2>2, <2>3, SlotsKept
  <2>5. PICK c : c = SlotsAt(side, price)  OBVIOUS
  <2>6. \A k \in DOMAIN c : c[k] \in S  BY <2>2, <2>5 DEF ListsAt, IsList
  <2>7. \A k \in DOMAIN c : Entry(order', c[k]) = Entry(order, c[k])
    BY <2>3, <2>6 DEF Entry
  <2>8. View(order', c) = View(order, c)  BY <2>7 DEF View
  <2> QED  BY <2>4, <2>5, <2>8, QueuesNext, QueuesAre
<1>2. PICK f : f = Queues  OBVIOUS
<1>3. PICK g : g = Queues'  OBVIOUS
<1>4. f = [side \in Side |-> [price \in Prices |-> f[side][price]]]  BY <1>2 DEF Queues
<1>5. g = [side \in Side |-> [price \in Prices |-> g[side][price]]]  BY <1>3 DEF Queues
<1>6. \A side \in Side : \A price \in Prices : g[side][price] = f[side][price]
  BY <1>1, <1>2, <1>3
<1> QED  BY <1>2, <1>3, <1>4, <1>5, <1>6

\* An order leaves its queue, and the others stay as they were.
LEMMA QueuesRemove ==
    ASSUME IInv, ListsAt, ListsAt', NEW s, NEW l, NEW ll, Unlinked(s, l, ll),
           \A t \in Resting \ {s} : order'[t] = order[t]
    PROVE  \E i \in DOMAIN SlotsAt(order[s].side, order[s].price) :
              /\ SlotsAt(order[s].side, order[s].price)[i] = s
              /\ Queues' = [Queues EXCEPT ![order[s].side] =
                    [@ EXCEPT ![order[s].price] =
                        RemoveAt(Queues[order[s].side][order[s].price], i)]]
<1>1. s \in Resting /\ order[s].side \in Side /\ order[s].price \in Prices
  BY LiveOrder DEF Unlinked, Resting, IInv
<1>2. PICK sd \in Side : sd = order[s].side  BY <1>1
<1>3. PICK pr \in Prices : pr = order[s].price  BY <1>1
<1>4. PICK i \in DOMAIN SlotsAt(sd, pr) :
          SlotsAt(sd, pr)[i] = s /\ SlotsAt(sd, pr)' = RemoveAt(SlotsAt(sd, pr), i)
  BY <1>2, <1>3, SlotsUnlinked
<1>5. ASSUME NEW side \in Side, NEW price \in Prices
      PROVE  Queues'[side][price] = IF side = sd /\ price = pr THEN RemoveAt(Queues[sd][pr], i)
                                    ELSE Queues[side][price]
  <2>1. PICK c : c = SlotsAt(side, price)  OBVIOUS
  <2>2. PICK S : S = AtPlace(side, price)  OBVIOUS
  <2>3. IsList(prev, S, c) /\ \A t \in S : t \in Resting
    BY <2>1, <2>2, PlaceFacts DEF ListsAt
  <2>4. c \in Seq(S) /\ IsInjective(c) /\ \A k \in DOMAIN c : c[k] \in S
    BY <2>3 DEF IsList
  <2>5. View(order, c) = Queues[side][price]  BY <2>1, QueuesAre
  <2>6. CASE side = sd /\ price = pr
    <3>1. i \in DOMAIN c /\ c[i] = s  BY <1>4, <2>1, <2>6
    <3>2. \A k \in DOMAIN c : k # i => c[k] \in Resting \ {s}
      BY <2>3, <2>4, <3>1 DEF IsInjective
    <3>3. \A k \in DOMAIN c : k # i => Entry(order', c[k]) = Entry(order, c[k])
      BY <3>2 DEF Entry
    <3>4. View(order, c) \in Seq(Entries)  BY <2>5, QueueFacts
    <3>5. PICK o : o = order'  OBVIOUS
    <3>6. View(o, RemoveAt(c, i)) = RemoveAt(View(order, c), i)
      BY <2>4, <3>1, <3>3, <3>4, <3>5, ViewRemove
    <3> QED  BY <1>4, <2>1, <2>5, <2>6, <3>5, <3>6, QueuesNext
  <2>7. CASE ~(side = sd /\ price = pr)
    <3>1. SlotsAt(side, price)' = c  BY <1>2, <1>3, <2>1, <2>7, SlotsUnlinked
    <3>2. ASSUME NEW k \in DOMAIN c PROVE Entry(order', c[k]) = Entry(order, c[k])
      <4>1. c[k] \in Resting /\ order[c[k]].side = side /\ order[c[k]].price = price
        BY <2>2, <2>4, PlaceFacts
      <4> QED  BY <1>2, <1>3, <2>7, <4>1 DEF Entry
    <3>3. View(order', c) = View(order, c)  BY <3>2 DEF View
    <3> QED  BY <2>5, <2>7, <3>1, <3>3, QueuesNext
  <2> QED  BY <2>6, <2>7
<1>6. Queues' = [Queues EXCEPT ![sd] = [@ EXCEPT ![pr] = RemoveAt(Queues[sd][pr], i)]]
  BY <1>5, QueuesUpdate
<1> QED  BY <1>2, <1>3, <1>4, <1>6

\* Execute, Settle, Cancel and Submit of PriceTimeBook, read through the mapping.
Execution ==
    LET side == Abstract!Opposite(Incoming.side)
        reach == Abstract!Reachable(Incoming.side, Incoming.type, Incoming.price)
        p == Abstract!BestOf(Incoming.side, reach)
        maker == Head(Queues[side][p])
        fill == Abstract!Min({Incoming.qty, maker.qty})
        left == IF fill = maker.qty THEN Tail(Queues[side][p])
                ELSE [Queues[side][p] EXCEPT ![1] = [maker EXCEPT !.qty = maker.qty - fill]]
    IN  /\ Incoming # NULL
        /\ Incoming.qty > 0 /\ reach # {}
        /\ out' = [event |-> "trade", maker |-> maker.id, taker |-> Incoming.id,
                   price |-> p, qty |-> fill]
        /\ Incoming' = [Incoming EXCEPT !.qty = Incoming.qty - fill]
        /\ Queues' = [Queues EXCEPT ![side] = [@ EXCEPT ![p] = left]]

\* PriceTimeBook's Execute, with the names of the refinement.
LEMMA ExecuteIs == Execution => Abstract!Execute
  BY Zenon DEF Execution, Abstract!Execute, Queues, Incoming

\* Its Settle, with the names of the refinement.
LEMMA SettleIs ==
    ASSUME Incoming # NULL,
           \/ Incoming.qty = 0
           \/ Abstract!Reachable(Incoming.side, Incoming.type, Incoming.price) = {},
           Incoming.type = "fok" => Incoming.qty = 0,
           Queues' = IF Incoming.qty > 0 /\ Incoming.type = "limit"
                THEN [Queues EXCEPT ![Incoming.side] = [@ EXCEPT ![Incoming.price] =
                        Append(Queues[Incoming.side][Incoming.price],
                               [id |-> Incoming.id, qty |-> Incoming.qty])]]
                ELSE Queues,
           Incoming' = NULL, out' = Returned(TRUE)
    PROVE  Abstract!Settle
  BY Zenon DEF Abstract!Settle, Abstract!Answer, Queues, Incoming, Returned

\* Its Cancel, with the names of the refinement.
LEMMA CancelIs ==
    ASSUME NEW id, Incoming = NULL, out' = Returned(~Abstract!Unknown(id)),
       Queues' = [side \in Side |-> [p \in Prices |-> Abstract!Without(Queues[side][p], id)]],
       Incoming' = Incoming
    PROVE  Abstract!Cancel(id)
  BY Zenon DEF Abstract!Cancel, Abstract!Answer, Abstract!Side, Side, Queues, Incoming, Returned

\* Its Submit, with the names of the refinement.
LEMMA SubmitIs ==
    ASSUME NEW id, NEW side, NEW type, NEW price, NEW qty,
       Incoming = NULL, Abstract!Unknown(id), Queues' = Queues,
       IF qty = 0 THEN out' = Returned(TRUE) /\ Incoming' = Incoming
       ELSE \/ ~Abstract!Room /\ out' = Returned(FALSE) /\ Incoming' = Incoming
            \/ /\ Abstract!Room
               /\ IF type = "fok" /\ Abstract!Available(side, type, price) < qty
                  THEN out' = Returned(TRUE) /\ Incoming' = Incoming
                  ELSE /\ Incoming' = [id |-> id, side |-> side, type |-> type,
                                       price |-> price, qty |-> qty]
                       /\ out' = Quiet
    PROVE  Abstract!Submit(id, side, type, price, qty)
  BY Zenon DEF Abstract!Submit, Abstract!Answer, Abstract!Refuse, Abstract!Ignore,
               Abstract!Accept, Queues, Incoming, Returned, Quiet

\* Its incoming order is the taker.
LEMMA IncomingIs ==
    /\ taker = NULL => Incoming = NULL
    /\ taker # NULL => Incoming = order[taker]
    /\ taker' = NULL => Incoming' = NULL
    /\ taker' # NULL => Incoming' = order'[taker']
  BY DEF Incoming

\* A live order is not the mark of a released slot.
LEMMA IncomingLive ==
    ASSUME IInv, taker # NULL
    PROVE  /\ Incoming = order[taker] /\ Incoming # NULL /\ taker \in Slots
           /\ order[taker] \in Order /\ order[taker].id \in Ids /\ order[taker].side \in Side
           /\ order[taker].price \in Prices /\ order[taker].qty \in Nat
<1>1. taker \in Slots /\ order[taker] # NULL  BY DEF IInv, TypeOK, TakerLive
<1>2. order[taker].qty \in 0..QtyModulus - 1  BY <1>1, LiveOrder DEF IInv
<1>3. order[taker].qty \in Nat  BY <1>2, ModulusAssumption
<1> QED  BY <1>1, <1>3, IncomingIs, LiveOrder DEF IInv

\* The scan of the level totals sees what PriceTimeBook calls available.
LEMMA ScanAvailable ==
    ASSUME RInv, ~AllowDuplicateIds, NEW side \in Side, NEW price \in Prices, NEW qty \in Nat
    PROVE  Fillable(side, price, qty) <=> ~(Abstract!Available(side, "fok", price) < qty)
<1>1. TInv /\ IInv /\ TypeOK /\ QuantityBound  BY DEF RInv, TInv, IInv
<1>2. \A p \in Prices : Remaining(AtPlace(Opposite(side), p)) < QtyModulus
  BY <1>1, PlaceFits
<1>3. PICK a : a = Abstract!Available(side, "fok", price)  OBVIOUS
<1>4. Scan(levels[Opposite(side)], side, price) = a
  BY <1>1, <1>2, <1>3, ScanExact, AvailableIs
<1>5. a \in Nat
  <2>1. Opposite(side) \in Side  BY DEF Opposite, Side
  <2>2. levels[Opposite(side)] \in Seq(Level)  BY <1>1, <2>1 DEF TypeOK
  <2> QED  BY <1>4, <2>2, ScanNat
<1> QED  BY <1>3, <1>4, <1>5, FillableIs

-----------------------------------------------------------------------------
(* Every step of the book is a step of PriceTimeBook.                      *)

\* submit() up to the matching is Submit.
LEMMA SubmitMaps ==
    ASSUME RInv, RInv', ~AllowDuplicateIds,
           NEW id \in Ids, NEW side \in Side, NEW type \in OrderType,
           NEW price \in Prices, NEW qty \in Quantities,
           Submit(id, side, type, price, qty)
    PROVE  Abstract!Submit(id, side, type, price, qty)
<1>1. IInv /\ TypeOK /\ ListsAt /\ ListsAt' /\ FreeList  BY DEF RInv, TInv, IInv
<1>2. taker = NULL /\ index[id] = NULL /\ Incoming = NULL
  BY IncomingIs DEF Submit
<1>3. Abstract!Unknown(id) /\ (Abstract!Room <=> free # <<>>)
  BY <1>1, <1>2, UnknownIs, RoomIs
<1>4. qty \in Nat  BY QuantitiesAssumption, ModulusAssumption
<1>5. type = "fok" =>
        (Fillable(side, price, qty) <=> ~(Abstract!Available(side, type, price) < qty))
  BY <1>4, ScanAvailable
<1>6. CASE UNCHANGED <<order, prev, next, free, levels, index, taker>>
  <2>1. Queues' = Queues
    <3>1. Resting' = Resting  BY <1>6 DEF Resting
    <3> QED  BY <1>1, <1>6, <3>1, QueuesStay
  <2>2. Incoming' = Incoming  BY <1>6 DEF Incoming
  <2>3. CASE qty = 0 /\ SubmitNothing
    BY <1>2, <1>3, <2>1, <2>2, <2>3, SubmitIs DEF SubmitNothing
  <2>4. CASE qty > 0 /\ SubmitExhausted
    <3>1. ~Abstract!Room /\ out' = Returned(FALSE) /\ qty # 0
      BY <1>3, <1>4, <2>4 DEF SubmitExhausted
    <3> QED  BY <1>2, <1>3, <2>1, <2>2, <3>1, SubmitIs, Zenon
  <2>5. CASE qty > 0 /\ SubmitKilled(side, type, price, qty)
    <3>1. /\ Abstract!Room /\ out' = Returned(TRUE) /\ qty # 0
          /\ type = "fok" /\ Abstract!Available(side, type, price) < qty
      BY <1>3, <1>4, <1>5, <2>5 DEF SubmitKilled
    <3> QED  BY <1>2, <1>3, <2>1, <2>2, <3>1, SubmitIs, Zenon
  <2>6. ~SubmitAdmitted(id, side, type, price, qty)
    <3> SUFFICES ASSUME SubmitAdmitted(id, side, type, price, qty) PROVE FALSE  OBVIOUS
    <3>1. taker' = Head(free) /\ free # <<>>  BY DEF SubmitAdmitted
    <3>2. Head(free) \in Slots  BY <1>1, <3>1 DEF TypeOK
    <3> QED  BY <1>2, <1>6, <3>1, <3>2, NullAssumption
  <2> QED  BY <2>3, <2>4, <2>5, <2>6 DEF Submit
<1>7. CASE qty > 0 /\ SubmitAdmitted(id, side, type, price, qty)
  <2>1. PICK h : h = Head(free)  OBVIOUS
  <2>2. PICK r : r = [id |-> id, side |-> side, type |-> type, price |-> price, qty |-> qty]
    OBVIOUS
  <2>3. /\ free # <<>> /\ taker' = h /\ order' = [order EXCEPT ![h] = r]
        /\ prev' = [prev EXCEPT ![h] = NULL] /\ out' = Quiet
        /\ type = "fok" => Fillable(side, price, qty)
    BY <1>7, <2>1, <2>2 DEF SubmitAdmitted
  <2>4. h \in Slots /\ h # NULL /\ order[h] = NULL
    <3>1. PICK f \in Seq(Slots) : f = free  BY <1>1 DEF TypeOK
    <3>2. 1 \in DOMAIN f /\ h = f[1] /\ f[1] \in Slots
      <4>1. Len(f) \in Nat /\ DOMAIN f = 1..Len(f) /\ Len(f) # 0  BY <2>3, <3>1, EmptySeq
      <4> QED  BY <2>1, <3>1, <4>1
    <3> QED  BY <1>1, <3>1, <3>2, NullAssumption DEF FreeList
  <2>5. /\ \A s \in Slots : order'[s] = IF s = h THEN r ELSE order[s]
        /\ \A s \in Slots : prev'[s] = IF s = h THEN NULL ELSE prev[s]
    BY <1>1, <2>3 DEF TypeOK
  <2>6. Resting' = Resting
    <3>1. Resting' = {s \in Slots : order'[s] # NULL /\ s # taker'}  BY DEF Resting
    <3> QED  BY <1>2, <2>3, <2>4, <2>5, <3>1, NullAssumption DEF Resting
  <2>7. \A s \in Resting : order'[s] = order[s] /\ prev'[s] = prev[s]
    BY <2>4, <2>5 DEF Resting
  <2>8. Queues' = Queues  BY <1>1, <2>6, <2>7, QueuesStay
  <2>9. Incoming' = r  BY <2>3, <2>4, <2>5, IncomingIs
  <2>10. Abstract!Room /\ qty # 0 /\ ~(type = "fok" /\ Abstract!Available(side, type, price) < qty)
    BY <1>3, <1>4, <1>5, <1>7, <2>3
  <2> QED  BY <1>2, <1>3, <2>2, <2>3, <2>8, <2>9, <2>10, SubmitIs, Zenon
<1>8. UNCHANGED <<order, prev, next, free, levels, index, taker>>
        \/ (qty > 0 /\ SubmitAdmitted(id, side, type, price, qty))
  BY DEF Submit, SubmitNothing, SubmitExhausted, SubmitKilled
<1> QED  BY <1>6, <1>7, <1>8

\* Min of two numbers.
LEMMA MinOfTwo ==
    ASSUME NEW a \in Int, NEW b \in Int
    PROVE  Abstract!Min({a, b}) = IF a <= b THEN a ELSE b
<1>1. PICK m \in {a, b} : m = IF a <= b THEN a ELSE b  OBVIOUS
<1>2. \A x \in {a, b} : m <= x  BY <1>1
<1>3. \A x \in {a, b} : (\A y \in {a, b} : x <= y) => x = m  BY <1>1
<1> QED  BY <1>1, <1>2, <1>3 DEF Abstract!Min

\* One entry of a list changes.
LEMMA ViewChange ==
    ASSUME NEW o, NEW p, NEW c, NEW i \in DOMAIN c,
           \A k \in DOMAIN c : k # i => Entry(p, c[k]) = Entry(o, c[k])
    PROVE  View(p, c) = [View(o, c) EXCEPT ![i] = Entry(p, c[i])]
  BY DEF View

\* Who waits first at the best price is the head of the best level.
LEMMA BestQueue ==
    ASSUME IInv, taker # NULL, CanMatch, NEW maker, maker = Best.head,
           NEW side, side = Opposite(order[taker].side)
    PROVE  /\ side \in Side /\ Best.price \in Prices /\ Best \in Range(levels[side])
           /\ maker \in AtPlace(side, Best.price) /\ maker \in Resting
           /\ SlotsAt(side, Best.price) \in Seq(AtPlace(side, Best.price))
           /\ IsInjective(SlotsAt(side, Best.price))
           /\ 1 \in DOMAIN SlotsAt(side, Best.price) /\ SlotsAt(side, Best.price)[1] = maker
           /\ Queues[side][Best.price] \in Seq(Entries) /\ Queues[side][Best.price] # <<>>
           /\ Queues[side][Best.price] = View(order, SlotsAt(side, Best.price))
           /\ Head(Queues[side][Best.price]) = Entry(order, maker)
           /\ Entry(order, maker).id = order[maker].id
           /\ Entry(order, maker).qty = order[maker].qty
           /\ order[maker].price = Best.price /\ order[maker].side = side
<1>1. PICK l : l = Best  OBVIOUS
<1>2. side \in Side  BY DEF Opposite, Side
<1>3. l \in Range(levels[side])
  BY <1>1, MatchIs
<1>4. l.price \in Prices  BY <1>2, <1>3, LevelFacts DEF IInv
<1>5. PICK c : c = SlotsAt(side, l.price)  OBVIOUS
<1>6. IsList(prev, AtPlace(side, l.price), c) /\ c # <<>> /\ c[1] = maker /\ 1 \in DOMAIN c
  BY <1>1, <1>2, <1>3, <1>5, SlotsOfLevel
<1>7. c \in Seq(AtPlace(side, l.price)) /\ IsInjective(c) /\ maker \in AtPlace(side, l.price)
  BY <1>6 DEF IsList
<1>8. maker \in Resting /\ order[maker].price = l.price /\ order[maker].side = side
  BY <1>7, PlaceFacts
<1>9. PICK q \in Seq(Entries) : q = Queues[side][l.price]  BY <1>2, <1>4, QueueFacts
<1>10. q = View(order, c)  BY <1>2, <1>4, <1>5, <1>9, QueuesAre
<1>11. DOMAIN q = DOMAIN c /\ q[1] = Entry(order, maker)
  BY <1>6, <1>10 DEF View
<1>12. q # <<>> /\ Head(q) = q[1]
  <2>1. 1 \in DOMAIN q  BY <1>6, <1>11
  <2> QED  BY <2>1
<1>13. Entry(order, maker).id = order[maker].id /\ Entry(order, maker).qty = order[maker].qty
  BY <1>8, EntryFacts DEF IInv
<1> QED
  BY <1>1, <1>2, <1>3, <1>4, <1>5, <1>6, <1>7, <1>8, <1>9, <1>10, <1>11, <1>12, <1>13

\* A fill that leaves something of the maker is Execute.
LEMMA PartialMaps ==
    ASSUME RInv, RInv', ~AllowDuplicateIds, taker # NULL, CanMatch,
           NEW maker \in Slots, maker = Best.head, FillPartial(maker)
    PROVE  Abstract!Execute
<1>1. IInv /\ TypeOK /\ ListsAt /\ ListsAt'  BY DEF RInv, TInv, IInv
<1>2. PICK side : side = Opposite(order[taker].side)  OBVIOUS
<1>3. PICK p : p = Best.price  OBVIOUS
<1>4. PICK c : c = SlotsAt(side, p)  OBVIOUS
<1>5. PICK q : q = Queues[side][p]  OBVIOUS
<1>6. PICK e \in Order : e = order[taker]  BY <1>1, IncomingLive
<1>7. PICK m : m = Entry(order, maker)  OBVIOUS
<1>8. /\ side \in Side /\ p \in Prices /\ maker \in AtPlace(side, p) /\ maker \in Resting
      /\ c \in Seq(AtPlace(side, p)) /\ IsInjective(c) /\ 1 \in DOMAIN c /\ c[1] = maker
      /\ q \in Seq(Entries) /\ q # <<>> /\ q = View(order, c) /\ Head(q) = m
      /\ m.id = order[maker].id /\ m.qty = order[maker].qty
      /\ order[maker].price = p /\ order[maker].side = side
  BY <1>1, <1>2, <1>3, <1>4, <1>5, <1>7, BestQueue
<1>9. Incoming = e /\ Incoming # NULL /\ e.qty \in Nat /\ e.side \in Side
  BY <1>1, <1>6, IncomingLive
<1>10. m \in Entries /\ m.qty \in Nat
  <2>1. m \in Entries  BY <1>1, <1>7, <1>8, EntryFacts
  <2> QED  BY <2>1 DEF Entries
<1>11. PICK reach : reach = Abstract!Reachable(Incoming.side, Incoming.type, Incoming.price)
  OBVIOUS
<1>12. e.qty > 0 /\ reach # {} /\ p = Abstract!BestOf(Incoming.side, reach)
  BY <1>1, <1>3, <1>6, <1>9, <1>11, MatchIs
<1>13. PICK fill : fill = e.qty  OBVIOUS
<1>14. fill < m.qty /\ taker' = taker /\ prev' = prev
  BY <1>6, <1>8, <1>13 DEF FillPartial
<1>15. fill = Abstract!Min({Incoming.qty, m.qty}) /\ fill # m.qty /\ e.qty - fill = 0
  BY <1>9, <1>10, <1>13, <1>14, MinOfTwo
<1>16. out' = [event |-> "trade", maker |-> m.id, taker |-> Incoming.id, price |-> p, qty |-> fill]
  BY <1>6, <1>8, <1>9, <1>13 DEF FillPartial, Trade
<1>17. /\ Resting' = Resting /\ order'[taker] = [order[taker] EXCEPT !.qty = 0]
       /\ order'[maker] = [order[maker] EXCEPT !.qty = @ - order[taker].qty]
       /\ \A t \in Slots \ {maker, taker} : order'[t] = order[t]
  BY <1>1, FillPartialStep
<1>18. Incoming' = [Incoming EXCEPT !.qty = Incoming.qty - fill]
  <2>1. Incoming' = order'[taker]  BY <1>14, IncomingIs
  <2> QED  BY <1>6, <1>9, <1>13, <1>15, <1>17, <2>1
<1>19. Entry(order', maker) = [m EXCEPT !.qty = m.qty - fill]
  <2>1. order[maker] \in Order  BY <1>1, <1>8, LiveOrder DEF Resting
  <2>2. order'[maker].id = order[maker].id /\ order'[maker].qty = order[maker].qty - order[taker].qty
    BY <1>17, <2>1 DEF Order
  <2> QED  BY <1>6, <1>7, <1>8, <1>13, <2>2 DEF Entry
<1>20. \A t \in Resting : /\ order'[t].side = order[t].side /\ order'[t].price = order[t].price
                          /\ t # maker => order'[t] = order[t]
  <2> SUFFICES ASSUME NEW t \in Resting
               PROVE  /\ order'[t].side = order[t].side /\ order'[t].price = order[t].price
                      /\ t # maker => order'[t] = order[t]
    OBVIOUS
  <2>1. t # maker => order'[t] = order[t]  BY <1>17 DEF Resting
  <2>2. order[maker] \in Order  BY <1>1, <1>8, LiveOrder DEF Resting
  <2>3. order'[maker].side = order[maker].side /\ order'[maker].price = order[maker].price
    BY <1>17, <2>2 DEF Order
  <2> QED  BY <2>1, <2>3
<1>21. ASSUME NEW sd \in Side, NEW pr \in Prices
       PROVE  Queues'[sd][pr] =
                IF sd = side /\ pr = p THEN [q EXCEPT ![1] = [m EXCEPT !.qty = m.qty - fill]]
                ELSE Queues[sd][pr]
  <2>1. AtPlace(sd, pr)' = AtPlace(sd, pr)
    <3>1. AtPlace(sd, pr)' = {t \in Resting' : order'[t].side = sd /\ order'[t].price = pr}
      BY DEF AtPlace
    <3> QED  BY <1>17, <1>20, <3>1 DEF AtPlace
  <2>2. PICK d : d = SlotsAt(sd, pr)  OBVIOUS
  <2>3. SlotsAt(sd, pr)' = d  BY <1>1, <1>14, <2>1, <2>2, SlotsKept
  <2>4. PICK S : S = AtPlace(sd, pr)  OBVIOUS
  <2>5. \A k \in DOMAIN d : d[k] \in S  BY <1>1, <2>2, <2>4 DEF ListsAt, IsList
  <2>6. \A t \in S : t \in Resting /\ order[t].side = sd /\ order[t].price = pr
    BY <2>4, PlaceFacts
  <2>7. \A k \in DOMAIN d : d[k] # maker => Entry(order', d[k]) = Entry(order, d[k])
    BY <1>20, <2>5, <2>6 DEF Entry
  <2>8. CASE sd = side /\ pr = p
    <3>1. d = c  BY <1>4, <2>2, <2>8
    <3>2. \A k \in DOMAIN c : k # 1 => Entry(order', c[k]) = Entry(order, c[k])
      BY <1>8, <2>7, <3>1 DEF IsInjective
    <3>3. PICK o : o = order'  OBVIOUS
    <3>4. View(o, c) = [View(order, c) EXCEPT ![1] = Entry(o, c[1])]
      BY <1>8, <3>2, <3>3, ViewChange
    <3>5. Queues'[sd][pr] = View(o, c)  BY <2>3, <3>1, <3>3, QueuesNext
    <3>6. Entry(o, c[1]) = [m EXCEPT !.qty = m.qty - fill]  BY <1>8, <1>19, <3>3
    <3> QED  BY <1>8, <2>8, <3>4, <3>5, <3>6
  <2>9. CASE ~(sd = side /\ pr = p)
    <3>1. \A k \in DOMAIN d : d[k] # maker  BY <1>8, <2>5, <2>6, <2>9
    <3>2. View(order', d) = View(order, d)  BY <2>7, <3>1 DEF View
    <3> QED  BY <2>2, <2>3, <2>9, <3>2, QueuesNext, QueuesAre
  <2> QED  BY <2>8, <2>9
<1>22. PICK left : left = [q EXCEPT ![1] = [m EXCEPT !.qty = m.qty - fill]]  OBVIOUS
<1>23. Queues' = [Queues EXCEPT ![side] = [@ EXCEPT ![p] = left]]
  <2>1. \A sd \in Side : \A pr \in Prices :
            Queues'[sd][pr] = IF sd = side /\ pr = p THEN left ELSE Queues[sd][pr]
    BY <1>21, <1>22
  <2>2. side \in Side /\ p \in Prices  BY <1>8
  <2> QED  BY <2>1, <2>2, QueuesUpdate
<1>24. left = IF fill = m.qty THEN Tail(q) ELSE [q EXCEPT ![1] = [m EXCEPT !.qty = m.qty - fill]]
  BY <1>15, <1>22
<1>25. side = Abstract!Opposite(Incoming.side)
  BY <1>2, <1>6, <1>9 DEF Abstract!Opposite, Opposite
<1>26. Incoming.qty > 0 /\ m = Head(q)  BY <1>8, <1>9, <1>12
<1>30. Execution
  BY <1>5, <1>9, <1>11, <1>12, <1>15, <1>16, <1>18, <1>23, <1>24, <1>25, <1>26 DEF Execution
<1> QED  BY <1>30, ExecuteIs

\* A fill that uses up the maker is Execute, and takes it from its queue.
LEMMA MakerMaps ==
    ASSUME RInv, RInv', ~AllowDuplicateIds, taker # NULL, CanMatch,
           NEW maker \in Slots, maker = Best.head, FillMaker(maker)
    PROVE  Abstract!Execute
<1>1. IInv /\ TypeOK /\ ListsAt /\ ListsAt'  BY DEF RInv, TInv, IInv
<1>2. PICK side : side = Opposite(order[taker].side)  OBVIOUS
<1>3. PICK p : p = Best.price  OBVIOUS
<1>4. PICK c : c = SlotsAt(side, p)  OBVIOUS
<1>5. PICK q : q = Queues[side][p]  OBVIOUS
<1>6. PICK e \in Order : e = order[taker]  BY <1>1, IncomingLive
<1>7. PICK m : m = Entry(order, maker)  OBVIOUS
<1>8. /\ side \in Side /\ p \in Prices /\ maker \in AtPlace(side, p) /\ maker \in Resting
      /\ c \in Seq(AtPlace(side, p)) /\ IsInjective(c) /\ 1 \in DOMAIN c /\ c[1] = maker
      /\ q \in Seq(Entries) /\ q # <<>> /\ q = View(order, c) /\ Head(q) = m
      /\ m.id = order[maker].id /\ m.qty = order[maker].qty
      /\ order[maker].price = p /\ order[maker].side = side
  BY <1>1, <1>2, <1>3, <1>4, <1>5, <1>7, BestQueue
<1>9. Incoming = e /\ Incoming # NULL /\ e.qty \in Nat /\ e.side \in Side
  BY <1>1, <1>6, IncomingLive
<1>10. m \in Entries /\ m.qty \in Nat
  <2>1. m \in Entries  BY <1>1, <1>7, <1>8, EntryFacts
  <2> QED  BY <2>1 DEF Entries
<1>11. PICK reach : reach = Abstract!Reachable(Incoming.side, Incoming.type, Incoming.price)
  OBVIOUS
<1>12. e.qty > 0 /\ reach # {} /\ p = Abstract!BestOf(Incoming.side, reach)
  BY <1>1, <1>3, <1>6, <1>9, <1>11, MatchIs
<1>13. PICK fill : fill = m.qty  OBVIOUS
<1>14. fill <= e.qty /\ taker' = taker
  BY <1>6, <1>8, <1>13 DEF FillMaker
<1>15. fill = Abstract!Min({Incoming.qty, m.qty})
  BY <1>9, <1>10, <1>13, <1>14, MinOfTwo
<1>16. out' = [event |-> "trade", maker |-> m.id, taker |-> Incoming.id, price |-> p, qty |-> fill]
  BY <1>6, <1>8, <1>9, <1>13 DEF FillMaker, Trade
<1>17. PICK ll : Unlinked(maker, Best, ll)  BY <1>1, FillMakerStep
<1>18. /\ maker # taker /\ order'[taker] = [order[taker] EXCEPT !.qty = @ - order[maker].qty]
       /\ \A t \in Slots \ {maker, taker} : order'[t] = order[t]
  BY <1>1, FillMakerStep
<1>19. Incoming' = [Incoming EXCEPT !.qty = Incoming.qty - fill]
  <2>1. Incoming' = order'[taker]  BY <1>14, IncomingIs
  <2> QED  BY <1>6, <1>8, <1>9, <1>13, <1>18, <2>1
<1>20. PICK left : left = Tail(q)  OBVIOUS
<1>21. Queues' = [Queues EXCEPT ![side] = [@ EXCEPT ![p] = left]]
  <2>1. \A t \in Resting \ {maker} : order'[t] = order[t]  BY <1>18 DEF Resting
  <2>2. PICK i \in DOMAIN c :
            /\ c[i] = maker
            /\ Queues' = [Queues EXCEPT ![side] = [@ EXCEPT ![p] = RemoveAt(q, i)]]
    <3>1. \E i \in DOMAIN SlotsAt(order[maker].side, order[maker].price) :
             /\ SlotsAt(order[maker].side, order[maker].price)[i] = maker
             /\ Queues' = [Queues EXCEPT ![order[maker].side] =
                  [@ EXCEPT ![order[maker].price] =
                      RemoveAt(Queues[order[maker].side][order[maker].price], i)]]
      BY <1>1, <1>17, <2>1, QueuesRemove, Zenon
    <3> QED  BY <1>4, <1>5, <1>8, <3>1
  <2>3. i = 1  BY <1>8, <2>2 DEF IsInjective
  <2>4. RemoveAt(q, i) = left  BY <1>8, <1>20, <2>3, TailRemoves
  <2> QED  BY <2>2, <2>4
<1>22. left = IF fill = m.qty THEN Tail(q) ELSE [q EXCEPT ![1] = [m EXCEPT !.qty = m.qty - fill]]
  BY <1>13, <1>20
<1>23. side = Abstract!Opposite(Incoming.side)
  BY <1>2, <1>6, <1>9 DEF Abstract!Opposite, Opposite
<1>24. Incoming.qty > 0 /\ m = Head(q)  BY <1>8, <1>9, <1>12
<1>30. Execution
  BY <1>5, <1>9, <1>11, <1>12, <1>15, <1>16, <1>19, <1>21, <1>22, <1>23, <1>24 DEF Execution
<1> QED  BY <1>30, ExecuteIs

\* A remainder that rests settles the order.
LEMMA RestMaps ==
    ASSUME RInv, RInv', ~AllowDuplicateIds, taker # NULL, ~CanMatch, Rest,
           taker' = NULL, out' = Returned(TRUE)
    PROVE  Abstract!Settle
<1>1. IInv /\ TypeOK /\ ListsAt /\ ListsAt'  BY DEF RInv, TInv, IInv
<1>2. PICK e \in Order : e = order[taker]  BY <1>1, IncomingLive
<1>3. /\ Incoming = e /\ Incoming # NULL /\ taker \in Slots /\ order[taker] # NULL
      /\ e.id \in Ids /\ e.qty \in Nat /\ e.side \in Side /\ e.price \in Prices
  BY <1>1, <1>2, IncomingLive DEF IInv, TakerLive
<1>4. e.qty > 0 /\ e.type = "limit" /\ order' = order  BY <1>2 DEF Rest
<1>5. PICK reach : reach = Abstract!Reachable(Incoming.side, Incoming.type, Incoming.price)
  OBVIOUS
<1>6. reach = {}
  BY <1>1, <1>2, <1>3, <1>4, <1>5, MatchIs
<1>7. PICK tl, ll : Appended(taker, tl, ll)  BY <1>1, RestStep
<1>8. PICK sd \in Side : sd = e.side  BY <1>3
<1>9. PICK pr \in Prices : pr = e.price  BY <1>3
<1>10. PICK n : n = [id |-> e.id, qty |-> e.qty]  OBVIOUS
<1>11. n \in Entries /\ Entry(order, taker) = n  BY <1>2, <1>3, <1>10 DEF Entry, Entries
<1>12. \A side \in Side : \A price \in Prices :
           Queues'[side][price] = IF side = sd /\ price = pr THEN Append(Queues[sd][pr], n)
                                  ELSE Queues[side][price]
  <2> SUFFICES ASSUME NEW side \in Side, NEW price \in Prices
               PROVE  Queues'[side][price] =
                        IF side = sd /\ price = pr THEN Append(Queues[sd][pr], n)
                        ELSE Queues[side][price]
    OBVIOUS
  <2>1. PICK c : c = SlotsAt(side, price)  OBVIOUS
  <2>2. View(order, c) = Queues[side][price]  BY <2>1, QueuesAre
  <2>3. PICK d : d = SlotsAt(side, price)'  OBVIOUS
  <2>4. Queues'[side][price] = View(order, d)  BY <1>4, <2>3, QueuesNext
  <2>5. d = IF side = order[taker].side /\ price = order[taker].price
            THEN Append(c, taker) ELSE c
    BY <1>1, <1>7, <2>1, <2>3, SlotsAppended
  <2>6. CASE side = sd /\ price = pr
    <3>1. d = Append(c, taker)  BY <1>2, <1>8, <1>9, <2>5, <2>6
    <3>2. c \in Seq(AtPlace(side, price))  BY <1>1, <2>1 DEF ListsAt, IsList
    <3>3. View(order, c) \in Seq(Entries)  BY <1>1, <2>2, QueueFacts
    <3>4. View(order, Append(c, taker)) = Append(View(order, c), Entry(order, taker))
      <4>1. PICK p : p = order  OBVIOUS
      <4>2. PICK t : t = taker  OBVIOUS
      <4>3. /\ View(p, c) \in Seq(Entries) /\ Entry(p, t) \in Entries
            /\ \A k \in DOMAIN c : Entry(p, c[k]) = Entry(p, c[k])
        BY <1>11, <3>3, <4>1, <4>2
      <4>4. View(p, Append(c, t)) = Append(View(p, c), Entry(p, t))  BY <3>2, <4>3, ViewAppend
      <4> QED  BY <4>1, <4>2, <4>4
    <3> QED  BY <1>11, <2>2, <2>4, <2>6, <3>1, <3>4
  <2>7. CASE ~(side = sd /\ price = pr)
    BY <1>2, <1>8, <1>9, <2>2, <2>4, <2>5, <2>7
  <2> QED  BY <2>6, <2>7
<1>13. Queues' = [Queues EXCEPT ![sd] = [@ EXCEPT ![pr] = Append(Queues[sd][pr], n)]]
  BY <1>12, QueuesUpdate
<1>14. Queues' = IF Incoming.qty > 0 /\ Incoming.type = "limit"
                 THEN [Queues EXCEPT ![Incoming.side] = [@ EXCEPT ![Incoming.price] =
                         Append(Queues[Incoming.side][Incoming.price],
                                [id |-> Incoming.id, qty |-> Incoming.qty])]]
                 ELSE Queues
  BY <1>3, <1>4, <1>8, <1>9, <1>10, <1>13
<1>15. Incoming' = NULL  BY IncomingIs
<1>16. Incoming.type # "fok"  BY <1>3, <1>4
<1> QED  BY <1>3, <1>5, <1>6, <1>14, <1>15, <1>16, SettleIs, ZenonT(60)

\* A remainder that is dropped settles the order.
LEMMA DiscardMaps ==
    ASSUME RInv, RInv', ~AllowDuplicateIds, taker # NULL, ~CanMatch, Discard,
           taker' = NULL, out' = Returned(TRUE)
    PROVE  Abstract!Settle
<1>1. IInv /\ TypeOK /\ ListsAt /\ ListsAt'  BY DEF RInv, TInv, IInv
<1>2. PICK e \in Order : e = order[taker]  BY <1>1, IncomingLive
<1>3. /\ Incoming = e /\ Incoming # NULL /\ e.qty \in Nat
  BY <1>1, <1>2, IncomingLive
<1>4. e.qty = 0 \/ e.type # "limit"  BY <1>2 DEF Discard
<1>5. PICK reach : reach = Abstract!Reachable(Incoming.side, Incoming.type, Incoming.price)
  OBVIOUS
<1>6. e.qty = 0 \/ reach = {}
  <2>1. e.qty = 0 \/ e.qty > 0  BY <1>3
  <2> QED  BY <1>1, <1>2, <1>3, <1>5, <2>1, MatchIs
<1>7. Queues' = Queues
  <2>1. prev' = prev  BY DEF Discard
  <2>2. Resting' = Resting /\ \A s \in Resting : order'[s] = order[s]
    BY <1>1, DiscardStep
  <2> QED  BY <1>1, <2>1, <2>2, QueuesStay
<1>8. e.type = "fok" => e.qty = 0  BY <1>2, FokFollows DEF RInv, FokAllOrNothing
<1>9. ~(Incoming.qty > 0 /\ Incoming.type = "limit")  BY <1>3, <1>4
<1>10. Queues' = IF Incoming.qty > 0 /\ Incoming.type = "limit"
                 THEN [Queues EXCEPT ![Incoming.side] = [@ EXCEPT ![Incoming.price] =
                         Append(Queues[Incoming.side][Incoming.price],
                                [id |-> Incoming.id, qty |-> Incoming.qty])]]
                 ELSE Queues
  BY <1>7, <1>9
<1>11. Incoming' = NULL  BY IncomingIs
<1>12. /\ Incoming.qty = 0 \/ Abstract!Reachable(Incoming.side, Incoming.type, Incoming.price) = {}
       /\ Incoming.type = "fok" => Incoming.qty = 0
  BY <1>3, <1>5, <1>6, <1>8
<1> QED  BY <1>3, <1>10, <1>11, <1>12, SettleIs, ZenonT(60)

\* Without takes out the one order that has the id, and nothing where there is none.
LEMMA WithoutAbsent ==
    ASSUME NEW q, NEW id, \A k \in DOMAIN q : q[k].id # id
    PROVE  Abstract!Without(q, id) = q
  BY DEF Abstract!Without

\* Where an id stands once in a queue, Without takes away that place.
LEMMA WithoutPresent ==
    ASSUME NEW q, NEW id, NEW i \in DOMAIN q, q[i].id = id,
           \A k \in DOMAIN q : q[k].id = id => k = i
    PROVE  Abstract!Without(q, id) = RemoveAt(q, i)
<1> DEFINE at == {k \in DOMAIN q : q[k].id = id}
<1>1. at = {i}  OBVIOUS
<1>2. (CHOOSE k \in at : TRUE) = i  BY <1>1
<1>3. Abstract!Without(q, id) = IF at = {} THEN q ELSE Abstract!RemoveAt(q, CHOOSE k \in at : TRUE)
  BY Zenon DEF Abstract!Without
<1> HIDE DEF at
<1> QED  BY <1>1, <1>2, <1>3, SameLibrary

\* cancel() of an id that is not in the index is Cancel of an unknown id.
LEMMA MissMaps ==
    ASSUME RInv, RInv', ~AllowDuplicateIds, taker = NULL, NEW id \in Ids, CancelMiss(id)
    PROVE  Abstract!Cancel(id)
<1>1. IInv /\ TypeOK /\ ListsAt /\ ListsAt'  BY DEF RInv, TInv, IInv
<1>2. /\ index[id] = NULL /\ out' = Returned(FALSE)
      /\ UNCHANGED <<order, prev, next, free, levels, index, taker>>
  BY DEF CancelMiss
<1>3. Queues' = Queues
  <2>1. Resting' = Resting  BY <1>2 DEF Resting
  <2> QED  BY <1>1, <1>2, <2>1, QueuesStay
<1>4. Incoming = NULL /\ Incoming' = Incoming  BY <1>2 DEF Incoming
<1>5. Abstract!Unknown(id)  BY <1>1, <1>2, UnknownIs
<1>6. \A s \in Resting : order[s].id # id
  BY <1>1, <1>2, NullAssumption DEF IInv, IndexExact, Resting
<1>7. ASSUME NEW side \in Side, NEW price \in Prices
      PROVE  Abstract!Without(Queues[side][price], id) = Queues[side][price]
  <2>1. PICK c : c = SlotsAt(side, price)  OBVIOUS
  <2>2. \A k \in DOMAIN c : c[k] \in Resting  BY <1>1, <2>1, PlaceFacts DEF ListsAt, IsList
  <2>3. PICK q : q = Queues[side][price]  OBVIOUS
  <2>4. q = View(order, c)  BY <2>1, <2>3, QueuesAre
  <2>5. \A k \in DOMAIN q : q[k].id # id
    <3>1. DOMAIN q = DOMAIN c /\ \A k \in DOMAIN c : q[k] = Entry(order, c[k])
      BY <2>4 DEF View
    <3>2. \A k \in DOMAIN c : Entry(order, c[k]).id = order[c[k]].id
      BY <1>1, <2>2, EntryFacts
    <3> QED  BY <1>6, <2>2, <3>1, <3>2
  <2> QED  BY <2>3, <2>5, WithoutAbsent
<1>8. PICK g : g = [side \in Side |-> [p \in Prices |-> Abstract!Without(Queues[side][p], id)]]
  OBVIOUS
<1>9. g = Queues
  <2>1. PICK f : f = Queues  OBVIOUS
  <2>2. f = [side \in Side |-> [price \in Prices |-> f[side][price]]]  BY <2>1 DEF Queues
  <2>3. g = [side \in Side |-> [price \in Prices |-> g[side][price]]]  BY <1>8
  <2>4. \A side \in Side : \A price \in Prices : g[side][price] = f[side][price]
    BY <1>7, <1>8, <2>1
  <2> QED  BY <2>1, <2>2, <2>3, <2>4
<1>10. out' = Returned(~Abstract!Unknown(id))  BY <1>2, <1>5
<1> QED  BY <1>3, <1>4, <1>8, <1>9, <1>10, CancelIs, ZenonT(60)

\* cancel() of an id in the index is Cancel of the order that waits.
LEMMA HitMaps ==
    ASSUME RInv, RInv', ~AllowDuplicateIds, taker = NULL, NEW id \in Ids, CancelHit(id)
    PROVE  Abstract!Cancel(id)
<1>1. IInv /\ TypeOK /\ ListsAt /\ ListsAt'  BY DEF RInv, TInv, IInv
<1>2. PICK s : s = index[id]  OBVIOUS
<1>3. /\ s # NULL /\ order' = [order EXCEPT ![s] = NULL] /\ out' = Returned(TRUE)
      /\ taker' = taker
  BY <1>2 DEF CancelHit, Release
<1>4. s \in Resting /\ s \in Slots /\ order[s].id = id
  BY <1>1, <1>2, <1>3 DEF IInv, IndexEntriesLive, Resting
<1>5. PICK l, ll : Unlinked(s, l, ll)  BY <1>1, <1>2, CancelHitStep
<1>6. PICK sd \in Side : sd = order[s].side  BY <1>1, <1>4, LiveOrder DEF Resting
<1>7. PICK pr \in Prices : pr = order[s].price  BY <1>1, <1>4, LiveOrder DEF Resting
<1>8. \A t \in Resting \ {s} : order'[t] = order[t]  BY <1>1, <1>3 DEF Resting, TypeOK
<1>9. PICK i \in DOMAIN SlotsAt(sd, pr) :
          /\ SlotsAt(sd, pr)[i] = s
          /\ Queues' = [Queues EXCEPT ![sd] = [@ EXCEPT ![pr] = RemoveAt(Queues[sd][pr], i)]]
  <2>1. \E i \in DOMAIN SlotsAt(order[s].side, order[s].price) :
           /\ SlotsAt(order[s].side, order[s].price)[i] = s
           /\ Queues' = [Queues EXCEPT ![order[s].side] =
                [@ EXCEPT ![order[s].price] =
                    RemoveAt(Queues[order[s].side][order[s].price], i)]]
    BY <1>1, <1>5, <1>8, QueuesRemove, Zenon
  <2> QED  BY <1>6, <1>7, <2>1
<1>10. Incoming = NULL /\ Incoming' = Incoming  BY <1>3 DEF Incoming
<1>11. ~Abstract!Unknown(id)  BY <1>1, <1>2, <1>3, UnknownIs
<1>12. \A t \in Resting : order[t].id = id => t = s
  BY <1>1, <1>4, EntriesDiffer
<1>13. PICK f : f = Queues  OBVIOUS
<1>14. PICK h : h = Queues'  OBVIOUS
<1>15. PICK r : r = RemoveAt(Queues[sd][pr], i)  OBVIOUS
<1>16. \A side \in Side : \A price \in Prices :
           h[side][price] = IF side = sd /\ price = pr THEN r ELSE f[side][price]
  <2>1. f = [side \in Side |-> [price \in Prices |-> f[side][price]]]  BY <1>13 DEF Queues
  <2>2. h = [f EXCEPT ![sd] = [f[sd] EXCEPT ![pr] = r]]  BY <1>9, <1>13, <1>14, <1>15
  <2> QED  BY <2>1, <2>2
<1>17. ASSUME NEW side \in Side, NEW price \in Prices
       PROVE  Abstract!Without(Queues[side][price], id) = h[side][price]
  <2>1. PICK c : c = SlotsAt(side, price)  OBVIOUS
  <2>2. IsInjective(c) /\ \A k \in DOMAIN c : c[k] \in AtPlace(side, price)
    BY <1>1, <2>1 DEF ListsAt, IsList
  <2>3. \A k \in DOMAIN c : /\ c[k] \in Resting
                            /\ order[c[k]].side = side /\ order[c[k]].price = price
    BY <2>2, PlaceFacts
  <2>4. PICK q : q = Queues[side][price]  OBVIOUS
  <2>5. q = View(order, c)  BY <2>1, <2>4, QueuesAre
  <2>6. DOMAIN q = DOMAIN c /\ \A k \in DOMAIN c : q[k].id = order[c[k]].id
    <3>1. DOMAIN q = DOMAIN c /\ \A k \in DOMAIN c : q[k] = Entry(order, c[k])
      BY <2>5 DEF View
    <3>2. \A k \in DOMAIN c : Entry(order, c[k]).id = order[c[k]].id
      BY <1>1, <2>3, EntryFacts
    <3> QED  BY <3>1, <3>2
  <2>7. \A k \in DOMAIN q : q[k].id = id => c[k] = s  BY <1>12, <2>3, <2>6
  <2>8. CASE side = sd /\ price = pr
    <3>1. i \in DOMAIN q /\ c[i] = s /\ i \in DOMAIN c  BY <1>9, <2>1, <2>6, <2>8
    <3>2. q[i].id = id  BY <1>4, <2>6, <3>1
    <3>3. \A k \in DOMAIN q : q[k].id = id => k = i  BY <2>2, <2>6, <2>7, <3>1 DEF IsInjective
    <3>4. Abstract!Without(q, id) = RemoveAt(q, i)  BY <3>1, <3>2, <3>3, WithoutPresent
    <3> QED  BY <1>15, <1>16, <2>4, <2>8, <3>4
  <2>9. CASE ~(side = sd /\ price = pr)
    <3>1. \A k \in DOMAIN q : q[k].id # id  BY <1>6, <1>7, <2>3, <2>6, <2>7, <2>9
    <3>2. Abstract!Without(q, id) = q  BY <3>1, WithoutAbsent
    <3> QED  BY <1>13, <1>16, <2>4, <2>9, <3>2
  <2> QED  BY <2>8, <2>9
<1>18. PICK g : g = [side \in Side |-> [p \in Prices |-> Abstract!Without(Queues[side][p], id)]]
  OBVIOUS
<1>19. h = g
  <2>1. h = [side \in Side |-> [price \in Prices |-> h[side][price]]]  BY <1>14 DEF Queues
  <2>2. g = [side \in Side |-> [price \in Prices |-> g[side][price]]]  BY <1>18
  <2>3. \A side \in Side : \A price \in Prices : g[side][price] = h[side][price]
    BY <1>17, <1>18
  <2> QED  BY <2>1, <2>2, <2>3
<1>20. out' = Returned(~Abstract!Unknown(id))  BY <1>3, <1>11
<1>21. Queues' = [side \in Side |-> [p \in Prices |-> Abstract!Without(Queues[side][p], id)]]
  BY <1>14, <1>18, <1>19
<1> QED  BY <1>10, <1>20, <1>21, CancelIs, ZenonT(60)

\* An empty book is an empty book.
LEMMA InitMaps == Init => Abstract!Init
<1> SUFFICES ASSUME Init PROVE Abstract!Init  OBVIOUS
<1>1. Incoming = NULL  BY DEF Init, Incoming
<1>2. out = [event |-> "none"]  BY DEF Init, Quiet
<1>3. ASSUME NEW side \in Side, NEW price \in Prices PROVE QueueAt(side, price) = <<>>
  <2>1. \A l \in Range(levels[side]) : l.price # price  BY DEF Init, Range
  <2>2. SlotsAt(side, price) = <<>>  BY <2>1, SlotsNowhere
  <2>3. View(order, <<>>) = <<>>  BY DEF View
  <2> QED  BY <2>2, <2>3, QueueIsView
<1>4. Queues = [side \in Side |-> [price \in Prices |-> <<>>]]  BY <1>3 DEF Queues
<1> QED  BY <1>1, <1>2, <1>4, Zenon DEF Abstract!Init, Abstract!Side, Side, Queues, Incoming

\* Every step of the book is a step of PriceTimeBook.
LEMMA StepMaps ==
    ASSUME RInv, RInv', ~AllowDuplicateIds, Next
    PROVE  Abstract!Next
<1>1. ASSUME NEW id \in Ids, NEW side \in Side, NEW type \in OrderType,
             NEW price \in Prices, NEW qty \in Quantities,
             Submit(id, side, type, price, qty)
      PROVE  Abstract!Next
  <2>1. Abstract!Submit(id, side, type, price, qty)  BY <1>1, SubmitMaps
  <2> QED  BY <2>1, Zenon DEF Abstract!Next, Abstract!Side, Side, OrderType
<1>2. CASE Match
  <2>1. taker # NULL /\ CanMatch  BY <1>2 DEF Match
  <2>2. PICK maker \in Slots : maker = Best.head /\ (FillPartial(maker) \/ FillMaker(maker))
    BY <1>2 DEF Match
  <2>3. Abstract!Execute  BY <2>1, <2>2, PartialMaps, MakerMaps
  <2> QED  BY <2>3 DEF Abstract!Next
<1>3. CASE Finish
  <2>1. taker # NULL /\ ~CanMatch /\ (Rest \/ Discard) /\ taker' = NULL /\ out' = Returned(TRUE)
    BY <1>3 DEF Finish
  <2>2. Abstract!Settle  BY <2>1, RestMaps, DiscardMaps
  <2> QED  BY <2>2 DEF Abstract!Next
<1>4. ASSUME NEW id \in Ids, Cancel(id) PROVE Abstract!Next
  <2>1. taker = NULL /\ (CancelMiss(id) \/ CancelHit(id))  BY <1>4 DEF Cancel
  <2>2. Abstract!Cancel(id)  BY <2>1, MissMaps, HitMaps
  <2> QED  BY <2>2 DEF Abstract!Next
<1> QED  BY <1>1, <1>2, <1>3, <1>4 DEF Next

\* While clients keep ids unique and quantities fit the width of Quantity together, the
\* slots, links, vectors and index of order_book.cpp behave like plain price-time queues.
THEOREM Implements ==
    ASSUME ~AllowDuplicateIds, TotalsFit
    PROVE  Spec => ImplementsPriceTime
<1>1. RInv /\ RInv' /\ [Next]_vars => [Abstract!Next]_(Abstract!vars)
  <2> SUFFICES ASSUME RInv, RInv', [Next]_vars PROVE [Abstract!Next]_(Abstract!vars)
    OBVIOUS
  <2>1. CASE Next  BY <2>1, StepMaps
  <2>2. CASE UNCHANGED vars
    <3>1. Resting' = Resting  BY <2>2 DEF vars, Resting
    <3>2. Queues' = Queues  BY <2>2, <3>1, QueuesStay DEF vars, RInv
    <3>3. Incoming' = Incoming /\ out' = out  BY <2>2 DEF vars, Incoming
    <3> QED  BY <3>2, <3>3, Zenon DEF Abstract!vars, Queues, Incoming
  <2> QED  BY <2>1, <2>2
<1> QED
  BY <1>1, InitMaps, RefinementInvariant, PTL DEF Spec, ImplementsPriceTime, Abstract!Spec
=============================================================================
