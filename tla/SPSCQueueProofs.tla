--------------------------- MODULE SPSCQueueProofs ---------------------------
(***************************************************************************)
(* For every capacity that divides the counters' modulus: the ring keeps   *)
(* its counters in order through every wrap-around, its two threads never  *)
(* meet at a slot, and no unwritten slot is handed out.                    *)
(***************************************************************************)
EXTENDS SPSCQueue, ArithmeticLemmas

-----------------------------------------------------------------------------
(* Wrapping counters.                                                      *)

\* The distance between two counters.
LEMMA MinusIs ==
    ASSUME NEW a \in Index, NEW b \in Index
    PROVE  /\ Minus(a, b) = IF a >= b THEN a - b ELSE a - b + Modulus
           /\ Minus(a, b) \in Nat /\ Minus(a, b) < Modulus
<1>1. Modulus \in Nat \ {0}  BY CapacityAssumption, ModulusAssumption
<1>2. CASE a >= b
  <2>1. a - b \in 0..Modulus - 1  BY <1>1, <1>2 DEF Index
  <2>2. (Modulus * 0 + (a - b)) % Modulus = a - b  BY <1>1, <2>1, ModUnique, SMTT(60)
  <2> QED  BY <1>1, <1>2, <2>1, <2>2 DEF Minus
<1>3. CASE a < b
  <2>1. a - b + Modulus \in 0..Modulus - 1  BY <1>1, <1>3 DEF Index
  <2>2. (Modulus * (-1) + (a - b + Modulus)) % Modulus = a - b + Modulus
    BY <1>1, <2>1, ModUnique
  <2>3. Modulus * (-1) + (a - b + Modulus) = a - b  BY <1>1 DEF Index
  <2> QED  BY <1>1, <1>3, <2>1, <2>2, <2>3 DEF Minus, Index
<1> QED  BY <1>2, <1>3 DEF Index

\* The next counter value.
LEMMA AfterIs ==
    ASSUME NEW i \in Index
    PROVE  /\ After(i) \in Index
           /\ After(i) = IF i = Modulus - 1 THEN 0 ELSE i + 1
<1>1. Modulus \in Nat \ {0}  BY CapacityAssumption, ModulusAssumption
<1>2. CASE i = Modulus - 1
  <2>1. (Modulus * 1 + 0) % Modulus = 0  BY <1>1, ModUnique
  <2> QED  BY <1>1, <1>2, <2>1 DEF After, Index
<1>3. CASE i # Modulus - 1
  <2>1. i + 1 \in 0..Modulus - 1  BY <1>1, <1>3 DEF Index
  <2>2. (Modulus * 0 + (i + 1)) % Modulus = i + 1  BY <1>1, <2>1, ModUnique
  <2> QED  BY <1>1, <1>3, <2>1, <2>2 DEF After, Index
<1> QED  BY <1>2, <1>3

\* One step forward is one further away.
LEMMA AfterFurther ==
    ASSUME NEW a \in Index, NEW b \in Index, Minus(a, b) < Modulus - 1
    PROVE  Minus(After(a), b) = Minus(a, b) + 1
<1>1. Modulus \in Nat \ {0}  BY CapacityAssumption, ModulusAssumption
<1>2. After(a) \in Index /\ After(a) = IF a = Modulus - 1 THEN 0 ELSE a + 1  BY AfterIs
<1>3. Minus(a, b) = IF a >= b THEN a - b ELSE a - b + Modulus  BY MinusIs
<1>4. Minus(After(a), b) = IF After(a) >= b THEN After(a) - b ELSE After(a) - b + Modulus
  BY <1>2, MinusIs
<1> QED  BY <1>1, <1>2, <1>3, <1>4 DEF Index

\* Distances from a common origin can be subtracted.
LEMMA Between ==
    ASSUME NEW a \in Index, NEW b \in Index, NEW c \in Index, Minus(b, c) <= Minus(a, c)
    PROVE  Minus(a, b) = Minus(a, c) - Minus(b, c)
<1>1. Modulus \in Nat \ {0}  BY CapacityAssumption, ModulusAssumption
<1>2. Minus(a, b) = IF a >= b THEN a - b ELSE a - b + Modulus  BY MinusIs
<1>3. Minus(a, c) = IF a >= c THEN a - c ELSE a - c + Modulus  BY MinusIs
<1>4. Minus(b, c) = IF b >= c THEN b - c ELSE b - c + Modulus  BY MinusIs
<1> QED  BY <1>1, <1>2, <1>3, <1>4 DEF Index

-----------------------------------------------------------------------------
(* Slots.                                                                  *)

\* Masking does not see the counters wrap.
LEMMA SlotPeriod ==
    ASSUME NEW x \in Int
    PROVE  /\ SlotOf(x) \in 0..Capacity - 1
           /\ SlotOf(x - Modulus) = SlotOf(x)
           /\ SlotOf(x + Modulus) = SlotOf(x)
<1>1. Capacity \in Nat \ {0}  BY CapacityAssumption
<1>2. PICK m \in Int : Modulus = Capacity * m
  <2>1. Modulus \in Int /\ Modulus % Capacity = 0  BY ModulusAssumption
  <2>2. Modulus = Capacity * (Modulus \div Capacity) + (Modulus % Capacity)
        /\ Modulus \div Capacity \in Int
    BY <1>1, <2>1, DivMod
  <2>3. Modulus = Capacity * (Modulus \div Capacity)  BY <1>1, <2>1, <2>2
  <2> QED  BY <2>2, <2>3
<1>3. PICK q \in Int, r \in 0..Capacity - 1 : x = Capacity * q + r
  BY <1>1, DivMod
<1>4. x - Modulus = Capacity * (q - m) + r /\ q - m \in Int
  BY <1>1, <1>2, <1>3
<1>5. x + Modulus = Capacity * (q + m) + r /\ q + m \in Int
  BY <1>1, <1>2, <1>3
<1>6. SlotOf(x) = r  BY <1>1, <1>3, ModUnique DEF SlotOf
<1>7. SlotOf(x - Modulus) = r  BY <1>1, <1>4, ModUnique DEF SlotOf
<1>8. SlotOf(x + Modulus) = r  BY <1>1, <1>5, ModUnique DEF SlotOf
<1> QED  BY <1>6, <1>7, <1>8

\* Positions less than a ring apart have different slots.
LEMMA SlotsDiffer ==
    ASSUME NEW x \in Int, NEW y \in Int, 0 < x - y, x - y < Capacity
    PROVE  SlotOf(x) # SlotOf(y)
<1>1. Capacity \in Nat \ {0}  BY CapacityAssumption
<1>2. PICK p \in Int, r \in 0..Capacity - 1 : x = Capacity * p + r /\ SlotOf(x) = r
  BY <1>1, DivMod DEF SlotOf
<1>3. PICK q \in Int, s \in 0..Capacity - 1 : y = Capacity * q + s /\ SlotOf(y) = s
  BY <1>1, DivMod DEF SlotOf
<1> SUFFICES ASSUME r = s PROVE FALSE  BY <1>2, <1>3
<1> DEFINE d == p - q
<1>4. Capacity * d = x - y /\ d \in Int  BY <1>1, <1>2, <1>3
<1>5. d >= 1 => Capacity * d >= Capacity  BY <1>1, <1>4
<1>6. d <= 0 => Capacity * d <= 0  BY <1>1, <1>4
<1> QED  BY <1>1, <1>4, <1>5, <1>6

-----------------------------------------------------------------------------
(* The inductive invariant.                                                *)

\* What each thread has made sure of before it touches a slot.
Reserved ==
    /\ pushing.at \in {"write", "publish"} => Minus(head, cachedTail) < Capacity
    /\ pushing.at = "publish" => slots[SlotOf(head)] = pushing.value
    /\ popping.at \in {"read", "publish"} => tail # cachedHead
    /\ popping.at = "publish" => popping.value = slots[SlotOf(tail)]

\* Every slot between tail and head was written.
Stored == \A k \in Nat : k < Minus(head, tail) => slots[SlotOf(tail + k)] \in Values

IInv == TypeOK /\ CountersInOrder /\ Reserved /\ Stored

\* The distances the code never computes, from those the invariant bounds.
LEMMA Gaps ==
    ASSUME TypeOK, CountersInOrder
    PROVE  /\ Minus(tail, cachedTail) \in Nat /\ Minus(cachedHead, cachedTail) \in Nat
           /\ Minus(head, cachedTail) \in Nat
           /\ Minus(head, tail) = Minus(head, cachedTail) - Minus(tail, cachedTail)
           /\ Minus(cachedHead, tail) = Minus(cachedHead, cachedTail) - Minus(tail, cachedTail)
           /\ Minus(head, cachedHead) = Minus(head, cachedTail) - Minus(cachedHead, cachedTail)
           /\ Minus(head, tail) \in Nat /\ Minus(head, tail) <= Capacity
           /\ Minus(head, cachedHead) \in Nat
           /\ Minus(head, cachedHead) = Minus(head, tail) - Minus(cachedHead, tail)
<1>1. head \in Index /\ tail \in Index /\ cachedTail \in Index /\ cachedHead \in Index
  BY DEF TypeOK
<1>2. /\ Minus(tail, cachedTail) \in Nat /\ Minus(cachedHead, cachedTail) \in Nat
      /\ Minus(head, cachedTail) \in Nat
  BY <1>1, MinusIs
<1>3. /\ Minus(tail, cachedTail) <= Minus(cachedHead, cachedTail)
      /\ Minus(cachedHead, cachedTail) <= Minus(head, cachedTail)
      /\ Minus(tail, cachedTail) <= Minus(head, cachedTail)
      /\ Minus(head, cachedTail) <= Capacity
  BY <1>2 DEF CountersInOrder
<1>4. Minus(head, tail) = Minus(head, cachedTail) - Minus(tail, cachedTail)
  BY <1>1, <1>3, Between
<1>5. Minus(cachedHead, tail) = Minus(cachedHead, cachedTail) - Minus(tail, cachedTail)
  BY <1>1, <1>3, Between
<1>6. Minus(head, cachedHead) = Minus(head, cachedTail) - Minus(cachedHead, cachedTail)
  BY <1>1, <1>3, Between
<1> QED  BY <1>2, <1>3, <1>4, <1>5, <1>6, CapacityAssumption

\* A copy of a counter that is behind it by nothing is equal to it.
LEMMA ZeroGap ==
    ASSUME NEW a \in Index, NEW b \in Index
    PROVE  Minus(a, b) = 0 <=> a = b
<1>1. Modulus \in Nat \ {0}  BY CapacityAssumption, ModulusAssumption
<1>2. Minus(a, b) = IF a >= b THEN a - b ELSE a - b + Modulus  BY MinusIs
<1> QED  BY <1>1, <1>2 DEF Index

\* try_push's test is the test whether the ring, as the producer sees it, is full.
LEMMA FullIs ==
    ASSUME TypeOK, NEW seen \in Index, Minus(head, seen) <= Capacity
    PROVE  /\ Minus(After(head), seen) = Minus(head, seen) + 1
           /\ LooksFull(seen) <=> Minus(head, seen) = Capacity
<1>1. head \in Index  BY DEF TypeOK
<1>2. Minus(head, seen) \in Nat  BY <1>1, MinusIs
<1>3. Minus(head, seen) < Modulus - 1  BY <1>2, ModulusAssumption, CapacityAssumption
<1>4. Minus(After(head), seen) = Minus(head, seen) + 1  BY <1>1, <1>3, AfterFurther
<1> QED  BY <1>2, <1>4, CapacityAssumption DEF LooksFull

\* The slot at head is the one that follows the last stored one.
LEMMA HeadSlot ==
    ASSUME TypeOK
    PROVE  SlotOf(head) = SlotOf(tail + Minus(head, tail))
<1>1. head \in Int /\ tail \in Int /\ Modulus \in Nat
  BY ModulusAssumption DEF TypeOK, Index
<1>2. CASE head >= tail
  <2>1. tail + Minus(head, tail) = head  BY <1>1, <1>2, MinusIs DEF TypeOK
  <2> QED  BY <2>1
<1>3. CASE head < tail
  <2>1. tail + Minus(head, tail) = head + Modulus  BY <1>1, <1>3, MinusIs DEF TypeOK
  <2> QED  BY <1>1, <2>1, SlotPeriod
<1> QED  BY <1>1, <1>2, <1>3

\* When tail moves on, the remaining slots keep their order.
LEMMA TailSlots ==
    ASSUME TypeOK, NEW k \in Nat
    PROVE  SlotOf(After(tail) + k) = SlotOf(tail + (k + 1))
<1>1. tail \in Int /\ Modulus \in Nat  BY ModulusAssumption DEF TypeOK, Index
<1>2. CASE tail = Modulus - 1
  <2>1. After(tail) + k = (tail + (k + 1)) - Modulus  BY <1>1, <1>2, AfterIs DEF TypeOK
  <2> QED  BY <1>1, <2>1, SlotPeriod
<1>3. CASE tail # Modulus - 1
  <2>1. After(tail) + k = tail + (k + 1)  BY <1>1, <1>3, AfterIs DEF TypeOK
  <2> QED  BY <2>1
<1> QED  BY <1>2, <1>3

\* The slot the producer writes holds no stored value.
LEMMA FreeSlot ==
    ASSUME IInv, pushing.at = "write", NEW k \in Nat, k < Minus(head, tail)
    PROVE  SlotOf(tail + k) # SlotOf(head)
<1>1. Minus(head, tail) \in Nat /\ Minus(head, tail) < Capacity
  BY Gaps, CapacityAssumption DEF IInv, Reserved
<1>2. tail \in Int  BY ModulusAssumption DEF IInv, TypeOK, Index
<1>3. SlotOf(tail + Minus(head, tail)) # SlotOf(tail + k)
  BY <1>1, <1>2, SlotsDiffer, CapacityAssumption
<1> QED  BY <1>3, HeadSlot DEF IInv

-----------------------------------------------------------------------------
(* One lemma per step of the two threads.                                  *)

\* An empty ring satisfies the invariant.
LEMMA InitInvariant == Init => IInv
<1> SUFFICES ASSUME Init PROVE IInv  OBVIOUS
<1>1. 0 \in Index  BY ModulusAssumption, CapacityAssumption DEF Index
<1>2. Minus(0, 0) = 0  BY <1>1, ZeroGap
<1>3. TypeOK  BY <1>1 DEF Init, TypeOK, Idle
<1>4. CountersInOrder  BY <1>2, CapacityAssumption DEF Init, CountersInOrder
<1>5. Reserved  BY DEF Init, Reserved, Idle
<1>6. Stored  BY <1>2 DEF Init, Stored
<1> QED  BY <1>3, <1>4, <1>5, <1>6 DEF IInv

\* try_push, first part: what it goes on to do follows from its copy of tail_.
LEMMA PushBeginStep ==
    ASSUME IInv, NEW v \in Values, PushBegin(v)
    PROVE  IInv'
<1>1. /\ pushing' = [at |-> IF LooksFull(cachedTail) THEN "load" ELSE "write", value |-> v]
      /\ UNCHANGED <<head, cachedTail, accepted, slots, tail, cachedHead, popping, received>>
  BY DEF PushBegin, consumerVars
<1>2. TypeOK'  BY <1>1 DEF IInv, TypeOK
<1>3. CountersInOrder' /\ Stored'  BY <1>1 DEF IInv, CountersInOrder, Stored
<1>4. ~LooksFull(cachedTail) => Minus(head, cachedTail) < Capacity
  <2>1. Minus(head, cachedTail) <= Capacity /\ Minus(head, cachedTail) \in Nat
    BY Gaps DEF IInv, CountersInOrder
  <2>2. LooksFull(cachedTail) <=> Minus(head, cachedTail) = Capacity
    BY <2>1, FullIs DEF IInv, TypeOK
  <2> QED  BY <2>1, <2>2, CapacityAssumption
<1>5. Reserved'  BY <1>1, <1>4 DEF IInv, Reserved
<1> QED  BY <1>2, <1>3, <1>5 DEF IInv

\* What a load of tail_ does to the distances.
LEMMA SeenTail ==
    ASSUME TypeOK, CountersInOrder, NEW seen \in Loads(tail, cachedTail)
    PROVE  /\ seen \in Index
           /\ Minus(seen, cachedTail) \in Nat
           /\ Minus(seen, cachedTail) <= Minus(tail, cachedTail)
           /\ Minus(tail, seen) = Minus(tail, cachedTail) - Minus(seen, cachedTail)
           /\ Minus(cachedHead, seen) = Minus(cachedHead, cachedTail) - Minus(seen, cachedTail)
           /\ Minus(head, seen) = Minus(head, cachedTail) - Minus(seen, cachedTail)
           /\ Minus(head, seen) <= Capacity
<1>1. head \in Index /\ tail \in Index /\ cachedTail \in Index /\ cachedHead \in Index
  BY DEF TypeOK
<1>2. seen \in Index /\ Minus(seen, cachedTail) <= Minus(tail, cachedTail)
  BY DEF Loads
<1>3. Minus(seen, cachedTail) \in Nat  BY <1>1, <1>2, MinusIs
<1>4. /\ Minus(seen, cachedTail) <= Minus(cachedHead, cachedTail)
      /\ Minus(seen, cachedTail) <= Minus(head, cachedTail)
  BY <1>2, <1>3, Gaps DEF CountersInOrder
<1>5. /\ Minus(tail, seen) = Minus(tail, cachedTail) - Minus(seen, cachedTail)
      /\ Minus(cachedHead, seen) = Minus(cachedHead, cachedTail) - Minus(seen, cachedTail)
      /\ Minus(head, seen) = Minus(head, cachedTail) - Minus(seen, cachedTail)
  BY <1>1, <1>2, <1>4, Between
<1>6. Minus(head, seen) <= Capacity
  BY <1>3, <1>5, Gaps, CapacityAssumption DEF CountersInOrder
<1> QED  BY <1>2, <1>3, <1>5, <1>6

\* try_push, the load of tail_: an old value is still no newer than tail_, and
\* only a value that leaves room lets the write go on.
LEMMA PushLoadStep ==
    ASSUME IInv, PushLoad
    PROVE  IInv'
<1>1. PICK seen \in Loads(tail, cachedTail) :
        /\ cachedTail' = seen
        /\ IF LooksFull(seen)
           THEN pushing' = Idle /\ accepted' = FALSE
           ELSE pushing' = [pushing EXCEPT !.at = "write"] /\ UNCHANGED accepted
  BY DEF PushLoad
<1>2. /\ UNCHANGED <<head, slots, tail, cachedHead, popping, received>>
      /\ pushing.at = "load"
  BY DEF PushLoad, consumerVars
<1>3. /\ seen \in Index
      /\ Minus(seen, cachedTail) \in Nat
      /\ Minus(tail, seen) = Minus(tail, cachedTail) - Minus(seen, cachedTail)
      /\ Minus(cachedHead, seen) = Minus(cachedHead, cachedTail) - Minus(seen, cachedTail)
      /\ Minus(head, seen) = Minus(head, cachedTail) - Minus(seen, cachedTail)
      /\ Minus(head, seen) <= Capacity
  BY SeenTail DEF IInv
<1>4. pushing \in [at : {"load", "write", "publish"}, value : Values]
  BY <1>2 DEF IInv, TypeOK, Idle
<1>5. pushing' = Idle \/ pushing' \in [at : {"write"}, value : Values]
  BY <1>1, <1>4
<1>6. TypeOK'
  <2>1. accepted' \in BOOLEAN  BY <1>1 DEF IInv, TypeOK
  <2>2. pushing' \in {Idle} \cup [at : {"load", "write", "publish"}, value : Values]
    BY <1>5
  <2> QED  BY <1>1, <1>2, <1>3, <2>1, <2>2 DEF IInv, TypeOK
<1>7. CountersInOrder'
  <2>1. /\ Minus(tail, cachedTail) \in Nat /\ Minus(cachedHead, cachedTail) \in Nat
        /\ Minus(head, cachedTail) \in Nat
    BY Gaps DEF IInv
  <2>2. /\ Minus(tail, seen) <= Minus(cachedHead, seen)
        /\ Minus(cachedHead, seen) <= Minus(head, seen)
    BY <1>3, <2>1 DEF IInv, CountersInOrder
  <2> QED  BY <1>1, <1>2, <1>3, <2>2 DEF CountersInOrder
<1>8. Stored'  BY <1>2 DEF IInv, Stored
<1>9. Reserved'
  <2>1. pushing'.at = "write" => Minus(head, seen) < Capacity
    <3>1. pushing'.at = "write" => ~LooksFull(seen)  BY <1>1 DEF Idle
    <3>2. LooksFull(seen) <=> Minus(head, seen) = Capacity
      BY <1>3, FullIs DEF IInv
    <3>3. Minus(head, seen) \in Int  BY <1>3, Gaps DEF IInv
    <3> QED  BY <1>3, <3>1, <3>2, <3>3, CapacityAssumption
  <2>2. pushing'.at # "publish"  BY <1>5 DEF Idle
  <2> QED  BY <1>1, <1>2, <2>1, <2>2 DEF IInv, Reserved
<1> QED  BY <1>6, <1>7, <1>8, <1>9 DEF IInv

\* try_push, the write: the slot at head_ holds no value that is still queued.
LEMMA PushWriteStep ==
    ASSUME IInv, PushWrite
    PROVE  /\ IInv'
           /\ \A k \in Nat : k < Minus(head, tail) =>
                 slots'[SlotOf(tail + k)] = slots[SlotOf(tail + k)]
<1>1. /\ pushing.at = "write"
      /\ slots' = [slots EXCEPT ![SlotOf(head)] = pushing.value]
      /\ pushing' = [pushing EXCEPT !.at = "publish"]
      /\ UNCHANGED <<head, cachedTail, accepted, tail, cachedHead, popping, received>>
  BY DEF PushWrite, consumerVars
<1>2. head \in Int /\ tail \in Int  BY ModulusAssumption DEF IInv, TypeOK, Index
<1>3. SlotOf(head) \in 0..Capacity - 1  BY <1>2, SlotPeriod
<1>4. pushing \in [at : {"load", "write", "publish"}, value : Values]
  BY <1>1 DEF IInv, TypeOK, Idle
<1>5. pushing' \in [at : {"publish"}, value : Values] /\ pushing'.value = pushing.value
  BY <1>1, <1>4
<1>6. slots' \in [0..Capacity - 1 -> Values \cup {NULL}]
      /\ \A s \in 0..Capacity - 1 :
            slots'[s] = IF s = SlotOf(head) THEN pushing.value ELSE slots[s]
  BY <1>1, <1>3, <1>4 DEF IInv, TypeOK
<1>7. TypeOK'
  <2>1. pushing' \in {Idle} \cup [at : {"load", "write", "publish"}, value : Values]
    BY <1>5
  <2> QED  BY <1>1, <1>6, <2>1 DEF IInv, TypeOK
<1>8. \A k \in Nat : k < Minus(head, tail) =>
          slots'[SlotOf(tail + k)] = slots[SlotOf(tail + k)]
  <2> SUFFICES ASSUME NEW k \in Nat, k < Minus(head, tail)
               PROVE  slots'[SlotOf(tail + k)] = slots[SlotOf(tail + k)]
    OBVIOUS
  <2>1. SlotOf(tail + k) # SlotOf(head)  BY <1>1, FreeSlot
  <2>2. SlotOf(tail + k) \in 0..Capacity - 1  BY <1>2, SlotPeriod
  <2> QED  BY <1>6, <2>1, <2>2
<1>9. Stored'  BY <1>1, <1>8 DEF IInv, Stored
<1>10. CountersInOrder'  BY <1>1 DEF IInv, CountersInOrder
<1>11. Reserved'
  <2>1. slots'[SlotOf(head)] = pushing'.value  BY <1>3, <1>5, <1>6
  <2>2. popping.at = "publish" => popping.value = slots'[SlotOf(tail)]
    <3> SUFFICES ASSUME popping.at = "publish"
                 PROVE  popping.value = slots'[SlotOf(tail)]
      OBVIOUS
    <3>1. 0 < Minus(head, tail)
      <4>1. tail # cachedHead  BY DEF IInv, Reserved
      <4>2. Minus(cachedHead, tail) # 0  BY <4>1, ZeroGap DEF IInv, TypeOK
      <4> QED  BY <4>2, Gaps DEF IInv, CountersInOrder
    <3>2. slots'[SlotOf(tail + 0)] = slots[SlotOf(tail + 0)]  BY <1>8, <3>1
    <3>3. tail + 0 = tail  BY <1>2
    <3> QED  BY <3>2, <3>3 DEF IInv, Reserved
  <2>3. Minus(head, cachedTail) < Capacity  BY <1>1 DEF IInv, Reserved
  <2> QED  BY <1>1, <1>5, <2>1, <2>2, <2>3 DEF IInv, Reserved
<1> QED  BY <1>7, <1>8, <1>9, <1>10, <1>11 DEF IInv

\* try_push, the store of head_: there was room for one more.
LEMMA PushPublishStep ==
    ASSUME IInv, PushPublish
    PROVE  /\ IInv'
           /\ Minus(head, tail)' = Minus(head, tail) + 1
           /\ Minus(head, cachedHead)' = Minus(head, cachedHead) + 1
           /\ slots[SlotOf(tail + Minus(head, tail))] = pushing.value
           /\ pushing.value \in Values
<1>1. /\ pushing.at = "publish" /\ head' = After(head)
      /\ pushing' = Idle /\ accepted' = TRUE
      /\ UNCHANGED <<cachedTail, slots, tail, cachedHead, popping, received>>
  BY DEF PushPublish, consumerVars
<1>2. /\ head \in Index /\ tail \in Index /\ cachedTail \in Index /\ cachedHead \in Index
      /\ pushing.value \in Values
  BY <1>1 DEF IInv, TypeOK, Idle
<1>3. Minus(head, cachedTail) < Capacity  BY <1>1 DEF IInv, Reserved
<1>4. \A c \in {tail, cachedTail, cachedHead} :
          Minus(After(head), c) = Minus(head, c) + 1
  <2> SUFFICES ASSUME NEW c \in {tail, cachedTail, cachedHead}
               PROVE  Minus(After(head), c) = Minus(head, c) + 1
    OBVIOUS
  <2>1. Minus(head, c) < Modulus - 1
    BY <1>2, <1>3, Gaps, CapacityAssumption, ModulusAssumption DEF IInv
  <2> QED  BY <1>2, <2>1, AfterFurther
<1>5. TypeOK'  BY <1>1, <1>2, AfterIs DEF IInv, TypeOK
<1>6. CountersInOrder'
  BY <1>1, <1>3, <1>4, Gaps, CapacityAssumption DEF IInv, CountersInOrder
<1>7. slots[SlotOf(tail + Minus(head, tail))] = pushing.value
  BY <1>1, HeadSlot DEF IInv, Reserved
<1>8. Stored'
  <2> SUFFICES ASSUME NEW k \in Nat, k < Minus(head, tail) + 1
               PROVE  slots[SlotOf(tail + k)] \in Values
    BY <1>1, <1>4 DEF Stored
  <2>1. k < Minus(head, tail) \/ k = Minus(head, tail)  BY Gaps DEF IInv
  <2> QED  BY <1>2, <1>7, <2>1 DEF IInv, Stored
<1>9. Reserved'  BY <1>1 DEF IInv, Reserved, Idle
<1> QED  BY <1>1, <1>2, <1>4, <1>5, <1>6, <1>7, <1>8, <1>9 DEF IInv

\* try_pop, first part: it reads at once when its copy of head_ is ahead of tail_.
LEMMA PopBeginStep ==
    ASSUME IInv, PopBegin
    PROVE  IInv'
<1>1. /\ popping.at = "idle"
      /\ popping' = [popping EXCEPT !.at = IF tail = cachedHead THEN "load" ELSE "read"]
      /\ UNCHANGED <<tail, cachedHead, received, slots, head, cachedTail, pushing, accepted>>
  BY DEF PopBegin, producerVars
<1>2. popping \in [at : {"idle", "load", "read"}, value : {NULL}]
  BY <1>1 DEF IInv, TypeOK
<1>3. popping' \in [at : {"idle", "load", "read"}, value : {NULL}]
  BY <1>1, <1>2
<1>4. TypeOK'  BY <1>1, <1>3 DEF IInv, TypeOK
<1>5. CountersInOrder' /\ Stored'  BY <1>1 DEF IInv, CountersInOrder, Stored
<1>6. popping'.at = "read" => tail # cachedHead  BY <1>1, <1>2
<1>7. popping'.at # "publish"  BY <1>3
<1>8. Reserved'  BY <1>1, <1>6, <1>7 DEF IInv, Reserved
<1> QED  BY <1>4, <1>5, <1>8 DEF IInv

\* What a load of head_ does to the distances.
LEMMA SeenHead ==
    ASSUME TypeOK, CountersInOrder, NEW seen \in Loads(head, cachedHead)
    PROVE  /\ seen \in Index
           /\ Minus(seen, cachedHead) \in Nat
           /\ Minus(seen, cachedHead) <= Minus(head, cachedHead)
           /\ Minus(head, seen) = Minus(head, cachedHead) - Minus(seen, cachedHead)
           /\ Minus(seen, cachedTail) = Minus(cachedHead, cachedTail) + Minus(seen, cachedHead)
           /\ Minus(seen, tail) = Minus(head, tail) - Minus(head, seen)
<1>1. head \in Index /\ tail \in Index /\ cachedTail \in Index /\ cachedHead \in Index
  BY DEF TypeOK
<1>2. seen \in Index /\ Minus(seen, cachedHead) <= Minus(head, cachedHead)
  BY DEF Loads
<1>3. Minus(seen, cachedHead) \in Nat  BY <1>1, <1>2, MinusIs
<1>4. Minus(head, seen) = Minus(head, cachedHead) - Minus(seen, cachedHead)
  BY <1>1, <1>2, Between
<1>5. Minus(seen, cachedTail) = Minus(cachedHead, cachedTail) + Minus(seen, cachedHead)
  <2>1. /\ Minus(seen, cachedTail) = IF seen >= cachedTail THEN seen - cachedTail
                                      ELSE seen - cachedTail + Modulus
        /\ Minus(cachedHead, cachedTail) =
              IF cachedHead >= cachedTail THEN cachedHead - cachedTail
              ELSE cachedHead - cachedTail + Modulus
        /\ Minus(seen, cachedHead) = IF seen >= cachedHead THEN seen - cachedHead
                                      ELSE seen - cachedHead + Modulus
    BY <1>1, <1>2, MinusIs
  <2>2. Minus(cachedHead, cachedTail) + Minus(seen, cachedHead) <= Capacity
    BY <1>2, <1>3, Gaps, CapacityAssumption DEF CountersInOrder
  <2>3. Minus(cachedHead, cachedTail) + Minus(seen, cachedHead) < Modulus
    BY <1>3, <2>2, Gaps, CapacityAssumption, ModulusAssumption
  <2> QED  BY <1>1, <1>2, <2>1, <2>3, ModulusAssumption DEF Index
<1>6. Minus(seen, tail) = Minus(head, tail) - Minus(head, seen)
  <2>1. Minus(tail, cachedTail) <= Minus(seen, cachedTail)
    BY <1>3, <1>5, Gaps DEF CountersInOrder
  <2>2. Minus(seen, tail) = Minus(seen, cachedTail) - Minus(tail, cachedTail)
    BY <1>1, <1>2, <2>1, Between
  <2> QED  BY <1>3, <1>4, <1>5, <2>2, Gaps
<1> QED  BY <1>2, <1>3, <1>4, <1>5, <1>6

\* try_pop, the load of head_: an old value still covers what was seen before.
LEMMA PopLoadStep ==
    ASSUME IInv, PopLoad
    PROVE  IInv'
<1>1. PICK seen \in Loads(head, cachedHead) :
        /\ cachedHead' = seen
        /\ IF tail = seen
           THEN popping' = Idle /\ received' = NULL
           ELSE popping' = [popping EXCEPT !.at = "read"] /\ UNCHANGED received
  BY DEF PopLoad
<1>2. /\ UNCHANGED <<tail, slots, head, cachedTail, pushing, accepted>>
      /\ popping.at = "load"
  BY DEF PopLoad, producerVars
<1>3. /\ seen \in Index
      /\ Minus(seen, cachedHead) \in Nat
      /\ Minus(seen, cachedHead) <= Minus(head, cachedHead)
      /\ Minus(head, seen) = Minus(head, cachedHead) - Minus(seen, cachedHead)
      /\ Minus(seen, cachedTail) = Minus(cachedHead, cachedTail) + Minus(seen, cachedHead)
  BY SeenHead DEF IInv
<1>4. popping \in [at : {"idle", "load", "read"}, value : {NULL}]
  BY <1>2 DEF IInv, TypeOK
<1>5. popping' \in [at : {"idle", "load", "read"}, value : {NULL}]
  BY <1>1, <1>4 DEF Idle
<1>6. TypeOK'
  <2>1. received' \in Values \cup {NULL}  BY <1>1 DEF IInv, TypeOK
  <2> QED  BY <1>1, <1>2, <1>3, <1>5, <2>1 DEF IInv, TypeOK
<1>7. CountersInOrder'
  BY <1>1, <1>2, <1>3, Gaps DEF IInv, CountersInOrder
<1>8. Stored'  BY <1>2 DEF IInv, Stored
<1>9. popping'.at = "read" => tail # seen  BY <1>1 DEF Idle
<1>10. popping'.at # "publish"  BY <1>5
<1>11. Reserved'  BY <1>1, <1>2, <1>9, <1>10 DEF IInv, Reserved
<1> QED  BY <1>6, <1>7, <1>8, <1>11 DEF IInv

\* What the consumer is about to read was stored.
LEMMA Readable ==
    ASSUME IInv, popping.at \in {"read", "publish"}
    PROVE  /\ 0 < Minus(cachedHead, tail) /\ Minus(cachedHead, tail) <= Minus(head, tail)
           /\ slots[SlotOf(tail)] \in Values
<1>1. tail # cachedHead  BY DEF IInv, Reserved
<1>2. Minus(cachedHead, tail) # 0  BY <1>1, ZeroGap DEF IInv, TypeOK
<1>3. 0 < Minus(cachedHead, tail) /\ Minus(cachedHead, tail) <= Minus(head, tail)
  BY <1>2, Gaps DEF IInv, CountersInOrder
<1>4. slots[SlotOf(tail + 0)] \in Values  BY <1>3, Gaps DEF IInv, Stored
<1>5. tail + 0 = tail  BY ModulusAssumption DEF IInv, TypeOK, Index
<1> QED  BY <1>3, <1>4, <1>5

\* try_pop, the read: the slot at tail_ holds a value that was pushed.
LEMMA PopReadStep ==
    ASSUME IInv, PopRead
    PROVE  IInv'
<1>1. /\ popping.at = "read"
      /\ popping' = [at |-> "publish", value |-> slots[SlotOf(tail)]]
      /\ UNCHANGED <<tail, cachedHead, received, slots, head, cachedTail, pushing, accepted>>
  BY DEF PopRead, producerVars
<1>2. slots[SlotOf(tail)] \in Values  BY <1>1, Readable
<1>3. popping' \in [at : {"publish"}, value : Values]  BY <1>1, <1>2
<1>4. TypeOK'  BY <1>1, <1>3 DEF IInv, TypeOK
<1>5. CountersInOrder' /\ Stored'  BY <1>1 DEF IInv, CountersInOrder, Stored
<1>6. Reserved'  BY <1>1 DEF IInv, Reserved
<1> QED  BY <1>4, <1>5, <1>6 DEF IInv

\* try_pop, the store of tail_: tail_ does not overtake the copy of head_.
LEMMA PopPublishStep ==
    ASSUME IInv, PopPublish
    PROVE  /\ IInv'
           /\ Minus(head, tail)' = Minus(head, tail) - 1
           /\ Minus(tail, cachedTail)' = Minus(tail, cachedTail) + 1
           /\ received' = slots[SlotOf(tail)]
<1>1. /\ popping.at = "publish" /\ tail' = After(tail)
      /\ received' = popping.value /\ popping' = Idle
      /\ UNCHANGED <<cachedHead, slots, head, cachedTail, pushing, accepted>>
  BY DEF PopPublish, producerVars
<1>2. /\ head \in Index /\ tail \in Index /\ cachedTail \in Index /\ cachedHead \in Index
      /\ After(tail) \in Index
  BY AfterIs DEF IInv, TypeOK
<1>3. /\ 0 < Minus(cachedHead, tail) /\ Minus(cachedHead, tail) <= Minus(head, tail)
      /\ slots[SlotOf(tail)] \in Values
  BY <1>1, Readable
<1>4. popping.value = slots[SlotOf(tail)]  BY <1>1 DEF IInv, Reserved
<1>5. Minus(After(tail), cachedTail) = Minus(tail, cachedTail) + 1
  <2>1. Minus(tail, cachedTail) < Modulus - 1
    BY <1>3, Gaps, CapacityAssumption, ModulusAssumption DEF IInv, CountersInOrder
  <2> QED  BY <1>2, <2>1, AfterFurther
<1>6. TypeOK'  BY <1>1, <1>2, <1>3, <1>4 DEF IInv, TypeOK, Idle
<1>7. CountersInOrder'
  BY <1>1, <1>3, <1>5, Gaps DEF IInv, CountersInOrder
<1>8. Minus(head, After(tail)) = Minus(head, tail) - 1
  <2>1. Minus(After(tail), cachedTail) <= Minus(head, cachedTail)
    BY <1>3, <1>5, Gaps DEF IInv
  <2>2. Minus(head, After(tail)) = Minus(head, cachedTail) - Minus(After(tail), cachedTail)
    BY <1>2, <2>1, Between
  <2> QED  BY <1>5, <2>2, Gaps DEF IInv
<1>9. Stored'
  <2> SUFFICES ASSUME NEW k \in Nat, k < Minus(head, tail) - 1
               PROVE  slots[SlotOf(After(tail) + k)] \in Values
    BY <1>1, <1>8 DEF Stored
  <2>1. slots[SlotOf(tail + (k + 1))] \in Values
    BY Gaps DEF IInv, Stored
  <2> QED  BY <2>1, TailSlots DEF IInv
<1>10. Reserved'  BY <1>1 DEF IInv, Reserved, Idle
<1> QED  BY <1>1, <1>4, <1>5, <1>6, <1>7, <1>8, <1>9, <1>10 DEF IInv

-----------------------------------------------------------------------------
(* The theorems.                                                           *)

\* The invariant is kept by every step of both threads.
THEOREM InvariantStep == IInv /\ [Next]_vars => IInv'
<1> SUFFICES ASSUME IInv, [Next]_vars PROVE IInv'  OBVIOUS
<1>1. ASSUME NEW v \in Values, PushBegin(v) PROVE IInv'  BY <1>1, PushBeginStep
<1>2. CASE PushLoad  BY <1>2, PushLoadStep
<1>3. CASE PushWrite  BY <1>3, PushWriteStep
<1>4. CASE PushPublish  BY <1>4, PushPublishStep
<1>5. CASE PopBegin  BY <1>5, PopBeginStep
<1>6. CASE PopLoad  BY <1>6, PopLoadStep
<1>7. CASE PopRead  BY <1>7, PopReadStep
<1>8. CASE PopPublish  BY <1>8, PopPublishStep
<1>9. CASE UNCHANGED vars
  BY <1>9 DEF vars, producerVars, consumerVars, IInv, TypeOK, CountersInOrder, Reserved, Stored
<1> QED
  BY <1>1, <1>2, <1>3, <1>4, <1>5, <1>6, <1>7, <1>8, <1>9 DEF Next, Producer, Consumer

\* The invariant behind the results below, for every capacity and counter width:
\* types, the order of the counters and their copies, and what each side may rely
\* on at its place in try_push or try_pop.
THEOREM InductiveInvariant == Spec => []IInv
<1> QED  BY InitInvariant, InvariantStep, PTL DEF Spec

\* No try_pop hands out a slot that no try_push has written.
THEOREM TypeCorrect == Spec => []TypeOK
<1>1. IInv => TypeOK  BY DEF IInv
<1> QED  BY <1>1, InductiveInvariant, PTL

\* The counters and their copies stay in order through every wrap-around.
THEOREM CountersStayInOrder == Spec => []CountersInOrder
<1>1. IInv => CountersInOrder  BY DEF IInv
<1> QED  BY <1>1, InductiveInvariant, PTL

\* The producer never writes the slot the consumer reads.
THEOREM RaceFree == Spec => []NoSlotRace
<1>1. IInv => NoSlotRace
  <2> SUFFICES ASSUME IInv, pushing.at = "write", popping.at = "read"
               PROVE  SlotOf(head) # SlotOf(tail)
    BY DEF NoSlotRace
  <2>1. 0 < Minus(head, tail)  BY Readable, Gaps DEF IInv
  <2>2. SlotOf(tail + 0) # SlotOf(head)  BY <2>1, FreeSlot
  <2>3. tail + 0 = tail  BY ModulusAssumption DEF IInv, TypeOK, Index
  <2> QED  BY <2>2, <2>3
<1> QED  BY <1>1, InductiveInvariant, PTL

-----------------------------------------------------------------------------
(* The ring implements BoundedFifo.                                        *)

\* Content is a sequence of values as long as the counters are apart.
ContentShape ==
    /\ Content \in Seq(Values)
    /\ Len(Content) = Minus(head, tail)
    /\ \A k \in 1..Minus(head, tail) : Content[k] = slots[SlotOf(tail + k - 1)]

\* The queue the ring stands for: its length is head_ - tail_, its k-th value is in
\* the slot of tail_ + k - 1.
LEMMA ContentIs == IInv => ContentShape
<1> SUFFICES ASSUME IInv PROVE ContentShape  OBVIOUS
<1>1. Minus(head, tail) \in Nat  BY Gaps DEF IInv
<1>2. tail \in Int  BY ModulusAssumption DEF IInv, TypeOK, Index
<1>3. \A k \in 1..Minus(head, tail) : slots[SlotOf(tail + k - 1)] \in Values
  <2> SUFFICES ASSUME NEW k \in 1..Minus(head, tail)
               PROVE  slots[SlotOf(tail + k - 1)] \in Values
    OBVIOUS
  <2>1. slots[SlotOf(tail + (k - 1))] \in Values  BY <1>1 DEF IInv, Stored
  <2>2. tail + (k - 1) = tail + k - 1  BY <1>1, <1>2
  <2> QED  BY <2>1, <2>2
<1>4. Content \in [1..Minus(head, tail) -> Values]  BY <1>3 DEF Content
<1>5. Content \in Seq(Values)  BY <1>1, <1>4
<1>6. Len(Content) = Minus(head, tail)  BY <1>1, <1>4, <1>5
<1> QED  BY <1>3, <1>5, <1>6 DEF Content, ContentShape

\* Two sequences with the same elements are the same.
LEMMA SameSequence ==
    ASSUME NEW S, NEW s \in Seq(S), NEW t \in Seq(S), Len(s) = Len(t),
           \A k \in 1..Len(s) : s[k] = t[k]
    PROVE  s = t
  OBVIOUS

\* Steps that move no counter and keep the stored slots keep the content.
LEMMA ContentKept ==
    ASSUME IInv, IInv', UNCHANGED <<head, tail>>,
           \A k \in Nat : k < Minus(head, tail) =>
               slots'[SlotOf(tail + k)] = slots[SlotOf(tail + k)]
    PROVE  Content' = Content
<1>1. /\ Content \in Seq(Values) /\ Len(Content) = Minus(head, tail)
      /\ \A k \in 1..Minus(head, tail) : Content[k] = slots[SlotOf(tail + k - 1)]
  BY ContentIs DEF ContentShape
<1>2. Content' = [k \in 1..Minus(head, tail) |-> slots'[SlotOf(tail + k - 1)]]
  BY DEF Content
<1>3. Content = [k \in 1..Minus(head, tail) |-> slots[SlotOf(tail + k - 1)]]
  BY DEF Content
<1>4. \A k \in 1..Minus(head, tail) :
          slots'[SlotOf(tail + k - 1)] = slots[SlotOf(tail + k - 1)]
  <2> SUFFICES ASSUME NEW k \in 1..Minus(head, tail)
               PROVE  slots'[SlotOf(tail + k - 1)] = slots[SlotOf(tail + k - 1)]
    OBVIOUS
  <2>0. Minus(head, tail) \in Nat /\ tail \in Int
    BY Gaps, ModulusAssumption DEF IInv, TypeOK, Index
  <2>1. k - 1 \in Nat /\ k - 1 < Minus(head, tail)  BY <2>0
  <2>2. slots'[SlotOf(tail + (k - 1))] = slots[SlotOf(tail + (k - 1))]  BY <2>1
  <2>3. tail + (k - 1) = tail + k - 1  BY <2>0
  <2> QED  BY <2>2, <2>3
<1> QED  BY <1>2, <1>3, <1>4

\* Stepwise simulation: the initial state, then each step of each thread.
LEMMA FifoInit == Init => Fifo!Init
<1> SUFFICES ASSUME Init PROVE Fifo!Init  OBVIOUS
<1>1. 0 \in Index  BY ModulusAssumption, CapacityAssumption DEF Index
<1>2. Minus(0, 0) = 0  BY <1>1, ZeroGap
<1>3. IInv  BY InitInvariant
<1>4. Content = <<>>  BY <1>2, <1>3, ContentIs DEF ContentShape, Init
<1> QED  BY <1>2, <1>4 DEF Init, Fifo!Init

\* Starting a call, writing the free slot and reading a stored one are invisible.
LEMMA FifoStutter ==
    ASSUME IInv, IInv',
           \/ \E v \in Values : PushBegin(v)
           \/ PushWrite \/ PopBegin \/ PopRead \/ UNCHANGED vars
    PROVE  UNCHANGED Fifo!vars
<1>1. UNCHANGED <<head, cachedTail, accepted, tail, cachedHead, received>>
  BY DEF PushBegin, PushWrite, PopBegin, PopRead, vars, producerVars, consumerVars
<1>2. \A k \in Nat : k < Minus(head, tail) =>
          slots'[SlotOf(tail + k)] = slots[SlotOf(tail + k)]
  <2>1. CASE PushWrite  BY <2>1, PushWriteStep
  <2>2. CASE ~PushWrite
    <3>1. slots' = slots
      BY <2>2 DEF PushBegin, PopBegin, PopRead, vars, producerVars, consumerVars
    <3> QED  BY <3>1
  <2> QED  BY <2>1, <2>2
<1>3. Content' = Content  BY <1>1, <1>2, ContentKept
<1> QED  BY <1>1, <1>3 DEF Fifo!vars

\* A load of tail_ is the producer looking again.
LEMMA FifoLook ==
    ASSUME IInv, IInv', PushLoad
    PROVE  \E n \in 0..Minus(tail, cachedTail) : Fifo!Look(n)
<1>1. PICK seen \in Loads(tail, cachedTail) :
        /\ cachedTail' = seen
        /\ IF LooksFull(seen)
           THEN pushing' = Idle /\ accepted' = FALSE
           ELSE pushing' = [pushing EXCEPT !.at = "write"] /\ UNCHANGED accepted
  BY DEF PushLoad
<1>2. UNCHANGED <<head, slots, tail, cachedHead, popping, received>>
  BY DEF PushLoad, consumerVars
<1>3. /\ seen \in Index
      /\ Minus(seen, cachedTail) \in Nat
      /\ Minus(seen, cachedTail) <= Minus(tail, cachedTail)
      /\ Minus(tail, seen) = Minus(tail, cachedTail) - Minus(seen, cachedTail)
      /\ Minus(head, seen) = Minus(head, cachedTail) - Minus(seen, cachedTail)
      /\ Minus(head, seen) <= Capacity
  BY SeenTail DEF IInv
<1> DEFINE n == Minus(seen, cachedTail)
<1>4. n \in 0..Minus(tail, cachedTail)  BY <1>3, Gaps DEF IInv
<1>5. Content' = Content  BY <1>2, ContentKept
<1>6. Minus(tail, cachedTail)' = Minus(tail, cachedTail) - n  BY <1>1, <1>2, <1>3
<1>7. Minus(head, tail) + (Minus(tail, cachedTail) - n) = Minus(head, seen)
  BY <1>3, Gaps DEF IInv
<1>8. LooksFull(seen) <=> ~(Minus(head, seen) < Capacity)
  <2>1. LooksFull(seen) <=> Minus(head, seen) = Capacity  BY <1>3, FullIs DEF IInv
  <2>2. Minus(head, seen) \in Int  BY <1>3, Gaps DEF IInv
  <2> QED  BY <1>3, <2>1, <2>2, CapacityAssumption
<1>9. accepted \in BOOLEAN  BY DEF IInv, TypeOK
<1>10. accepted' = (accepted /\ Minus(head, seen) < Capacity)
  <2>1. CASE LooksFull(seen)
    <3>1. accepted' = FALSE  BY <1>1, <2>1
    <3>2. ~(Minus(head, seen) < Capacity)  BY <1>8, <2>1
    <3> QED  BY <3>1, <3>2
  <2>2. CASE ~LooksFull(seen)
    <3>1. accepted' = accepted  BY <1>1, <2>2
    <3>2. Minus(head, seen) < Capacity  BY <1>8, <2>2
    <3> QED  BY <1>9, <3>1, <3>2
  <2> QED  BY <2>1, <2>2
<1>11. Len(Content) = Minus(head, tail)  BY ContentIs DEF ContentShape
<1>12. accepted' = (accepted /\ Len(Content) + Minus(tail, cachedTail)' < Capacity)
  BY <1>6, <1>7, <1>10, <1>11
<1>13. Fifo!Look(n)  BY <1>2, <1>5, <1>6, <1>12 DEF Fifo!Look
<1> QED  BY <1>4, <1>13

\* A load of head_ is the consumer looking again.
LEMMA FifoWatch ==
    ASSUME IInv, IInv', PopLoad
    PROVE  \E n \in 0..Minus(head, cachedHead) : Fifo!Watch(n)
<1>1. PICK seen \in Loads(head, cachedHead) :
        /\ cachedHead' = seen
        /\ IF tail = seen
           THEN popping' = Idle /\ received' = NULL
           ELSE popping' = [popping EXCEPT !.at = "read"] /\ UNCHANGED received
  BY DEF PopLoad
<1>2. UNCHANGED <<tail, slots, head, cachedTail, pushing, accepted>>
  BY DEF PopLoad, producerVars
<1>3. /\ seen \in Index
      /\ Minus(seen, cachedHead) \in Nat
      /\ Minus(seen, cachedHead) <= Minus(head, cachedHead)
      /\ Minus(head, seen) = Minus(head, cachedHead) - Minus(seen, cachedHead)
      /\ Minus(seen, tail) = Minus(head, tail) - Minus(head, seen)
  BY SeenHead DEF IInv
<1> DEFINE n == Minus(seen, cachedHead)
<1>4. n \in 0..Minus(head, cachedHead)  BY <1>3, Gaps DEF IInv
<1>5. Content' = Content  BY <1>2, ContentKept
<1>6. Minus(head, cachedHead)' = Minus(head, cachedHead) - n  BY <1>1, <1>2, <1>3
<1>7. tail = seen <=> Minus(seen, tail) = 0  BY <1>3, ZeroGap DEF IInv, TypeOK
<1>8. Minus(seen, tail) \in Nat  BY <1>3, MinusIs DEF IInv, TypeOK
<1>9. tail # seen <=> Minus(head, tail) > Minus(head, cachedHead) - n
  BY <1>3, <1>7, <1>8, Gaps DEF IInv
<1>10. Len(Content) = Minus(head, tail)  BY ContentIs DEF ContentShape
<1>11. received' = IF Len(Content) > Minus(head, cachedHead)' THEN received ELSE NULL
  BY <1>1, <1>6, <1>9, <1>10
<1>12. Fifo!Watch(n)  BY <1>2, <1>5, <1>6, <1>11 DEF Fifo!Watch
<1> QED  BY <1>4, <1>12

\* The store of head_ is the push.
LEMMA FifoPush ==
    ASSUME IInv, IInv', PushPublish
    PROVE  \E v \in Values : Fifo!Push(v)
<1> DEFINE v == pushing.value
<1>1. /\ Minus(head, tail)' = Minus(head, tail) + 1
      /\ Minus(head, cachedHead)' = Minus(head, cachedHead) + 1
      /\ slots[SlotOf(tail + Minus(head, tail))] = v
      /\ v \in Values
  BY PushPublishStep
<1>2. /\ pushing.at = "publish" /\ accepted' = TRUE
      /\ UNCHANGED <<cachedTail, slots, tail, cachedHead, popping, received>>
  BY DEF PushPublish, consumerVars
<1>3. /\ Content \in Seq(Values) /\ Len(Content) = Minus(head, tail)
      /\ \A k \in 1..Minus(head, tail) : Content[k] = slots[SlotOf(tail + k - 1)]
  BY ContentIs DEF ContentShape
<1>4. /\ Content' \in Seq(Values) /\ Len(Content') = Minus(head, tail)'
      /\ \A k \in 1..Minus(head, tail)' : Content'[k] = slots'[SlotOf(tail' + k - 1)]
  <2>1. ContentShape'  BY ContentIs, PTL
  <2> QED  BY <2>1 DEF ContentShape
<1>5. Minus(head, tail) \in Nat /\ tail \in Int
  BY Gaps, ModulusAssumption DEF IInv, TypeOK, Index
<1>6. Content' = Append(Content, v)
  <2>1. Append(Content, v) \in Seq(Values) /\ Len(Append(Content, v)) = Len(Content')
    BY <1>1, <1>3, <1>4
  <2>2. ASSUME NEW k \in 1..Len(Content') PROVE Content'[k] = Append(Content, v)[k]
    <3>1. Content'[k] = slots[SlotOf(tail + k - 1)]  BY <1>2, <1>4, <2>2
    <3>2. CASE k = Minus(head, tail) + 1
      <4>1. tail + k - 1 = tail + Minus(head, tail)  BY <1>5, <3>2
      <4>2. Content'[k] = v  BY <1>1, <3>1, <4>1
      <4> QED  BY <1>1, <1>3, <3>2, <4>2
    <3>3. CASE k # Minus(head, tail) + 1
      <4>1. k \in 1..Minus(head, tail)  BY <1>1, <1>4, <1>5, <3>3
      <4> QED  BY <1>1, <1>3, <3>1, <4>1
    <3> QED  BY <3>2, <3>3
  <2> HIDE DEF v
  <2> QED  BY <1>4, <2>1, <2>2, SameSequence
<1>7. Len(Content) + Minus(tail, cachedTail) < Capacity
  <2>1. Minus(head, cachedTail) < Capacity  BY <1>2 DEF IInv, Reserved
  <2> QED  BY <1>3, <2>1, Gaps DEF IInv
<1>8. Minus(tail, cachedTail)' = Minus(tail, cachedTail)  BY <1>2
<1>9. Fifo!Push(v)  BY <1>1, <1>2, <1>6, <1>7, <1>8 DEF Fifo!Push
<1> QED  BY <1>1, <1>9

\* The store of tail_ is the pop.
LEMMA FifoPop ==
    ASSUME IInv, IInv', PopPublish
    PROVE  Fifo!Pop
<1>1. /\ Minus(head, tail)' = Minus(head, tail) - 1
      /\ Minus(tail, cachedTail)' = Minus(tail, cachedTail) + 1
      /\ received' = slots[SlotOf(tail)]
  BY PopPublishStep
<1>2. /\ popping.at = "publish" /\ tail' = After(tail)
      /\ UNCHANGED <<cachedHead, slots, head, cachedTail, pushing, accepted>>
  BY DEF PopPublish, producerVars
<1>3. /\ Content \in Seq(Values) /\ Len(Content) = Minus(head, tail)
      /\ \A k \in 1..Minus(head, tail) : Content[k] = slots[SlotOf(tail + k - 1)]
  BY ContentIs DEF ContentShape
<1>4. /\ Content' \in Seq(Values) /\ Len(Content') = Minus(head, tail)'
      /\ \A k \in 1..Minus(head, tail)' : Content'[k] = slots'[SlotOf(tail' + k - 1)]
  <2>1. ContentShape'  BY ContentIs, PTL
  <2> QED  BY <2>1 DEF ContentShape
<1>5. Minus(head, tail) \in Nat /\ tail \in Int /\ After(tail) \in Int
  <2>1. tail \in Index /\ After(tail) \in Index  BY AfterIs DEF IInv, TypeOK
  <2>2. Minus(head, tail) \in Nat  BY Gaps DEF IInv
  <2> QED  BY <2>1, <2>2, ModulusAssumption DEF Index
<1>6. 0 < Minus(cachedHead, tail)  BY <1>2, Readable
<1>7. Len(Content) > Minus(head, cachedHead)  BY <1>3, <1>6, Gaps DEF IInv
<1>8. Len(Content) > 0  BY <1>7, Gaps DEF IInv
<1>9. received' = Head(Content)
  <2>1. Content[1] = slots[SlotOf(tail + 1 - 1)]  BY <1>3, <1>5, <1>8
  <2>2. tail + 1 - 1 = tail  BY <1>5
  <2> QED  BY <1>1, <1>3, <2>1, <2>2
<1>10. Content' = Tail(Content)
  <2>1. Tail(Content) \in Seq(Values) /\ Len(Tail(Content)) = Len(Content')
    BY <1>1, <1>3, <1>4, <1>8
  <2>2. ASSUME NEW k \in 1..Len(Content') PROVE Content'[k] = Tail(Content)[k]
    <3>1. Content'[k] = slots[SlotOf(After(tail) + k - 1)]  BY <1>2, <1>4, <2>2
    <3>2. k \in Nat /\ k - 1 \in Nat /\ k + 1 \in 1..Minus(head, tail)
      BY <1>1, <1>4, <1>5
    <3>3. After(tail) + k - 1 = After(tail) + (k - 1)  BY <1>5, <3>2
    <3>4. SlotOf(After(tail) + (k - 1)) = SlotOf(tail + ((k - 1) + 1))
      BY <3>2, TailSlots DEF IInv
    <3>5. tail + ((k - 1) + 1) = tail + (k + 1) - 1  BY <1>5, <3>2
    <3>6. Content[k + 1] = slots[SlotOf(tail + (k + 1) - 1)]  BY <1>3, <3>2
    <3>7. Tail(Content)[k] = Content[k + 1]  BY <1>3, <1>8, <2>1, <2>2
    <3> QED  BY <3>1, <3>3, <3>4, <3>5, <3>6, <3>7
  <2> QED  BY <1>4, <2>1, <2>2, SameSequence
<1>11. Minus(head, cachedHead)' = Minus(head, cachedHead)  BY <1>2
<1> QED  BY <1>1, <1>2, <1>7, <1>9, <1>10, <1>11 DEF Fifo!Pop

\* The ring implements the bounded queue: every value is handed out once, in
\* the order of the pushes, for every capacity and however the loads lag.
THEOREM RingImplementsFifo == Spec => ImplementsFifo
<1>1. IInv /\ IInv' /\ [Next]_vars => [Fifo!Next]_(Fifo!vars)
  <2> SUFFICES ASSUME IInv, IInv', [Next]_vars
               PROVE  [Fifo!Next]_(Fifo!vars)
    OBVIOUS
  <2>1. CASE \/ \E v \in Values : PushBegin(v)
             \/ PushWrite \/ PopBegin \/ PopRead \/ UNCHANGED vars
    BY <2>1, FifoStutter
  <2>2. CASE PushLoad  BY <2>2, FifoLook DEF Fifo!Next
  <2>3. CASE PopLoad  BY <2>3, FifoWatch DEF Fifo!Next
  <2>4. CASE PushPublish  BY <2>4, FifoPush DEF Fifo!Next
  <2>5. CASE PopPublish  BY <2>5, FifoPop DEF Fifo!Next
  <2> QED  BY <2>1, <2>2, <2>3, <2>4, <2>5 DEF Next, Producer, Consumer
<1> QED  BY <1>1, FifoInit, InductiveInvariant, PTL DEF Spec, ImplementsFifo, Fifo!Spec
=============================================================================
