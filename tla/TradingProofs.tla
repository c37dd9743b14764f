---------------------------- MODULE TradingProofs ----------------------------
(***************************************************************************)
(* The engine and its risk manager.  First what the gate lets through, for *)
(* every configuration, quantity, position and price; then the limits of   *)
(* the risk manager alone, for any sequence of equities observed; then the *)
(* engine, for any ticks and any strategy: its flags match its book, its   *)
(* limits hold, and its account is PaperAccount.                           *)
(***************************************************************************)
EXTENDS TradingEngine, GuardedAccount, SequenceTheorems, TLAPS

Config == [maxPosition : Nat, maxNotional : Nat, maxDrawdown : Nat]

-----------------------------------------------------------------------------
(* Products and quotients.                                                 *)

\* A larger factor makes a larger product.
LEMMA ProductGrows ==
    ASSUME NEW a \in Nat, NEW b \in Nat, a <= b, NEW c \in Nat
    PROVE  a * c <= b * c
  OBVIOUS

\* A quotient is the largest number that does not exceed the limit.
LEMMA QuotientBounds ==
    ASSUME NEW a \in Nat, NEW b \in Nat \ {0}
    PROVE  /\ a \div b \in Nat
           /\ \A n \in Nat : n * b <= a <=> n <= a \div b
<1>1. a \div b \in Nat  OBVIOUS
<1>2. (a \div b) * b <= a  OBVIOUS
<1>3. a < (a \div b) * b + b  OBVIOUS
<1>4. ASSUME NEW n \in Nat, n * b <= a PROVE n <= a \div b  BY <1>4
<1>5. ASSUME NEW n \in Nat, n <= a \div b PROVE n * b <= a
  <2>1. n * b <= (a \div b) * b  BY <1>1, <1>5, ProductGrows
  <2>2. n * b \in Nat /\ (a \div b) * b \in Nat  BY <1>1
  <2> QED  BY <1>2, <2>1, <2>2
<1> QED  BY <1>1, <1>4, <1>5

\* The largest position a notional limit leaves room for at a price.
LEMMA NotionalRoom ==
    ASSUME NEW limit \in Nat, NEW px \in Nat \ {0}
    PROVE  /\ Quot(limit * Scale, px) \in Nat
           /\ \A n \in Nat : n * px <= limit * Scale <=> n <= Quot(limit * Scale, px)
           /\ \A n \in Nat : n * px <= limit * Scale => Quot(n * px, Scale) <= limit
           /\ \A n \in Nat : Quot(n * px, Scale) \in Nat
<1>1. limit * Scale \in Nat /\ Scale \in Nat \ {0}  BY ScaleAssumption
<1>2. Quot(limit * Scale, px) = (limit * Scale) \div px  BY <1>1 DEF Quot
<1>3. ASSUME NEW n \in Nat
      PROVE  n * px \in Nat /\ Quot(n * px, Scale) = (n * px) \div Scale
  <2>1. n * px \in Nat  OBVIOUS
  <2> QED  BY <2>1 DEF Quot
<1>4. ASSUME NEW n \in Nat, n * px <= limit * Scale PROVE (n * px) \div Scale <= limit
  <2>1. \A a \in Nat : a <= limit * Scale => a \div Scale <= limit  BY <1>1
  <2> QED  BY <1>3, <1>4, <2>1
<1> QED  BY <1>1, <1>2, <1>3, <1>4, QuotientBounds, ZenonT(60)

\* A larger position is worth no less.
LEMMA QuotGrows ==
    ASSUME NEW a \in Nat, NEW b \in Nat, a <= b, NEW px \in Nat
    PROVE  Quot(a * px, Scale) <= Quot(b * px, Scale)
<1>1. a * px \in Nat /\ b * px \in Nat /\ a * px <= b * px  BY ProductGrows
<1>2. \A x, y \in Nat : x <= y => x \div Scale <= y \div Scale  BY ScaleAssumption
<1> QED  BY <1>1, <1>2 DEF Quot

-----------------------------------------------------------------------------
(* The two clamps, and the gate.                                           *)

\* How far a position has gone in the direction of an action.
Toward(side, position) == position * Direction(side)

\* Trading moves the position by the quantity, up or down.
LEMMA Directions ==
    ASSUME NEW side, NEW position \in Int, NEW q \in Int
    PROVE  /\ Toward(side, position) \in Int
           /\ Abs(After(side, q, position)) \in Nat
           /\ Abs(position) \in Nat
           /\ \/ After(side, q, position) = position + q /\ Toward(side, position) = position
              \/ After(side, q, position) = position - q /\ Toward(side, position) = -position
  BY DEF Toward, Direction, After, Abs

\* A clamped action ends at the limit on its own side, or nearer to zero on the
\* other one than the position was.
LEMMA Clamped ==
    ASSUME NEW limit \in Nat, NEW side, NEW qty \in Int, NEW position \in Int,
           NEW f \in Nat, f <= Clamp(limit, side, qty, position)
    PROVE  /\ f <= qty
           /\ \/ Abs(After(side, f, position)) <= limit
              \/ f = 0
              \/ Abs(After(side, f, position)) < Abs(position)
  BY DEF Clamp, Least, Direction, After, Abs

\* No action that ends within the limit is clamped.
LEMMA NotClamped ==
    ASSUME NEW limit \in Nat, NEW side, NEW qty \in Int, NEW position \in Int,
           NEW q \in Nat, q <= qty, Abs(After(side, q, position)) <= limit
    PROVE  q <= Clamp(limit, side, qty, position)
  BY DEF Clamp, Least, Direction, After, Abs

\* Both clamps return integers, never more than was proposed.
LEMMA ClampTypes ==
    ASSUME NEW side, NEW qty \in Nat, NEW position \in Int, NEW px \in Nat, cfg \in Config
    PROVE  /\ WithinPosition(side, qty, position) \in Int
           /\ WithinPosition(side, qty, position) <= qty
           /\ \A q \in Int : /\ WithinNotional(side, q, position, px) \in Int
                             /\ WithinNotional(side, q, position, px) <= q
<1>1. \A limit \in Nat, q \in Int : Clamp(limit, side, q, position) \in Int
                                    /\ Clamp(limit, side, q, position) <= q
  BY DEF Clamp, Least, Direction
<1>2. px > 0 => Quot(cfg.maxNotional * Scale, px) \in Nat
  BY NotionalRoom DEF Config
<1> QED  BY <1>1, <1>2 DEF WithinPosition, WithinNotional, Config

\* Whatever part of an allowed action is filled, the position is within its limit if
\* it was before.
LEMMA GateKeepsPosition ==
    ASSUME NEW side, NEW qty \in Nat, NEW position \in Int, NEW px \in Nat, cfg \in Config,
           cfg.maxPosition > 0, Abs(position) <= cfg.maxPosition,
           NEW f \in 0..Gate(side, qty, position, px)
    PROVE  Abs(After(side, f, position)) <= cfg.maxPosition
<1> DEFINE w == WithinPosition(side, qty, position)
<1>1. w \in Int /\ w <= qty  BY ClampTypes
<1>2. f = 0 \/ f <= w  BY <1>1, ClampTypes DEF Gate
<1>3. CASE f = 0  BY <1>3 DEF After, Direction
<1>4. CASE f # 0
  <2>1. CASE Abs(After(side, qty, position)) > cfg.maxPosition
    <3>1. w = Clamp(cfg.maxPosition, side, qty, position)  BY <2>1 DEF WithinPosition
    <3>2. \/ Abs(After(side, f, position)) <= cfg.maxPosition
          \/ Abs(After(side, f, position)) < Abs(position)
      BY <1>2, <1>4, <3>1, Clamped DEF Config
    <3> QED  BY <3>2, Directions DEF Config
  <2>2. CASE ~(Abs(After(side, qty, position)) > cfg.maxPosition)
    <3>1. f <= qty  BY <1>1, <1>2, <1>4
    <3> QED  BY <2>2, <3>1 DEF After, Direction, Abs, Config
  <2> QED  BY <2>1, <2>2
<1> QED  BY <1>3, <1>4

\* Whatever part of an action that w allows is filled leaves the notional within its
\* limit, if all of it does, or a smaller position.
LEMMA PartsInBetween ==
    ASSUME NEW side, NEW position \in Int, NEW w \in Nat, NEW f \in 1..w
    PROVE  \/ Abs(After(side, f, position)) <= Abs(After(side, w, position))
           \/ Abs(After(side, f, position)) < Abs(position)
  BY DEF After, Direction, Abs

\* Whatever part of an allowed action is filled leaves the notional within its limit,
\* or a smaller position.
LEMMA GateKeepsNotional ==
    ASSUME NEW side, NEW qty \in Nat, NEW position \in Int, NEW px \in Nat, cfg \in Config,
           cfg.maxNotional > 0, px > 0, NEW f \in 1..Gate(side, qty, position, px)
    PROVE  LET left == After(side, f, position)
           IN  \/ Quot(Abs(left) * px, Scale) <= cfg.maxNotional
               \/ Abs(left) < Abs(position)
<1> DEFINE w == WithinPosition(side, qty, position)
           g == Gate(side, qty, position, px)
           limit == Quot(cfg.maxNotional * Scale, px)
           left == Abs(After(side, f, position))
<1>1. w \in Int  BY ClampTypes
<1>2. g = WithinNotional(side, w, position, px) /\ g > 0
  BY ClampTypes, <1>1 DEF Gate
<1>3. g \in Nat /\ f \in Nat  BY <1>1, <1>2, ClampTypes
<1>4. /\ limit \in Nat
      /\ \A n \in Nat : n <= limit <=> n * px <= cfg.maxNotional * Scale
      /\ \A n \in Nat : n * px <= cfg.maxNotional * Scale => Quot(n * px, Scale) <= cfg.maxNotional
  <2>1. cfg.maxNotional \in Nat /\ px \in Nat \ {0}  BY DEF Config
  <2> QED  BY <2>1, NotionalRoom
<1>5. left \in Nat  BY <1>3, Directions
<1> HIDE DEF limit, w
<1>6. CASE Quot(Abs(After(side, w, position)) * px, Scale) > cfg.maxNotional
  <2>1. g = Clamp(limit, side, w, position)  BY <1>2, <1>6 DEF WithinNotional, limit
  <2> HIDE DEF g
  <2>2. f <= Clamp(limit, side, w, position)  BY <1>3, <2>1 DEF g
  <2>3. left <= limit \/ left < Abs(position)
    BY <1>1, <1>3, <1>4, <2>2, Clamped
  <2> HIDE DEF left
  <2>4. left * px <= cfg.maxNotional * Scale \/ left < Abs(position)  BY <1>4, <1>5, <2>3
  <2> QED  BY <1>4, <1>5, <2>4 DEF left
<1>7. CASE ~(Quot(Abs(After(side, w, position)) * px, Scale) > cfg.maxNotional)
  <2>1. g = w  BY <1>2, <1>7 DEF WithinNotional
  <2>2. w \in Nat /\ f \in 1..w  BY <1>3, <2>1
  <2> DEFINE all == Abs(After(side, w, position))
  <2>3. left <= all \/ left < Abs(position)  BY <2>2, PartsInBetween
  <2>4. all \in Nat  BY <1>1, Directions
  <2> HIDE DEF all, left
  <2>5. left <= all => Quot(left * px, Scale) <= Quot(all * px, Scale)
    BY <1>5, <2>4, QuotGrows
  <2>6. Quot(all * px, Scale) <= cfg.maxNotional
    <3>1. cfg.maxNotional \in Nat /\ px \in Nat \ {0}  BY DEF Config
    <3>2. Quot(all * px, Scale) \in Nat  BY <2>4, <3>1, NotionalRoom
    <3> QED  BY <1>7, <3>1, <3>2 DEF all
  <2>7. Quot(left * px, Scale) \in Nat /\ Quot(all * px, Scale) \in Nat
        /\ cfg.maxNotional \in Nat
    <3>1. cfg.maxNotional \in Nat /\ px \in Nat \ {0}  BY DEF Config
    <3> QED  BY <1>5, <2>4, <3>1, NotionalRoom
  <2> QED  BY <2>3, <2>5, <2>6, <2>7 DEF left
<1> QED  BY <1>6, <1>7

\* The gate of a trader that is not halted allows every quantity up to the proposed
\* one that keeps both limits.
LEMMA GateAllows ==
    ASSUME NEW side, NEW qty \in Nat, NEW position \in Int, NEW px \in Nat, cfg \in Config,
           ~halted, NEW q \in 1..qty,
           cfg.maxPosition > 0 => Abs(After(side, q, position)) <= cfg.maxPosition,
           cfg.maxNotional > 0 => Abs(After(side, q, position)) * px <= cfg.maxNotional * Scale
    PROVE  q <= Gate(side, qty, position, px)
<1> DEFINE w == WithinPosition(side, qty, position)
           n == WithinNotional(side, w, position, px)
<1>1. w \in Int /\ n \in Int  BY ClampTypes
<1>2. q <= w  BY NotClamped DEF WithinPosition, Config
<1>3. Abs(After(side, q, position)) \in Nat  BY Directions
<1>4. q <= n
  <2>1. CASE /\ cfg.maxNotional > 0 /\ px > 0
             /\ Quot(Abs(After(side, w, position)) * px, Scale) > cfg.maxNotional
    <3> DEFINE limit == Quot(cfg.maxNotional * Scale, px)
    <3>1. n = Clamp(limit, side, w, position)  BY <2>1 DEF WithinNotional
    <3>2. limit \in Nat /\ Abs(After(side, q, position)) <= limit
      BY <1>3, <2>1, NotionalRoom DEF Config
    <3> HIDE DEF limit, w, n
    <3> QED  BY <1>1, <1>2, <3>1, <3>2, NotClamped
  <2>2. CASE ~ (/\ cfg.maxNotional > 0 /\ px > 0
                /\ Quot(Abs(After(side, w, position)) * px, Scale) > cfg.maxNotional)
    BY <1>2, <2>2 DEF WithinNotional
  <2> QED  BY <2>1, <2>2
<1> QED  BY <1>1, <1>4 DEF Gate

-----------------------------------------------------------------------------
(* The risk manager with anything that may be asked of it.                 *)

Call == [side : {"buy", "sell"}, qty : Nat, position : Int, px : Nat, allowed : Nat]

GuardedTypes ==
    /\ cfg \in Config /\ peak_equity \in Int /\ halted \in BOOLEAN
    /\ btc_qty \in Int
    /\ observed \in Seq(Int)
    /\ call \in Call

\* The equities so far: the zero an account starts with, then those observed.
History == [i \in 0..Len(observed) |-> IF i = 0 THEN 0 ELSE observed[i]]

\* The peak is the greatest of them.
PeakInv ==
    /\ \A i \in DOMAIN History : History[i] <= peak_equity
    /\ \E i \in DOMAIN History : History[i] = peak_equity

\* Up to n, some number is more than d below an earlier one.
Dropped(H, n, d) == \E j \in 0..n : \E i \in 0..j : H[i] - H[j] > d

\* Trading is halted once an equity is further below an earlier one than the limit.
HaltInv ==
    halted <=> cfg.maxDrawdown > 0 /\ Dropped(History, Len(observed), cfg.maxDrawdown)

GuardedInv ==
    /\ GuardedTypes /\ PeakInv /\ HaltInv
    /\ LimitsHold /\ NothingTakenForNothing
    /\ call.allowed <= call.qty

-----------------------------------------------------------------------------
(* One more equity.                                                        *)

\* The peak is moved to the greatest of one equity more.
LEMMA PeakMoves ==
    ASSUME NEW n \in Nat, NEW E \in [0..n -> Int], NEW F \in [0..n + 1 -> Int],
           \A i \in 0..n : F[i] = E[i],
           NEW peak \in Int,
           \A i \in 0..n : E[i] <= peak, \E i \in 0..n : E[i] = peak,
           NEW peak1, peak1 = IF F[n + 1] > peak THEN F[n + 1] ELSE peak
    PROVE  /\ \A i \in 0..n + 1 : F[i] <= peak1
           /\ \E i \in 0..n + 1 : F[i] = peak1
<1>1. n + 1 \in 0..n + 1 /\ F[n + 1] \in Int  OBVIOUS
<1>2. ASSUME NEW i \in 0..n + 1 PROVE F[i] <= peak1
  <2>1. CASE i = n + 1  BY <1>1, <2>1
  <2>2. CASE i \in 0..n
    <3>1. F[i] \in Int /\ F[i] <= peak  BY <2>2
    <3> QED  BY <1>1, <3>1
  <2> QED  BY <2>1, <2>2
<1>3. PICK m \in 0..n : E[m] = peak  OBVIOUS
<1>4. m \in 0..n + 1 /\ F[m] = peak  BY <1>3
<1> QED  BY <1>1, <1>2, <1>4

\* A new drop is one from the peak to the last equity.
LEMMA DropGrows ==
    ASSUME NEW n \in Nat, NEW E \in [0..n -> Int], NEW F \in [0..n + 1 -> Int],
           \A i \in 0..n : F[i] = E[i],
           NEW peak \in Int,
           \A i \in 0..n : E[i] <= peak, \E i \in 0..n : E[i] = peak,
           NEW peak1, peak1 = IF F[n + 1] > peak THEN F[n + 1] ELSE peak,
           NEW d \in Nat
    PROVE  Dropped(F, n + 1, d) <=> Dropped(E, n, d) \/ peak1 - F[n + 1] > d
<1>1. n + 1 \in 0..n + 1 /\ F[n + 1] \in Int /\ peak1 \in Int  OBVIOUS
<1>5. \A i \in 0..n + 1 : F[i] <= peak1  BY PeakMoves
<1>2. ASSUME NEW j \in 0..n + 1, NEW i \in 0..j, F[i] - F[j] > d
      PROVE  \/ \E b \in 0..n : \E a \in 0..b : E[a] - E[b] > d
             \/ peak1 - F[n + 1] > d
  <2>1. CASE j = n + 1
    <3>0. i \in 0..n + 1  BY <2>1
    <3>1. F[i] \in Int /\ F[i] <= peak1  BY <1>5, <3>0
    <3> QED  BY <1>1, <1>2, <2>1, <3>1, SMTT(60)
  <2>2. CASE j # n + 1
    <3>1. j \in 0..n /\ i \in 0..n  BY <2>2
    <3>2. E[i] - E[j] > d  BY <1>2, <3>1
    <3> QED  BY <3>1, <3>2
  <2> QED  BY <2>1, <2>2
<1>3. ASSUME NEW j \in 0..n, NEW i \in 0..j, E[i] - E[j] > d
      PROVE  \E b \in 0..n + 1 : \E a \in 0..b : F[a] - F[b] > d
  <2>1. j \in 0..n + 1 /\ i \in 0..n /\ F[i] = E[i] /\ F[j] = E[j]  OBVIOUS
  <2> QED  BY <1>3, <2>1
<1>4. ASSUME peak1 - F[n + 1] > d
      PROVE  \E b \in 0..n + 1 : \E a \in 0..b : F[a] - F[b] > d
  <2>1. PICK i \in 0..n + 1 : F[i] = peak1  BY PeakMoves
  <2> QED  BY <1>1, <1>4, <2>1
<1> QED  BY <1>2, <1>3, <1>4 DEF Dropped

-----------------------------------------------------------------------------
(* Every step keeps the invariant.                                         *)

\* The first call has not been made and nothing was observed.
LEMMA GuardedInitInv == GuardedInit => GuardedInv
<1> SUFFICES ASSUME GuardedInit PROVE GuardedInv  OBVIOUS
<1>1. cfg \in Config /\ peak_equity = 0 /\ halted = FALSE /\ btc_qty = 0
      /\ observed = <<>> /\ call = NoCall
  BY ConfigsAssumption DEF GuardedInit, RiskInit, Config
<1>2. GuardedTypes
  <2>1. NoCall \in Call  BY DEF NoCall, Call
  <2>2. <<>> \in Seq(Int)  BY EmptySeq
  <2>3. halted \in BOOLEAN  BY <1>1
  <2>4. peak_equity \in Int /\ btc_qty \in Int  BY <1>1
  <2> QED  BY <1>1, <2>1, <2>2, <2>3, <2>4, Zenon DEF GuardedTypes
<1>3. DOMAIN History = {0} /\ History[0] = 0  BY <1>1 DEF History
<1>4. PeakInv  BY <1>1, <1>3 DEF PeakInv
<1>7. HaltInv
  <2>1. cfg.maxDrawdown \in Nat /\ halted = FALSE  BY <1>1 DEF Config
  <2>2. \A j \in {0} : \A i \in 0..j : History[i] - History[j] = 0  BY <1>3
  <2> QED  BY <1>1, <1>3, <2>1, <2>2 DEF HaltInv, Dropped
<1>5. LimitsHold  BY <1>1 DEF LimitsHold, PositionOk, NoCall, Abs, Config
<1>6. NothingTakenForNothing  BY <1>1 DEF NothingTakenForNothing, NoCall
<1> QED  BY <1>1, <1>2, <1>4, <1>5, <1>6, <1>7 DEF GuardedInv, NoCall

\* An equity is observed.
LEMMA ObserveStep ==
    ASSUME GuardedInv, Observe
    PROVE  GuardedInv'
<1> USE DEF GuardedInv
<1>1. PICK equity \in Equities :
          ObserveEquity(equity) /\ observed' = Append(observed, equity)
  BY DEF Observe
<1>2. /\ equity \in Int /\ peak_equity \in Int /\ cfg \in Config
      /\ observed \in Seq(Int) /\ halted \in BOOLEAN
      /\ UNCHANGED <<cfg, btc_qty, call>>
  BY <1>1, InputsAssumption DEF Observe, ObserveEquity, GuardedTypes
<1> DEFINE n == Len(observed)
<1>3. /\ n \in Nat /\ observed' \in Seq(Int) /\ Len(observed') = n + 1
      /\ \A i \in 1..n : observed'[i] = observed[i] /\ observed[i] \in Int
      /\ observed'[n + 1] = equity
  BY <1>1, <1>2, AppendProperties, LenProperties, ElementOfSeq
<1>4. peak_equity' = IF equity > peak_equity THEN equity ELSE peak_equity
  BY <1>1 DEF ObserveEquity
<1>5. halted' = (halted \/ (cfg.maxDrawdown > 0
                               /\ peak_equity' - equity > cfg.maxDrawdown))
  BY <1>1 DEF ObserveEquity
<1> HIDE DEF n
<1>6. GuardedTypes'  BY <1>2, <1>3, <1>4, <1>5 DEF GuardedTypes
<1>7. /\ History \in [0..n -> Int] /\ History' \in [0..n + 1 -> Int]
      /\ \A i \in 0..n : History'[i] = History[i]
      /\ History'[n + 1] = equity
  <2>1. History = [i \in 0..n |-> IF i = 0 THEN 0 ELSE observed[i]]  BY DEF History, n
  <2>2. History' = [i \in 0..n + 1 |-> IF i = 0 THEN 0 ELSE observed'[i]]
    BY <1>3 DEF History
  <2>3. \A i \in 0..n : i = 0 \/ i \in 1..n  BY <1>3
  <2>4. \A i \in 0..n + 1 : i \in 0..n \/ i = n + 1  BY <1>3
  <2>5. \A i \in 0..n : i \in 0..n + 1 /\ i # n + 1  BY <1>3
  <2>6. n + 1 \in 0..n + 1 /\ n + 1 # 0  BY <1>3
  <2> QED  BY <1>2, <1>3, <2>1, <2>2, <2>3, <2>4, <2>5, <2>6
<1>8. /\ \A i \in 0..n : History[i] <= peak_equity
      /\ \E i \in 0..n : History[i] = peak_equity
  BY <1>7 DEF PeakInv
<1>9. PeakInv'
  <2>1. /\ \A i \in 0..n + 1 : History'[i] <= peak_equity'
        /\ \E i \in 0..n + 1 : History'[i] = peak_equity'
    BY <1>2, <1>3, <1>4, <1>7, <1>8, PeakMoves, SMTT(60)
  <2> QED  BY <1>7, <2>1 DEF PeakInv
<1>10. HaltInv'
  <2>1. cfg.maxDrawdown \in Nat  BY <1>2 DEF Config
  <2>2. Dropped(History', n + 1, cfg.maxDrawdown)
        <=> \/ Dropped(History, n, cfg.maxDrawdown)
            \/ peak_equity' - equity > cfg.maxDrawdown
    <3>1. n \in Nat /\ peak_equity \in Int /\ peak_equity' \in Int  BY <1>2, <1>3, <1>4
    <3>2. peak_equity' = IF History'[n + 1] > peak_equity THEN History'[n + 1]
                         ELSE peak_equity
      BY <1>4, <1>7
    <3>3. Dropped(History', n + 1, cfg.maxDrawdown)
          <=> \/ Dropped(History, n, cfg.maxDrawdown)
              \/ peak_equity' - History'[n + 1] > cfg.maxDrawdown
      BY <1>7, <1>8, <2>1, <3>1, <3>2, DropGrows
    <3> QED  BY <1>7, <3>3
  <2> QED  BY <1>2, <1>3, <1>5, <2>2 DEF HaltInv, n
<1>11. LimitsHold'
  BY <1>2 DEF LimitsHold, PositionOk, NotionalOk, Left
<1>12. NothingTakenForNothing'
  BY <1>2, <1>5 DEF NothingTakenForNothing, PositionOk
<1> QED  BY <1>2, <1>6, <1>9, <1>10, <1>11, <1>12

\* An action goes through the gate and a part of it is filled.
LEMMA TradeStep ==
    ASSUME GuardedInv, Trade
    PROVE  GuardedInv'
<1>1. PICK side \in {"buy", "sell"}, qty \in Proposals, px \in ExecPrices :
          /\ call' = [side |-> side, qty |-> qty, position |-> btc_qty,
                      px |-> px, allowed |-> Gate(side, qty, btc_qty, px)]
          /\ \E filled \in 0..Gate(side, qty, btc_qty, px) :
                btc_qty' = After(side, filled, btc_qty)
  BY DEF Trade
<1>2. PICK filled \in 0..Gate(side, qty, btc_qty, px) :
          btc_qty' = After(side, filled, btc_qty)
  BY <1>1
<1>3. /\ qty \in Nat /\ px \in Nat /\ btc_qty \in Int /\ cfg \in Config
      /\ UNCHANGED <<cfg, peak_equity, halted, observed>>
  BY InputsAssumption DEF Trade, riskVars, GuardedInv, GuardedTypes
<1> DEFINE g == Gate(side, qty, btc_qty, px)
<1>4. g \in Nat /\ g <= qty  BY <1>3, ClampTypes DEF Gate
<1> HIDE DEF g
<1>5. After(side, filled, btc_qty) \in Int /\ After(side, g, btc_qty) \in Int
  BY <1>3, <1>4 DEF After, Direction, g
<1>6. GuardedTypes'
  <2>1. call' \in Call  BY <1>1, <1>3, <1>4 DEF Call, g
  <2> QED  BY <1>2, <1>3, <1>5, <2>1 DEF GuardedInv, GuardedTypes
<1>7. PeakInv' /\ HaltInv'  BY <1>3 DEF GuardedInv, PeakInv, HaltInv, History
<1>8. LimitsHold'
  <2>1. PositionOk(btc_qty)'
    <3>1. SUFFICES ASSUME cfg.maxPosition > 0
                   PROVE  Abs(btc_qty') <= cfg.maxPosition
      BY <1>3 DEF PositionOk
    <3>2. Abs(btc_qty) <= cfg.maxPosition
      BY <3>1 DEF GuardedInv, LimitsHold, PositionOk
    <3> QED  BY <1>2, <1>3, <3>1, <3>2, GateKeepsPosition
  <2>2. call'.px = px /\ call'.position = btc_qty /\ call'.allowed = g
        /\ Left' = After(side, g, btc_qty)
    BY <1>1 DEF Left, g
  <2>3. CASE g # 0 /\ cfg.maxNotional > 0 /\ px > 0
    <3>1. \/ Quot(Abs(After(side, g, btc_qty)) * px, Scale) <= cfg.maxNotional
          \/ Abs(After(side, g, btc_qty)) < Abs(btc_qty)
      <4>1. g \in 1..g  BY <1>4, <2>3
      <4> QED  BY <1>3, <2>3, <4>1, GateKeepsNotional DEF g
    <3> QED  BY <1>3, <2>1, <2>2, <3>1 DEF LimitsHold, NotionalOk
  <2>4. CASE ~(g # 0 /\ cfg.maxNotional > 0 /\ px > 0)
    BY <1>3, <2>1, <2>2, <2>4 DEF LimitsHold, NotionalOk
  <2> QED  BY <2>3, <2>4
<1>9. NothingTakenForNothing'
  <2>1. /\ call'.px = px /\ call'.position = btc_qty /\ call'.allowed = g
        /\ call'.side = side /\ call'.qty = qty
    BY <1>1 DEF g
  <2>2. ASSUME ~halted, NEW q \in 1..qty,
               PositionOk(After(side, q, btc_qty)),
               cfg.maxNotional > 0 => Abs(After(side, q, btc_qty)) * px <= cfg.maxNotional * Scale
        PROVE  q <= g
    BY <1>3, <2>2, GateAllows DEF PositionOk, g
  <2> QED  BY <1>3, <2>1, <2>2 DEF NothingTakenForNothing, PositionOk
<1> QED  BY <1>1, <1>4, <1>6, <1>7, <1>8, <1>9 DEF GuardedInv, g

-----------------------------------------------------------------------------
(* The theorems.                                                           *)

\* Types, peak, halt and both readings of the gate hold in every state.
THEOREM GuardedInvariant == GuardedSpec => []GuardedInv
<1>1. GuardedInv /\ [GuardedNext]_guardedVars => GuardedInv'
  <2>1. ASSUME GuardedInv, UNCHANGED guardedVars PROVE GuardedInv'
    <3>1. UNCHANGED <<cfg, peak_equity, halted, btc_qty, observed, call>>
      BY <2>1 DEF guardedVars, riskVars
    <3>2. GuardedTypes'  BY <2>1, <3>1 DEF GuardedInv, GuardedTypes
    <3>3. PeakInv' /\ HaltInv'  BY <2>1, <3>1 DEF GuardedInv, PeakInv, HaltInv, History
    <3>4. LimitsHold'  BY <2>1, <3>1 DEF GuardedInv, LimitsHold, PositionOk, NotionalOk, Left
    <3>5. NothingTakenForNothing'
      BY <2>1, <3>1 DEF GuardedInv, NothingTakenForNothing, PositionOk
    <3> QED  BY <2>1, <3>1, <3>2, <3>3, <3>4, <3>5 DEF GuardedInv
  <2> QED  BY <2>1, ObserveStep, TradeStep DEF GuardedNext
<1> QED  BY GuardedInitInv, <1>1, PTL DEF GuardedSpec

\* For every configuration and any order of actions, partial fills and prices, the
\* btc_qty is in its limit and an allowed action keeps the notional's or shrinks the
\* position.
THEOREM LimitsAlwaysHold == GuardedSpec => []LimitsHold
<1>1. GuardedInv => LimitsHold  BY DEF GuardedInv
<1> QED  BY <1>1, GuardedInvariant, PTL

\* For every configuration, quantity, position and price the gate takes no more from
\* an action than its limits demand.
THEOREM GateIsGenerous == GuardedSpec => []NothingTakenForNothing
<1>1. GuardedInv => NothingTakenForNothing  BY DEF GuardedInv
<1> QED  BY <1>1, GuardedInvariant, PTL

\* For every sequence of equities, keeping the peak alone halts trading exactly when
\* some equity was too far below an earlier one.
THEOREM HaltExact == GuardedSpec => []HaltedByDrawdown
<1>1. GuardedInv => HaltedByDrawdown
  <2> SUFFICES ASSUME GuardedInv PROVE HaltedByDrawdown  OBVIOUS
  <2> DEFINE equity == <<0>> \o observed
             n == Len(observed)
  <2>1. n \in Nat /\ observed \in Seq(Int)  BY LenProperties DEF GuardedInv, GuardedTypes
  <2>2. /\ Len(equity) = n + 1 /\ DOMAIN equity = 1..n + 1
        /\ \A k \in 1..n + 1 : equity[k] = IF k = 1 THEN 0 ELSE observed[k - 1]
    <3>1. <<0>> \in Seq(Int) /\ Len(<<0>>) = 1 /\ <<0>>[1] = 0  OBVIOUS
    <3> QED  BY <2>1, <3>1, ConcatProperties, LenProperties
  <2>3. /\ DOMAIN History = 0..n
        /\ \A k \in 0..n : History[k] = IF k = 0 THEN 0 ELSE observed[k]
    BY DEF History
  <2> HIDE DEF equity, n
  <2>4. \A k \in 1..n + 1 : k - 1 \in 0..n /\ equity[k] = History[k - 1]
    BY <2>1, <2>2, <2>3
  <2>5. \A k \in 0..n : k + 1 \in 1..n + 1 /\ equity[k + 1] = History[k]
    <3>1. \A k \in 0..n : k + 1 \in 1..n + 1 /\ (k + 1) - 1 = k  BY <2>1
    <3> QED  BY <2>4, <3>1
  <2>6. (\E j \in 1..n + 1 : \E i \in 1..j : equity[i] - equity[j] > cfg.maxDrawdown)
        <=> \E j \in 0..n : \E i \in 0..j : History[i] - History[j] > cfg.maxDrawdown
    <3>1. ASSUME NEW j \in 1..n + 1, NEW i \in 1..j, equity[i] - equity[j] > cfg.maxDrawdown
          PROVE  \E b \in 0..n : \E a \in 0..b : History[a] - History[b] > cfg.maxDrawdown
      <4>1. j - 1 \in 0..n /\ i - 1 \in 0..j - 1 /\ i \in 1..n + 1  BY <2>1
      <4>2. History[i - 1] - History[j - 1] > cfg.maxDrawdown  BY <2>4, <3>1, <4>1
      <4> QED  BY <4>1, <4>2
    <3>2. ASSUME NEW j \in 0..n, NEW i \in 0..j, History[i] - History[j] > cfg.maxDrawdown
          PROVE  \E b \in 1..n + 1 : \E a \in 1..b : equity[a] - equity[b] > cfg.maxDrawdown
      <4>1. j + 1 \in 1..n + 1 /\ i + 1 \in 1..j + 1 /\ i \in 0..n  BY <2>1
      <4>2. equity[i + 1] - equity[j + 1] > cfg.maxDrawdown  BY <2>5, <3>2, <4>1
      <4> QED  BY <4>1, <4>2
    <3> QED  BY <3>1, <3>2
  <2> QED  BY <2>2, <2>6 DEF GuardedInv, HaltInv, Dropped, HaltedByDrawdown, equity, n
<1> QED  BY <1>1, GuardedInvariant, PTL

-----------------------------------------------------------------------------
(* The inductive invariant: types, then book, phases of a tick, and limits.*)

Tick == [px : [Side -> Prices \cup {0}], qty : [Side -> Nat]]
Places ==
    {<<"poll">>, <<"refresh">>, <<"strategy">>, <<"place">>, <<"placed">>, <<"take">>,
     <<"taken">>} \cup ({"cancel", "quote", "quoted"} \X Side)

TypeInv ==
    /\ cfg \in Config /\ peak_equity \in Int /\ halted \in BOOLEAN
    /\ pc \in Places
    /\ tick \in Ticks \cup {NULL} /\ cur \in Tick
    /\ live \in [Side -> BOOLEAN]
    /\ action \in [side : Side, qty : Nat]
    /\ traded \in [filled : Nat, cash : Int]
    /\ pos \in [btc_qty : Int, cash : Int, gross_volume : Int, fills : Int]

\* Queues of a side: without orders, and with its quote of quantity n.
Nothing == [p \in Prices |-> <<>>]
QuoteOf(side, n) == [id |-> QuoteId(side), qty |-> n]
Alone(side, n) == [p \in Prices |-> IF p = cur.px[side] THEN <<QuoteOf(side, n)>> ELSE <<>>]

\* A side's quote rests alone, with what is left of the quantity shown.
Holds(side) ==
    /\ cur.px[side] \in Prices
    /\ \E n \in 1..cur.qty[side] : queue[side] = Alone(side, n)

\* Between calls a side holds its quote exactly if its flag says so.
Known(side) == IF live[side] THEN Holds(side) ELSE queue[side] = Nothing

\* The submission of a quote: under way, rested, or refused.
Incoming(id, side, type, price, n) ==
    [id |-> id, side |-> side, type |-> type, price |-> price, qty |-> n]
Answered(ok) == out = [event |-> "return", ok |-> ok]

QuoteUnderWay(side) ==
    /\ ~live[side] /\ cur.px[side] \in Prices /\ cur.qty[side] > 0
    /\ Known(Other(side))
    /\ live[Other(side)] => cur.px["buy"] < cur.px["sell"]
    /\ \/ /\ incoming = Incoming(QuoteId(side), side, "limit", cur.px[side], cur.qty[side])
          /\ queue[side] = Nothing
       \/ incoming = NULL /\ Answered(TRUE) /\ queue[side] = Alone(side, cur.qty[side])
       \/ incoming = NULL /\ Answered(FALSE) /\ queue[side] = Nothing

\* The submission of the taker: it trades once with the quote, and then either it is
\* filled or the quote is gone.
Taker(n) == Incoming(TakerId, action.side, "ioc", cur.px[Other(action.side)], n)

TakeUnderWay ==
    LET shown == Other(action.side)
    IN  /\ live[shown] /\ cur.px[shown] \in Prices
        /\ Known(action.side)
        /\ \/ /\ traded = NothingTraded
              /\ incoming = NULL \/ incoming = Taker(action.qty)
              /\ Holds(shown)
           \/ /\ traded.filled \in 1..action.qty /\ traded.filled <= cur.qty[shown]
              /\ traded.cash = -(Direction(action.side)
                                   * Quot(traded.filled * cur.px[shown], Scale))
              /\ incoming = NULL \/ incoming = Taker(action.qty - traded.filled)
              /\ queue[shown] = Nothing \/ (Holds(shown) /\ traded.filled = action.qty)

SubmitsQuote(side) ==
    \/ pc[1] = "quoted" /\ pc[2] = side
    \/ pc[1] = "placed" /\ side = Other(action.side)

BookInv ==
    /\ pc[1] \notin {"quoted", "placed", "taken"} =>
          incoming = NULL /\ \A side \in Side : Known(side)
    /\ \A side \in Side : SubmitsQuote(side) => QuoteUnderWay(side)
    /\ pc[1] = "taken" => TakeUnderWay

\* Where the thread is in the tick: what it has taken over and which flags are down.
Acting == pc[1] \in {"place", "placed", "take", "taken"}

PhaseInv ==
    /\ (pc[1] = "poll") <=> (tick = NULL)
    /\ pc[1] = "cancel" /\ pc[2] = "sell" => ~live["buy"]
    /\ pc[1] = "refresh" => \A side \in Side : ~live[side]
    /\ pc[1] \notin {"poll", "cancel", "refresh"} =>
          cur = IF Skipped(tick) THEN NoQuotes ELSE tick
    /\ pc[1] \in {"quote", "quoted"} => Rests /\ ~live["sell"]
    /\ pc[1] = "quote" /\ pc[2] = "buy" => ~live["buy"]
    /\ pc[1] \in {"strategy", "place", "placed"} => Rests \/ \A side \in Side : ~live[side]
    /\ pc[1] \in {"place", "placed"} => ~live[Other(action.side)]
    /\ pc[1] \in {"take", "taken"} => live[Other(action.side)]
    /\ Acting => /\ action.qty > 0
                 /\ cur.px[Other(action.side)] \in Prices /\ cur.qty[Other(action.side)] > 0
    /\ pc[1] # "taken" => traded = NothingTraded

\* Any part of the action being applied is within the limits, at an equity that is.
ActionAllowed ==
    /\ cfg.maxPosition > 0 =>
          \A f \in 0..action.qty : Abs(After(action.side, f, pos.btc_qty)) <= cfg.maxPosition
    /\ cfg.maxNotional > 0 =>
          \A f \in 1..action.qty :
              LET left == Abs(After(action.side, f, pos.btc_qty))
              IN  \/ Quot(left * cur.px[Other(action.side)], Scale) <= cfg.maxNotional
                  \/ left < Abs(pos.btc_qty)

LimitInv ==
    /\ PositionWithinLimit
    /\ Acting => ~halted /\ ActionAllowed
    /\ pc[1] # "poll" /\ ~halted /\ cfg.maxDrawdown > 0 =>
          peak_equity - EquityAt(Mid(tick)) <= cfg.maxDrawdown

IInv == TypeInv /\ BookInv /\ PhaseInv /\ LimitInv

-----------------------------------------------------------------------------
(* The book the engine uses holds at most one order on a side.             *)

\* The two sides, each other's opposite, and the ids of their quotes.
LEMMA Sides ==
    /\ Side = {"buy", "sell"}
    /\ \A side \in Side : /\ Other(side) \in Side /\ Other(side) # side
                          /\ Other(Other(side)) = side
                          /\ Book!Opposite(side) = Other(side)
                          /\ QuoteId(side) \in {1, 2}
                          /\ QuoteId(side) # QuoteId(Other(side))
  BY DEF Side, Other, QuoteId, BidQuoteId, AskQuoteId, Book!Opposite

\* Removing an order by its id, from a queue of one order and from an empty one.
LEMMA WithoutIs ==
    ASSUME NEW o, NEW id
    PROVE  /\ Book!Without(<<>>, id) = <<>>
           /\ o.id = id => Book!Without(<<o>>, id) = <<>>
           /\ o.id # id => Book!Without(<<o>>, id) = <<o>>
<1>1. Book!Without(<<>>, id) = <<>>  BY DEF Book!Without
<1>2. DOMAIN <<o>> = {1} /\ <<o>>[1] = o /\ Len(<<o>>) = 1  OBVIOUS
<1>3. ASSUME o.id = id PROVE Book!Without(<<o>>, id) = <<>>
  <2>1. {i \in DOMAIN <<o>> : <<o>>[i].id = id} = {1}  BY <1>2, <1>3
  <2>2. Book!Without(<<o>>, id) = Book!RemoveAt(<<o>>, 1)
    <3> DEFINE at == {i \in DOMAIN <<o>> : <<o>>[i].id = id}
    <3>1. Book!Without(<<o>>, id)
          = IF at = {} THEN <<o>> ELSE Book!RemoveAt(<<o>>, CHOOSE i \in at : TRUE)
      BY Zenon DEF Book!Without
    <3>2. at = {1}  BY <2>1
    <3> HIDE DEF at
    <3>3. at # {} /\ (CHOOSE i \in at : TRUE) = 1  BY <3>2
    <3> QED  BY <3>1, <3>3
  <2>3. Book!RemoveAt(<<o>>, 1) = SubSeq(<<o>>, 1, 0) \o SubSeq(<<o>>, 2, 1)
    BY <1>2 DEF Book!RemoveAt
  <2>4. SubSeq(<<o>>, 1, 0) = <<>> /\ SubSeq(<<o>>, 2, 1) = <<>>  BY SubSeqEmpty
  <2> QED  BY <2>2, <2>3, <2>4
<1>4. ASSUME o.id # id PROVE Book!Without(<<o>>, id) = <<o>>
  <2>1. {i \in DOMAIN <<o>> : <<o>>[i].id = id} = {}  BY <1>2, <1>4
  <2> QED  BY <2>1 DEF Book!Without
<1> QED  BY <1>1, <1>3, <1>4

\* Cancelling a live quote leaves its side empty and the other one as it is.
LEMMA CancelIs ==
    ASSUME NEW side \in Side, Known(side), Known(Other(side)), live[side],
           Book!Cancel(QuoteId(side))
    PROVE  /\ queue'[side] = Nothing
           /\ queue'[Other(side)] = queue[Other(side)]
           /\ incoming' = incoming
<1>1. /\ queue' = [s \in Side |-> [p \in Prices |-> Book!Without(queue[s][p], QuoteId(side))]]
      /\ incoming' = incoming
  BY DEF Book!Cancel, Book!Side, Side
<1>2. PICK n \in 1..cur.qty[side] : queue[side] = Alone(side, n)
  BY DEF Known, Holds
<1>3. queue'[side] = Nothing
  <2>1. QuoteOf(side, n).id = QuoteId(side)  BY DEF QuoteOf
  <2>2. \A p \in Prices : queue[side][p] \in {<<>>, <<QuoteOf(side, n)>>}
    BY <1>2 DEF Alone
  <2>3. \A p \in Prices : Book!Without(queue[side][p], QuoteId(side)) = <<>>
    BY <2>1, <2>2, WithoutIs
  <2> QED  BY <1>1, <2>3 DEF Nothing
<1>4. queue'[Other(side)] = queue[Other(side)]
  <2>1. CASE live[Other(side)]
    <3>1. PICK m \in 1..cur.qty[Other(side)] : queue[Other(side)] = Alone(Other(side), m)
      BY <2>1 DEF Known, Holds
    <3>2. QuoteOf(Other(side), m).id # QuoteId(side)  BY Sides DEF QuoteOf
    <3>3. \A p \in Prices : queue[Other(side)][p] \in {<<>>, <<QuoteOf(Other(side), m)>>}
      BY <3>1 DEF Alone
    <3>4. \A p \in Prices : Book!Without(queue[Other(side)][p], QuoteId(side))
                            = queue[Other(side)][p]
      <4> SUFFICES ASSUME NEW p \in Prices
                   PROVE  Book!Without(queue[Other(side)][p], QuoteId(side))
                          = queue[Other(side)][p]
        OBVIOUS
      <4>1. CASE queue[Other(side)][p] = <<>>  BY <4>1, WithoutIs
      <4>2. CASE queue[Other(side)][p] = <<QuoteOf(Other(side), m)>>
        BY <3>2, <4>2, WithoutIs
      <4> QED  BY <3>3, <4>1, <4>2
    <3>5. queue[Other(side)] = [p \in Prices |-> queue[Other(side)][p]]
      BY <3>1 DEF Alone
    <3> QED  BY <1>1, <3>4, <3>5, Sides
  <2>2. CASE ~live[Other(side)]
    <3>1. queue[Other(side)] = Nothing  BY <2>2 DEF Known
    <3>2. \A p \in Prices : Book!Without(queue[Other(side)][p], QuoteId(side)) = <<>>
      BY <3>1, WithoutIs DEF Nothing
    <3> QED  BY <1>1, <3>1, <3>2, Sides DEF Nothing
  <2> QED  BY <2>1, <2>2
<1> QED  BY <1>1, <1>3, <1>4

\* Whom an order of the engine can trade with.
LEMMA ReachIs ==
    ASSUME NEW side \in Side, NEW type \in {"limit", "ioc"}, NEW price
    PROVE  /\ queue[Other(side)] = Nothing => Book!Reachable(side, type, price) = {}
           /\ \A n : /\ cur.px[Other(side)] \in Prices
                     /\ queue[Other(side)] = Alone(Other(side), n)
                     => Book!Reachable(side, type, price)
                        = IF cur.px[Other(side)] \in Book!Acceptable(side, price)
                          THEN {cur.px[Other(side)]} ELSE {}
<1>1. Book!Reachable(side, type, price)
      = {p \in Book!Acceptable(side, price) : queue[Other(side)][p] # <<>>}
  BY Sides DEF Book!Reachable
<1>2. Book!Acceptable(side, price) \subseteq Prices  BY DEF Book!Acceptable
<1>3. ASSUME queue[Other(side)] = Nothing PROVE Book!Reachable(side, type, price) = {}
  BY <1>1, <1>2, <1>3 DEF Nothing
<1>4. ASSUME NEW n, cur.px[Other(side)] \in Prices, queue[Other(side)] = Alone(Other(side), n)
      PROVE  Book!Reachable(side, type, price)
             = IF cur.px[Other(side)] \in Book!Acceptable(side, price)
               THEN {cur.px[Other(side)]} ELSE {}
  <2>1. \A p \in Prices : queue[Other(side)][p] # <<>> <=> p = cur.px[Other(side)]
    BY <1>4 DEF Alone
  <2> QED  BY <1>1, <1>2, <2>1
<1> QED  BY <1>3, <1>4

\* The smallest and the greatest of one number.
LEMMA OneBest ==
    ASSUME NEW p \in Nat, NEW side \in Side
    PROVE  Book!BestOf(side, {p}) = p
<1>1. Book!Min({p}) = p /\ Book!Max({p}) = p  BY DEF Book!Min, Book!Max
<1> QED  BY <1>1 DEF Book!BestOf

\* Min of two numbers.
LEMMA MinOfTwo ==
    ASSUME NEW a \in Nat, NEW b \in Nat
    PROVE  /\ Book!Min({a, b}) \in {a, b} /\ Book!Min({a, b}) <= a /\ Book!Min({a, b}) <= b
<1>1. CASE a <= b
  <2>1. \E x \in {a, b} : \A y \in {a, b} : x <= y  BY <1>1
  <2> QED  BY <2>1 DEF Book!Min
<1>2. CASE b <= a
  <2>1. \E x \in {a, b} : \A y \in {a, b} : x <= y  BY <1>2
  <2> QED  BY <2>1 DEF Book!Min
<1> QED  BY <1>1, <1>2

\* A call that submits an order answers at once, refusing it or ignoring one of no
\* quantity, or makes it the incoming order.
LEMMA SubmitIs ==
    ASSUME NEW id, NEW side \in Side, NEW type \in {"limit", "ioc"}, NEW price, NEW qty,
           qty # 0, Book!Submit(id, side, type, price, qty)
    PROVE  /\ queue' = queue
           /\ \/ incoming' = NULL /\ out' = [event |-> "return", ok |-> FALSE]
              \/ incoming' = Incoming(id, side, type, price, qty)
<1>1. incoming = NULL  BY DEF Book!Submit
<1>2. Book!Refuse \/ Book!Accept(id, side, type, price, qty)
  BY DEF Book!Submit
<1> QED  BY <1>1, <1>2 DEF Book!Refuse, Book!Accept, Book!Answer, Incoming

\* What an execution does when the order reaches one price.
LEMMA ExecuteIs ==
    ASSUME Book!Execute, NEW side, NEW px, NEW maker, NEW fill,
           Book!Opposite(incoming.side) = side,
           Book!Reachable(incoming.side, incoming.type, incoming.price) = {px},
           Book!BestOf(incoming.side, {px}) = px,
           Head(queue[side][px]) = maker,
           Book!Min({incoming.qty, maker.qty}) = fill
    PROVE  /\ out' = [event |-> "trade", maker |-> maker.id, taker |-> incoming.id,
                      price |-> px, qty |-> fill]
           /\ incoming' = [incoming EXCEPT !.qty = @ - fill]
           /\ queue' = [queue EXCEPT ![side][px] =
                           IF fill = maker.qty THEN Tail(queue[side][px])
                           ELSE [queue[side][px] EXCEPT
                                     ![1] = [maker EXCEPT !.qty = maker.qty - fill]]]
<1> DEFINE reach == Book!Reachable(incoming.side, incoming.type, incoming.price)
           p == Book!BestOf(incoming.side, reach)
           least(a) == Book!Min({incoming.qty, a})
<1>1. p = px  OBVIOUS
<1>2. /\ out' = [event |-> "trade", maker |-> Head(queue[side][p]).id, taker |-> incoming.id,
                 price |-> p, qty |-> least(Head(queue[side][p]).qty)]
      /\ incoming' = [incoming EXCEPT !.qty = @ - least(Head(queue[side][p]).qty)]
      /\ queue' = [queue EXCEPT ![side][p] =
                      IF least(Head(queue[side][p]).qty) = Head(queue[side][p]).qty
                      THEN Tail(queue[side][p])
                      ELSE [queue[side][p] EXCEPT
                                ![1] = [Head(queue[side][p]) EXCEPT
                                            !.qty = Head(queue[side][p]).qty
                                                    - least(Head(queue[side][p]).qty)]]]
  BY DEF Book!Execute
<1> HIDE DEF p
<1> QED  BY <1>1, <1>2

-----------------------------------------------------------------------------
(* Every step keeps the invariant.                                         *)

\* Where the thread is, by the first part of its place.
LEMMA PlacesAre ==
    /\ \A place \in {"poll", "refresh", "strategy", "place", "placed", "take", "taken"} :
          <<place>> \in Places /\ <<place>>[1] = place
    /\ \A place \in {"cancel", "quote", "quoted"}, side \in Side :
          /\ <<place, side>> \in Places
          /\ <<place, side>>[1] = place /\ <<place, side>>[2] = side
  BY DEF Places

\* A side is known as long as its queue, its flag and, if it is up, its quote stay.
LEMMA KnownKept ==
    ASSUME NEW side, Known(side), queue'[side] = queue[side], live'[side] = live[side],
           live[side] => cur' = cur
    PROVE  Known(side)'
<1>1. CASE live[side]  BY <1>1 DEF Known, Holds, Alone, QuoteOf
<1>2. CASE ~live[side]  BY <1>2 DEF Known, Nothing
<1> QED  BY <1>1, <1>2

\* Numbers of a tick.
LEMMA TickIs ==
    ASSUME NEW t \in Ticks
    PROVE  /\ t \in Tick
           /\ \A side \in Side : t.px[side] \in Nat /\ t.qty[side] \in Nat
           /\ Mid(t) \in Nat
           /\ ~Skipped(t) => /\ \A side \in Side : t.px[side] \in Prices
                             /\ t.px["buy"] <= Mid(t) /\ Mid(t) <= t.px["sell"]
<1>1. t \in Tick  BY TicksAssumption DEF Tick, Side
<1>2. Prices \cup {0} \subseteq Nat  BY PricesAssumption
<1>3. \A side \in Side : /\ t.px[side] \in Prices \cup {0} /\ t.px[side] \in Nat
                         /\ t.qty[side] \in Nat
  BY <1>1, <1>2 DEF Tick
<1>4. t.px["buy"] \in Nat /\ t.px["sell"] \in Nat  BY <1>3 DEF Side
<1>5. \A a, b \in Nat : /\ (a + b) \div 2 \in Nat
                        /\ a <= b => a <= (a + b) \div 2 /\ (a + b) \div 2 <= b
  OBVIOUS
<1>6. ~Skipped(t) => /\ t.px["buy"] <= t.px["sell"]
                     /\ \A side \in Side : t.px[side] # 0
  BY <1>4, Sides DEF Skipped
<1> QED  BY <1>1, <1>3, <1>4, <1>5, <1>6 DEF Mid

\* Equity is a number.
LEMMA EquityIs ==
    ASSUME TypeInv, NEW mid \in Int
    PROVE  EquityAt(mid) \in Int
<1> DEFINE x == pos.btc_qty * mid
<1>1. pos.cash \in Int /\ x \in Int  BY DEF TypeInv
<1> HIDE DEF x
<1>2. Quot(x, Scale) \in Int  BY <1>1, ScaleAssumption DEF Quot
<1> QED  BY <1>1, <1>2 DEF EquityAt, x

\* A tick taken from the queue and observed keeps the invariant.
LEMMA PollStep ==
    ASSUME IInv, Poll
    PROVE  IInv'
<1> USE DEF IInv
<1>1. /\ pc = <<"poll">> /\ tick' \in Ticks /\ pc' = <<"cancel", "buy">>
      /\ ObserveEquity(EquityAt(Mid(tick')))
      /\ UNCHANGED <<bookVars, live, cur, action, traded, pos>>
  BY DEF Poll
<1>2. pc[1] = "poll" /\ pc'[1] = "cancel" /\ pc'[2] = "buy" /\ pc' \in Places
  BY <1>1, PlacesAre, Sides
<1>3. EquityAt(Mid(tick')) \in Int
  BY <1>1, TickIs, EquityIs
<1>4. TypeInv'  BY <1>1, <1>2, <1>3 DEF TypeInv, ObserveEquity
<1>5. BookInv'
  <2>1. \A side \in Side : Known(side)'  BY <1>1, <1>2, KnownKept DEF BookInv, bookVars
  <2> QED  BY <1>1, <1>2, <2>1 DEF BookInv, bookVars, SubmitsQuote
<1>6. PhaseInv'  BY <1>1, <1>2, NullAssumption DEF PhaseInv, Acting
<1>7. LimitInv'
  <2>1. PositionWithinLimit'
    BY <1>1 DEF LimitInv, PositionWithinLimit, ObserveEquity
  <2>2. EquityAt(Mid(tick))' = EquityAt(Mid(tick'))  BY <1>1 DEF EquityAt, Mid
  <2>3. /\ cfg' = cfg /\ cfg.maxDrawdown \in Nat /\ peak_equity' \in Int
        /\ ~halted' /\ cfg.maxDrawdown > 0 => ~(peak_equity' - EquityAt(Mid(tick')) > cfg.maxDrawdown)
    BY <1>1, <1>4 DEF ObserveEquity, TypeInv, Config
  <2> QED  BY <1>2, <1>3, <2>1, <2>2, <2>3 DEF LimitInv, Acting
<1> QED  BY <1>4, <1>5, <1>6, <1>7

\* Cancelling a quote whose flag is up, or not, keeps it.
LEMMA CancelStep ==
    ASSUME IInv, NEW side \in Side, CancelQuote(side)
    PROVE  IInv'
<1> USE DEF IInv
<1>1. /\ pc = <<"cancel", side>>
      /\ pc' = (IF side = "buy" THEN <<"cancel", "sell">> ELSE <<"refresh">>)
      /\ UNCHANGED <<riskVars, tick, cur, action, traded, pos>>
  BY DEF CancelQuote, Goto
<1>2. /\ pc[1] = "cancel" /\ pc[2] = side /\ pc' \in Places
      /\ side = "buy" => pc'[1] = "cancel" /\ pc'[2] = "sell"
      /\ side = "sell" => pc'[1] = "refresh"
  BY <1>1, PlacesAre, Sides
<1>3. incoming = NULL /\ \A s \in Side : Known(s)  BY <1>2 DEF BookInv
<1>4. /\ incoming' = incoming
      /\ live' \in [Side -> BOOLEAN] /\ ~live'[side] /\ queue'[side] = Nothing
      /\ live'[Other(side)] = live[Other(side)]
      /\ queue'[Other(side)] = queue[Other(side)]
  <2>1. CASE live[side]
    <3>1. Book!Cancel(QuoteId(side)) /\ live' = [live EXCEPT ![side] = FALSE]
      BY <2>1 DEF CancelQuote
    <3>2. live \in [Side -> BOOLEAN]  BY DEF TypeInv
    <3> QED  BY <1>3, <2>1, <3>1, <3>2, CancelIs, Sides
  <2>2. CASE ~live[side]
    <3>1. UNCHANGED <<bookVars, live>>  BY <2>2 DEF CancelQuote
    <3>2. queue[side] = Nothing  BY <1>3, <2>2 DEF Known
    <3> QED  BY <2>2, <3>1, <3>2 DEF bookVars, TypeInv
  <2> QED  BY <2>1, <2>2
<1>5. TypeInv'  BY <1>1, <1>2, <1>4 DEF TypeInv, riskVars
<1>6. \A s \in Side : Known(s)'
  <2>1. Known(side)'  BY <1>4 DEF Known, Nothing
  <2>2. Known(Other(side))'  BY <1>1, <1>3, <1>4, Sides, KnownKept
  <2> QED  BY <2>1, <2>2, Sides
<1>7. BookInv'
  BY <1>2, <1>3, <1>4, <1>6, Sides DEF BookInv, SubmitsQuote
<1>8. PhaseInv'
  <2>1. side = "buy" => ~live'["buy"]  BY <1>4
  <2>2. side = "sell" => ~live'["buy"] /\ ~live'["sell"]
    BY <1>2, <1>4 DEF PhaseInv, Other, Side
  <2> QED  BY <1>1, <1>2, <2>1, <2>2, Sides DEF PhaseInv, Acting
<1>9. LimitInv'
  BY <1>1, <1>2, Sides DEF LimitInv, PositionWithinLimit, Acting, EquityAt, Mid, riskVars
<1> QED  BY <1>5, <1>7, <1>8, <1>9

\* The choice whether to quote keeps it.
LEMMA RefreshStep ==
    ASSUME IInv, Refresh
    PROVE  IInv'
<1> USE DEF IInv
<1>1. /\ pc = <<"refresh">>
      /\ pc' = (IF Rests THEN <<"quote", "buy">> ELSE <<"strategy">>)
      /\ cur' = IF Skipped(tick) THEN NoQuotes ELSE tick
      /\ UNCHANGED <<riskVars, bookVars, tick, live, action, traded, pos>>
  BY DEF Refresh, Goto
<1>2. /\ pc[1] = "refresh" /\ pc' \in Places
      /\ Rests => pc'[1] = "quote" /\ pc'[2] = "buy"
      /\ ~Rests => pc'[1] = "strategy"
  BY <1>1, PlacesAre, Sides
<1>3. incoming = NULL /\ \A s \in Side : Known(s) /\ ~live[s]
  BY <1>2 DEF BookInv, PhaseInv
<1>4. cur' \in Tick
  <2>1. tick \in Ticks  BY <1>2 DEF PhaseInv, TypeInv
  <2>2. tick \in Tick  BY <2>1, TicksAssumption DEF Tick, Side
  <2>3. NoQuotes \in Tick  BY DEF NoQuotes, Tick
  <2> QED  BY <1>1, <2>2, <2>3
<1>5. TypeInv'  BY <1>1, <1>2, <1>4 DEF TypeInv, riskVars
<1>6. \A s \in Side : Known(s)'  BY <1>1, <1>3, KnownKept DEF bookVars
<1>7. BookInv'  BY <1>1, <1>2, <1>3, <1>6 DEF BookInv, SubmitsQuote, bookVars
<1>8. PhaseInv'
  <2>1. Rests' <=> Rests  BY <1>1 DEF Rests, Skipped
  <2>2. Skipped(tick)' <=> Skipped(tick)  BY <1>1 DEF Skipped
  <2> QED  BY <1>1, <1>2, <1>3, <2>1, <2>2, Sides DEF PhaseInv, Acting, NoQuotes
<1>9. LimitInv'
  BY <1>1, <1>2 DEF LimitInv, PositionWithinLimit, Acting, EquityAt, Mid, riskVars
<1> QED  BY <1>5, <1>7, <1>8, <1>9

\* Submitting a quote to a side that is empty keeps it.
LEMMA QuoteStep ==
    ASSUME IInv, NEW side \in Side, Quote(side)
    PROVE  IInv'
<1> USE DEF IInv
<1>1. /\ pc = <<"quote", side>>
      /\ pc' = IF cur.qty[side] > 0 THEN <<"quoted", side>>
               ELSE IF side = "buy" THEN <<"quote", "sell">> ELSE <<"strategy">>
      /\ UNCHANGED <<riskVars, tick, live, cur, action, traded, pos>>
  BY DEF Quote, Goto, AfterQuote
<1>2. /\ pc[1] = "quote" /\ pc[2] = side /\ pc' \in Places
      /\ cur.qty[side] > 0 => pc'[1] = "quoted" /\ pc'[2] = side
      /\ ~(cur.qty[side] > 0) => IF side = "buy" THEN pc'[1] = "quote" /\ pc'[2] = "sell"
                                 ELSE pc'[1] = "strategy"
  BY <1>1, PlacesAre, Sides
<1>3. /\ incoming = NULL /\ Rests /\ ~live["sell"] /\ ~live[side]
      /\ \A s \in Side : Known(s)
      /\ cur = tick /\ tick \in Ticks /\ ~Skipped(tick)
  BY <1>2 DEF BookInv, PhaseInv, Side, Rests, TypeInv
<1>4. /\ \A s \in Side : cur.px[s] \in Prices /\ cur.qty[s] \in Nat
      /\ cur.px["buy"] < cur.px["sell"]
  BY <1>3, TickIs DEF Rests
<1>5. TypeInv'  BY <1>1, <1>2 DEF TypeInv, riskVars
<1>6. PhaseInv'
  <2>1. Rests' /\ (Skipped(tick)' <=> Skipped(tick))  BY <1>1, <1>3 DEF Rests, Skipped
  <2> QED  BY <1>1, <1>2, <1>3, <2>1, Sides DEF PhaseInv, Acting
<1>7. LimitInv'
  BY <1>1, <1>2, Sides DEF LimitInv, PositionWithinLimit, Acting, EquityAt, Mid, riskVars
<1>8. CASE cur.qty[side] > 0
  <2>1. Book!Submit(QuoteId(side), side, "limit", cur.px[side], cur.qty[side])
    BY <1>8 DEF Quote, SubmitQuote
  <2>2. /\ queue' = queue
        /\ \/ incoming' = NULL /\ out' = [event |-> "return", ok |-> FALSE]
           \/ incoming' = Incoming(QuoteId(side), side, "limit", cur.px[side], cur.qty[side])
    BY <1>8, <2>1, SubmitIs
  <2>3. QuoteUnderWay(side)'
    <3>1. Known(Other(side))'  BY <1>1, <1>3, <2>2, Sides, KnownKept
    <3>2. queue'[side] = Nothing  BY <1>3, <2>2 DEF Known
    <3> QED  BY <1>1, <1>3, <1>4, <1>8, <2>2, <3>1, <3>2
             DEF QuoteUnderWay, Incoming, Answered, Nothing
  <2> QED  BY <1>2, <1>5, <1>6, <1>7, <1>8, <2>3 DEF BookInv, SubmitsQuote
<1>9. CASE ~(cur.qty[side] > 0)
  <2>1. UNCHANGED bookVars  BY <1>9 DEF Quote
  <2>2. \A s \in Side : Known(s)'  BY <1>1, <1>3, <2>1, KnownKept DEF bookVars
  <2> QED  BY <1>2, <1>3, <1>5, <1>6, <1>7, <1>9, <2>1, <2>2
           DEF BookInv, SubmitsQuote, bookVars
<1> QED  BY <1>8, <1>9

\* When the submission of a quote has returned, its flag is what the call answered.
LEMMA QuoteReturned ==
    ASSUME TypeInv, NEW side \in Side, QuoteUnderWay(side), incoming = NULL,
           live' = [live EXCEPT ![side] = out.ok],
           UNCHANGED <<bookVars, cur>>
    PROVE  /\ incoming' = NULL /\ \A s \in Side : Known(s)'
           /\ live' \in [Side -> BOOLEAN] /\ live'[side] = out.ok
           /\ live'[Other(side)] = live[Other(side)]
           /\ ~out.ok \/ live'[side]
<1>1. incoming # Incoming(QuoteId(side), side, "limit", cur.px[side], cur.qty[side])
  BY NullAssumption, Sides DEF Incoming, QuoteUnderWay, TypeInv, Tick, QuoteId, Side
<1>2. \/ Answered(TRUE) /\ queue[side] = Alone(side, cur.qty[side])
      \/ Answered(FALSE) /\ queue[side] = Nothing
  BY <1>1 DEF QuoteUnderWay
<1>3. out.ok \in BOOLEAN /\ live \in [Side -> BOOLEAN]
  <2>1. Answered(TRUE) => out.ok = TRUE  BY DEF Answered
  <2>2. Answered(FALSE) => out.ok = FALSE  BY DEF Answered
  <2>3. out.ok = TRUE \/ out.ok = FALSE  BY <1>2, <2>1, <2>2, Zenon
  <2>4. out.ok \in BOOLEAN  BY <2>3, Zenon
  <2> QED  BY <2>4 DEF TypeInv
<1>4. /\ live' \in [Side -> BOOLEAN] /\ live'[side] = out.ok
      /\ live'[Other(side)] = live[Other(side)]
  BY <1>3, Sides
<1>5. Known(Other(side))'
  BY <1>4, KnownKept DEF QuoteUnderWay, bookVars
<1>6. Known(side)'
  <2>1. CASE out.ok
    <3>1. queue[side] = Alone(side, cur.qty[side])  BY <1>2, <2>1 DEF Answered
    <3>2. cur.px[side] \in Prices /\ cur.qty[side] \in 1..cur.qty[side]
      BY DEF QuoteUnderWay, TypeInv, Tick
    <3>3. queue' = queue /\ cur' = cur  BY DEF bookVars
    <3>4. Holds(side)'  BY <3>1, <3>2, <3>3 DEF Holds, Alone, QuoteOf
    <3> QED  BY <1>4, <2>1, <3>4 DEF Known
  <2>2. CASE ~out.ok
    BY <1>2, <1>4, <2>2 DEF Known, Answered, Nothing, bookVars
  <2> QED  BY <2>1, <2>2
<1> QED  BY <1>4, <1>5, <1>6, Sides DEF bookVars

\* The flag set from what became of the quote keeps it.
LEMMA QuotedStep ==
    ASSUME IInv, NEW side \in Side, Quoted(side)
    PROVE  IInv'
<1> USE DEF IInv
<1>1. /\ pc = <<"quoted", side>> /\ incoming = NULL
      /\ pc' = (IF side = "buy" THEN <<"quote", "sell">> ELSE <<"strategy">>)
      /\ live' = [live EXCEPT ![side] = out.ok]
      /\ UNCHANGED <<riskVars, bookVars, tick, cur, action, traded, pos>>
  BY DEF Quoted, Goto, AfterQuote
<1>2. /\ pc[1] = "quoted" /\ pc[2] = side /\ pc' \in Places
      /\ IF side = "buy" THEN pc'[1] = "quote" /\ pc'[2] = "sell" ELSE pc'[1] = "strategy"
  BY <1>1, PlacesAre, Sides
<1>3. QuoteUnderWay(side) /\ Rests /\ ~live["sell"]
  BY <1>2 DEF BookInv, SubmitsQuote, PhaseInv
<1>4. /\ incoming' = NULL /\ \A s \in Side : Known(s)'
      /\ live' \in [Side -> BOOLEAN] /\ live'[side] = out.ok
      /\ live'[Other(side)] = live[Other(side)]
  BY <1>1, <1>3, QuoteReturned
<1>5. TypeInv'  BY <1>1, <1>2, <1>4 DEF TypeInv, riskVars
<1>6. BookInv'  BY <1>2, <1>4 DEF BookInv, SubmitsQuote
<1>7. PhaseInv'
  <2>1. Rests' /\ (Skipped(tick)' <=> Skipped(tick))  BY <1>1, <1>3 DEF Rests, Skipped
  <2>2. side = "buy" => ~live'["sell"]  BY <1>3, <1>4 DEF Other
  <2> QED  BY <1>1, <1>2, <1>3, <2>1, <2>2, Sides DEF PhaseInv, Acting
<1>8. LimitInv'
  BY <1>1, <1>2, Sides DEF LimitInv, PositionWithinLimit, Acting, EquityAt, Mid, riskVars
<1> QED  BY <1>5, <1>6, <1>7, <1>8

\* A tick that ends without a trade keeps it.
LEMMA NoTradeStep ==
    ASSUME IInv, pc[1] \in {"strategy", "placed"}, Done,
           UNCHANGED <<riskVars, incoming, cur, pos>>,
           incoming = NULL, \A s \in Side : Known(s)', live' \in [Side -> BOOLEAN]
    PROVE  IInv'
<1> USE DEF IInv
<1>1. /\ pc' = <<"poll">> /\ tick' = NULL /\ action' = NoAction /\ traded' = NothingTraded
  BY DEF Done
<1>2. pc'[1] = "poll" /\ pc' \in Places  BY <1>1, PlacesAre
<1>3. NoAction \in [side : Side, qty : Nat] /\ NothingTraded \in [filled : Nat, cash : Int]
  BY DEF NoAction, NothingTraded, Side
<1>4. TypeInv'  BY <1>1, <1>2, <1>3 DEF TypeInv, riskVars
<1>5. BookInv'  BY <1>2 DEF BookInv, SubmitsQuote
<1>6. PhaseInv'  BY <1>1, <1>2 DEF PhaseInv, Acting
<1>7. LimitInv'
  BY <1>2 DEF LimitInv, PositionWithinLimit, Acting, riskVars
<1> QED  BY <1>4, <1>5, <1>6, <1>7

\* An action that passes the gate is allowed in every part.
LEMMA GateAllowsParts ==
    ASSUME TypeInv, PositionWithinLimit, NEW side \in Side, NEW qty \in Nat,
           cur.px[Other(side)] \in Prices,
           NEW allowed, allowed = Gate(side, qty, pos.btc_qty, cur.px[Other(side)]),
           allowed # 0
    PROVE  /\ allowed \in Nat /\ ~halted
           /\ cfg.maxPosition > 0 =>
                \A f \in 0..allowed : Abs(After(side, f, pos.btc_qty)) <= cfg.maxPosition
           /\ cfg.maxNotional > 0 =>
                \A f \in 1..allowed :
                    LET left == Abs(After(side, f, pos.btc_qty))
                    IN  \/ Quot(left * cur.px[Other(side)], Scale) <= cfg.maxNotional
                        \/ left < Abs(pos.btc_qty)
<1>1. /\ cfg \in Config /\ pos.btc_qty \in Int
      /\ cur.px[Other(side)] \in Nat \ {0}
  BY PricesAssumption DEF TypeInv
<1>2. allowed \in Nat /\ ~halted  BY <1>1, ClampTypes DEF Gate
<1>3. ASSUME cfg.maxPosition > 0
      PROVE  \A f \in 0..allowed : Abs(After(side, f, pos.btc_qty)) <= cfg.maxPosition
  BY <1>1, <1>3, GateKeepsPosition DEF PositionWithinLimit
<1>4. ASSUME cfg.maxNotional > 0, NEW f \in 1..allowed
      PROVE  \/ Quot(Abs(After(side, f, pos.btc_qty)) * cur.px[Other(side)], Scale)
                   <= cfg.maxNotional
             \/ Abs(After(side, f, pos.btc_qty)) < Abs(pos.btc_qty)
  BY <1>1, <1>4, GateKeepsNotional
<1> QED  BY <1>2, <1>3, <1>4

\* An action through the gate keeps it: any part of what was allowed is within limits.
LEMMA DecideStep ==
    ASSUME IInv, NEW side \in Side, NEW qty \in Quantities, Decide(side, qty)
    PROVE  IInv'
<1> USE DEF IInv
<1> DEFINE shown == Other(side)
           allowed == Gate(side, qty, pos.btc_qty, cur.px[shown])
<1>1. /\ pc = <<"strategy">> /\ UNCHANGED <<riskVars, bookVars, live, cur, pos>>
      /\ \/ Done
         \/ /\ qty # 0 /\ allowed # 0 /\ cur.px[shown] # 0 /\ cur.qty[shown] # 0
            /\ action' = [side |-> side, qty |-> allowed]
            /\ UNCHANGED <<traded, tick>>
            /\ pc' = IF live[shown] THEN <<"take">> ELSE <<"place">>
  BY DEF Decide, Goto
<1>2. pc[1] = "strategy"  BY <1>1, PlacesAre
<1>3. incoming = NULL /\ \A s \in Side : Known(s)  BY <1>2 DEF BookInv
<1>4. incoming' = NULL /\ \A s \in Side : Known(s)'
  BY <1>1, <1>3, KnownKept DEF bookVars
<1>5. CASE Done
  BY <1>1, <1>2, <1>3, <1>4, <1>5, NoTradeStep DEF bookVars, TypeInv
<1>6. CASE /\ qty # 0 /\ allowed # 0 /\ cur.px[shown] # 0 /\ cur.qty[shown] # 0
           /\ action' = [side |-> side, qty |-> allowed]
           /\ UNCHANGED <<traded, tick>>
           /\ pc' = IF live[shown] THEN <<"take">> ELSE <<"place">>
  <2>1. shown \in Side /\ qty \in Nat  BY Sides, QuantitiesAssumption
  <2>2. cur.px[shown] \in Prices /\ cur.qty[shown] > 0
    BY <1>6, <2>1 DEF TypeInv, Tick
  <2>3. /\ allowed \in Nat /\ ~halted
        /\ cfg.maxPosition > 0 =>
             \A f \in 0..allowed : Abs(After(side, f, pos.btc_qty)) <= cfg.maxPosition
        /\ cfg.maxNotional > 0 =>
             \A f \in 1..allowed :
                 LET left == Abs(After(side, f, pos.btc_qty))
                 IN  \/ Quot(left * cur.px[Other(side)], Scale) <= cfg.maxNotional
                     \/ left < Abs(pos.btc_qty)
    BY <1>6, <2>1, <2>2, GateAllowsParts DEF LimitInv
  <2> HIDE DEF allowed
  <2>4. action'.side = side /\ action'.qty = allowed  BY <1>6
  <2>5. /\ pc' \in Places
        /\ pc'[1] \in {"take", "place"}
        /\ live[shown] => pc'[1] = "take"
        /\ ~live[shown] => pc'[1] = "place"
    BY <1>6, PlacesAre
  <2>6. TypeInv'  BY <1>1, <1>6, <2>3, <2>5 DEF TypeInv, riskVars
  <2>7. BookInv'  BY <1>4, <2>5 DEF BookInv, SubmitsQuote
  <2>8. PhaseInv'
    <3>1. (Rests' <=> Rests) /\ (Skipped(tick)' <=> Skipped(tick))
      BY <1>6 DEF Rests, Skipped
    <3> QED  BY <1>1, <1>2, <1>6, <2>2, <2>3, <2>4, <2>5, <3>1 DEF PhaseInv, Acting
  <2>9. LimitInv'
    <3>1. PositionWithinLimit' /\ halted' = halted /\ cfg' = cfg
          /\ peak_equity' = peak_equity /\ EquityAt(Mid(tick))' = EquityAt(Mid(tick))
      BY <1>1, <1>6 DEF LimitInv, PositionWithinLimit, riskVars, EquityAt, Mid
    <3>2. ActionAllowed'
      BY <1>1, <2>3, <2>4, <3>1 DEF ActionAllowed
    <3>3. pc[1] # "poll" /\ ~halted /\ cfg.maxDrawdown > 0 =>
             peak_equity - EquityAt(Mid(tick)) <= cfg.maxDrawdown
      BY DEF LimitInv
    <3> QED  BY <1>2, <2>3, <3>1, <3>2, <3>3 DEF LimitInv
  <2> QED  BY <2>6, <2>7, <2>8, <2>9
<1> QED  BY <1>1, <1>5, <1>6

\* The limits of an action hold as long as nothing they speak of changes.
LEMMA LimitsKept ==
    ASSUME LimitInv, UNCHANGED <<riskVars, tick, cur, action, pos>>, pc[1] # "poll",
           Acting' => Acting
    PROVE  LimitInv'
<1>1. /\ PositionWithinLimit' /\ (ActionAllowed => ActionAllowed')
      /\ EquityAt(Mid(tick))' = EquityAt(Mid(tick))
      /\ UNCHANGED <<cfg, peak_equity, halted>>
  BY DEF LimitInv, PositionWithinLimit, ActionAllowed, EquityAt, Mid, riskVars
<1> QED  BY <1>1 DEF LimitInv

\* Submitting the quote that the locked book put off keeps it.
LEMMA PlaceStep ==
    ASSUME IInv, Place
    PROVE  IInv'
<1> USE DEF IInv
<1> DEFINE side == Other(action.side)
<1>1. /\ pc = <<"place">> /\ pc' = <<"placed">>
      /\ Book!Submit(QuoteId(side), side, "limit", cur.px[side], cur.qty[side])
      /\ UNCHANGED <<riskVars, tick, live, cur, action, traded, pos>>
  BY DEF Place, SubmitQuote, Goto
<1>2. pc[1] = "place" /\ pc'[1] = "placed" /\ pc' \in Places  BY <1>1, PlacesAre
<1>3. /\ incoming = NULL /\ \A s \in Side : Known(s)
      /\ ~live[side] /\ cur.px[side] \in Prices /\ cur.qty[side] > 0
      /\ Rests \/ \A s \in Side : ~live[s]
  BY <1>2 DEF BookInv, PhaseInv, Acting
<1>4. side \in Side /\ Other(side) \in Side  BY Sides DEF TypeInv
<1>5. live[Other(side)] => cur.px["buy"] < cur.px["sell"]
  <2>1. cur = IF Skipped(tick) THEN NoQuotes ELSE tick  BY <1>2 DEF PhaseInv
  <2> QED  BY <1>3, <1>4, <2>1 DEF Rests
<1>6. /\ queue' = queue
      /\ \/ incoming' = NULL /\ out' = [event |-> "return", ok |-> FALSE]
         \/ incoming' = Incoming(QuoteId(side), side, "limit", cur.px[side], cur.qty[side])
  BY <1>1, <1>3, <1>4, SubmitIs
<1>7. QuoteUnderWay(side)'
  <2>1. Known(Other(side))'  BY <1>1, <1>3, <1>4, <1>6, KnownKept
  <2>2. queue'[side] = Nothing  BY <1>3, <1>4, <1>6 DEF Known
  <2>3. UNCHANGED <<live, cur, action>>  BY <1>1
  <2> QED  BY <1>3, <1>5, <1>6, <2>1, <2>2, <2>3 DEF QuoteUnderWay, Incoming, Answered, Nothing
<1>8. TypeInv'  BY <1>1, <1>2 DEF TypeInv, riskVars
<1>9. BookInv'  BY <1>1, <1>2, <1>7 DEF BookInv, SubmitsQuote
<1>10. PhaseInv'
  <2>1. (Rests' <=> Rests) /\ (Skipped(tick)' <=> Skipped(tick))
    BY <1>1 DEF Rests, Skipped
  <2> QED  BY <1>1, <1>2, <1>3, <2>1 DEF PhaseInv, Acting
<1>11. LimitInv'  BY <1>1, <1>2, LimitsKept DEF Acting
<1> QED  BY <1>8, <1>9, <1>10, <1>11

\* The flag of that quote, and going on to the taker or not, keeps it.
LEMMA PlacedStep ==
    ASSUME IInv, Placed
    PROVE  IInv'
<1> USE DEF IInv
<1> DEFINE side == Other(action.side)
<1>1. /\ pc = <<"placed">> /\ incoming = NULL
      /\ live' = [live EXCEPT ![side] = out.ok]
      /\ \/ out.ok /\ pc' = <<"take">> /\ UNCHANGED <<tick, action, traded>>
         \/ ~out.ok /\ Done
      /\ UNCHANGED <<riskVars, bookVars, cur, pos>>
  BY DEF Placed, Goto
<1>2. pc[1] = "placed"  BY <1>1, PlacesAre
<1>3. side \in Side /\ QuoteUnderWay(side)
  BY <1>2, Sides DEF BookInv, SubmitsQuote, TypeInv
<1>4. /\ incoming' = NULL /\ \A s \in Side : Known(s)'
      /\ live' \in [Side -> BOOLEAN] /\ live'[side] = out.ok
      /\ live'[Other(side)] = live[Other(side)]
  BY <1>1, <1>3, QuoteReturned
<1>5. CASE ~out.ok /\ Done
  BY <1>1, <1>2, <1>4, <1>5, NoTradeStep DEF bookVars
<1>6. CASE out.ok /\ pc' = <<"take">> /\ UNCHANGED <<tick, action, traded>>
  <2>1. pc'[1] = "take" /\ pc' \in Places  BY <1>6, PlacesAre
  <2>2. TypeInv'  BY <1>1, <1>4, <1>6, <2>1 DEF TypeInv, riskVars
  <2>3. BookInv'  BY <1>4, <2>1 DEF BookInv, SubmitsQuote
  <2>4. PhaseInv'
    <3>1. Skipped(tick)' <=> Skipped(tick)  BY <1>6 DEF Skipped
    <3>2. live'[side]  BY <1>4, <1>6
    <3> QED  BY <1>1, <1>2, <1>6, <2>1, <3>1, <3>2 DEF PhaseInv, Acting
  <2>5. LimitInv'  BY <1>1, <1>2, <1>6, <2>1, LimitsKept DEF Acting
  <2> QED  BY <2>2, <2>3, <2>4, <2>5
<1> QED  BY <1>1, <1>5, <1>6

\* The taker's one trade keeps it.
LEMMA TakeStep ==
    ASSUME IInv, Take
    PROVE  IInv'
<1> USE DEF IInv
<1> DEFINE shown == Other(action.side)
<1>1. /\ pc = <<"take">> /\ pc' = <<"taken">>
      /\ Book!Submit(TakerId, action.side, "ioc", cur.px[shown], action.qty)
      /\ UNCHANGED <<riskVars, tick, live, cur, action, traded, pos>>
  BY DEF Take, Goto
<1>2. pc[1] = "take" /\ pc'[1] = "taken" /\ pc' \in Places  BY <1>1, PlacesAre
<1>3. /\ incoming = NULL /\ \A s \in Side : Known(s)
      /\ live[shown] /\ action.qty > 0 /\ traded = NothingTraded
      /\ action.side \in Side /\ shown \in Side
  BY <1>2, Sides DEF BookInv, PhaseInv, Acting, TypeInv
<1>4. /\ queue' = queue
      /\ incoming' = NULL \/ incoming' = Taker(action.qty)
  BY <1>1, <1>3, SubmitIs DEF Taker
<1>5. TakeUnderWay'
  <2>1. Known(action.side)' /\ Known(shown)'  BY <1>1, <1>3, <1>4, KnownKept
  <2>2. UNCHANGED <<live, cur, action, traded>>  BY <1>1
  <2>3. Holds(shown)' /\ cur.px[shown] \in Prices
    BY <1>3, <2>1, <2>2 DEF Known, Holds
  <2>4. Taker(action.qty)' = Taker(action.qty)  BY <2>2 DEF Taker, Incoming
  <2> QED  BY <1>3, <1>4, <2>1, <2>2, <2>3, <2>4 DEF TakeUnderWay
<1>6. TypeInv'  BY <1>1, <1>2 DEF TypeInv, riskVars
<1>7. BookInv'  BY <1>2, <1>5 DEF BookInv, SubmitsQuote
<1>8. PhaseInv'
  <2>1. Skipped(tick)' <=> Skipped(tick)  BY <1>1 DEF Skipped
  <2> QED  BY <1>1, <1>2, <1>3, <2>1 DEF PhaseInv, Acting
<1>9. LimitInv'  BY <1>1, <1>2, LimitsKept DEF Acting
<1> QED  BY <1>6, <1>7, <1>8, <1>9

-----------------------------------------------------------------------------
(* Inside a call of submit().                                              *)

\* The queues of the book are those of the two sides.
Shape == DOMAIN queue = Side

\* The quote of a side finds nobody to trade with and comes to rest.
LEMMA QuoteRests ==
    ASSUME TypeInv, Shape, NEW side \in Side, QuoteUnderWay(side), incoming # NULL,
           Book!Execute \/ Book!Settle, UNCHANGED <<live, cur>>
    PROVE  QuoteUnderWay(side)' /\ out'.event # "trade"
<1> DEFINE px == cur.px[side]
           other == Other(side)
<1>1. /\ incoming = Incoming(QuoteId(side), side, "limit", px, cur.qty[side])
      /\ queue[side] = Nothing /\ px \in Prices /\ cur.qty[side] > 0
      /\ Known(other) /\ (live[other] => cur.px["buy"] < cur.px["sell"])
  BY DEF QuoteUnderWay
<1>2. /\ incoming.side = side /\ incoming.type = "limit" /\ incoming.price = px
      /\ incoming.qty = cur.qty[side] /\ incoming.id = QuoteId(side)
  BY <1>1 DEF Incoming
<1>3. cur.qty[side] \in Nat /\ cur.px["buy"] \in Nat /\ cur.px["sell"] \in Nat
  <2>1. Prices \cup {0} \subseteq Nat  BY PricesAssumption
  <2>2. /\ cur.px["buy"] \in Prices \cup {0} /\ cur.px["sell"] \in Prices \cup {0}
        /\ cur.qty[side] \in Nat
    BY Sides DEF TypeInv, Tick
  <2> QED  BY <2>1, <2>2
<1>4. Book!Reachable(side, "limit", px) = {}
  <2>1. CASE ~live[other]
    <3>1. queue[other] = Nothing  BY <1>1, <2>1 DEF Known
    <3> QED  BY <3>1, ReachIs
  <2>2. CASE live[other]
    <3>1. PICK n \in 1..cur.qty[other] : queue[other] = Alone(other, n)
      BY <1>1, <2>2 DEF Known, Holds
    <3>2. cur.px[other] \in Prices  BY <1>1, <2>2 DEF Known, Holds
    <3>3. cur.px[other] \notin Book!Acceptable(side, px)
      BY <1>1, <1>3, <2>2 DEF Book!Acceptable, Other, Side
    <3> QED  BY <3>1, <3>2, <3>3, ReachIs
  <2> QED  BY <2>1, <2>2
<1>5. ~Book!Execute  BY <1>2, <1>4 DEF Book!Execute
<1>6. /\ queue' = [queue EXCEPT ![side][px] =
                      Append(@, [id |-> QuoteId(side), qty |-> cur.qty[side]])]
      /\ incoming' = NULL /\ out' = [event |-> "return", ok |-> TRUE]
  BY <1>1, <1>2, <1>5 DEF Book!Settle, Book!Answer
<1>7. queue'[side] = Alone(side, cur.qty[side]) /\ queue'[other] = queue[other]
  <2>1. /\ queue'[side] = [queue[side] EXCEPT ![px] = Append(@, QuoteOf(side, cur.qty[side]))]
        /\ queue'[other] = queue[other]
    BY <1>6, Sides DEF Shape, QuoteOf
  <2>2. Append(<<>>, QuoteOf(side, cur.qty[side])) = <<QuoteOf(side, cur.qty[side])>>
    OBVIOUS
  <2> QED  BY <1>1, <2>1, <2>2 DEF Nothing, Alone
<1>8. Known(other)'  BY <1>1, <1>7, KnownKept, Sides
<1>9. Answered(TRUE)' /\ out'.event # "trade"  BY <1>6 DEF Answered
<1>10. ~live[side] /\ live' = live /\ cur' = cur  BY DEF QuoteUnderWay
<1>11. Alone(side, cur.qty[side])' = Alone(side, cur.qty[side])
  BY <1>10 DEF Alone, QuoteOf
<1> QED  BY <1>1, <1>6, <1>7, <1>8, <1>9, <1>10, <1>11 DEF QuoteUnderWay

\* The first step of the taker: it trades with the quote shown to the strategy.
LEMMA TakerTrades ==
    ASSUME TypeInv, Shape, pc = <<"taken">>, action.qty > 0,
           live[Other(action.side)], cur.px[Other(action.side)] \in Prices,
           Known(action.side), Holds(Other(action.side)),
           traded = NothingTraded, incoming = Taker(action.qty),
           Book!Execute \/ Book!Settle, traded' = Collected,
           UNCHANGED <<live, cur, action>>
    PROVE  TakeUnderWay' /\ traded' \in [filled : Nat, cash : Int]
<1> DEFINE shown == Other(action.side)
           px == cur.px[shown]
<1>1. /\ incoming.side = action.side /\ incoming.type = "ioc" /\ incoming.price = px
      /\ incoming.qty = action.qty /\ incoming.id = TakerId
  BY DEF Taker, Incoming
<1>2. /\ action.side \in Side /\ shown \in Side /\ action.qty \in Nat /\ px \in Nat
      /\ cur.qty[shown] \in Nat /\ Book!Opposite(action.side) = shown
      /\ Other(shown) = action.side /\ shown # action.side
  BY Sides, PricesAssumption DEF TypeInv, Tick
<1>3. PICK n \in 1..cur.qty[shown] : queue[shown] = Alone(shown, n)
  BY DEF Holds
<1>4. Book!Reachable(action.side, "ioc", px) = {px}
  <2>1. px \in Book!Acceptable(action.side, px)  BY <1>2 DEF Book!Acceptable
  <2> QED  BY <1>2, <1>3, <2>1, ReachIs
<1>5. Book!BestOf(action.side, {px}) = px  BY <1>2, OneBest
<1>6. ~Book!Settle
  <2>1. incoming.qty # 0  BY <1>1, <1>2
  <2>2. Book!Reachable(incoming.side, incoming.type, incoming.price) # {}  BY <1>1, <1>4
  <2> QED  BY <2>1, <2>2 DEF Book!Settle
<1>7. queue[shown][px] = <<QuoteOf(shown, n)>>  BY <1>3 DEF Alone
<1>8. Head(queue[shown][px]) = QuoteOf(shown, n) /\ QuoteOf(shown, n).qty = n
  BY <1>7 DEF QuoteOf
<1> DEFINE fill == Book!Min({action.qty, n})
<1>9. /\ fill \in {action.qty, n} /\ fill <= action.qty /\ fill <= n
      /\ fill \in 1..action.qty /\ fill <= cur.qty[shown] /\ n \in Nat
  BY <1>2, <1>3, MinOfTwo
<1> DEFINE left == IF fill = n THEN <<>> ELSE <<QuoteOf(shown, n - fill)>>
<1>10. /\ out' = [event |-> "trade", maker |-> QuoteOf(shown, n).id, taker |-> TakerId,
                  price |-> px, qty |-> fill]
       /\ incoming' = [incoming EXCEPT !.qty = @ - fill]
       /\ queue' = [queue EXCEPT ![shown][px] = left]
  <2>1. Book!Execute  BY <1>6
  <2>2. /\ Book!Reachable(incoming.side, incoming.type, incoming.price) = {px}
        /\ Book!Opposite(incoming.side) = shown
        /\ Book!BestOf(incoming.side, {px}) = px
    BY <1>1, <1>2, <1>4, <1>5
  <2>3. Head(queue[shown][px]) = QuoteOf(shown, n) /\ QuoteOf(shown, n).qty = n
    BY <1>8
  <2>4. Book!Min({incoming.qty, n}) = fill  BY <1>1
  <2> DEFINE less == [QuoteOf(shown, n) EXCEPT !.qty = n - fill]
             kept == IF fill = n THEN Tail(queue[shown][px])
                     ELSE [queue[shown][px] EXCEPT ![1] = less]
  <2>5. kept = left
    <3>1. less = QuoteOf(shown, n - fill)  BY DEF QuoteOf
    <3> HIDE DEF less, fill
    <3>2. Tail(<<QuoteOf(shown, n)>>) = <<>> /\ [<<QuoteOf(shown, n)>> EXCEPT ![1] = less] = <<less>>
      OBVIOUS
    <3> QED  BY <1>7, <3>1, <3>2
  <2> HIDE DEF fill, shown, px, left
  <2>6. /\ out' = [event |-> "trade", maker |-> QuoteOf(shown, n).id, taker |-> incoming.id,
                   price |-> px, qty |-> fill]
        /\ incoming' = [incoming EXCEPT !.qty = @ - fill]
        /\ queue' = [queue EXCEPT ![shown][px] = kept]
    BY <2>1, <2>2, <2>3, <2>4, ExecuteIs
  <2> QED  BY <1>1, <2>5, <2>6
<1> HIDE DEF fill, left
<1>11. incoming' = Taker(action.qty - fill)
  BY <1>10 DEF Taker, Incoming
<1>12. queue'[action.side] = queue[action.side]  BY <1>2, <1>10 DEF Shape
<1>13. queue'[shown] = [queue[shown] EXCEPT ![px] = left]
  BY <1>2, <1>10 DEF Shape
<1>14. queue'[shown] = IF fill = n THEN Nothing ELSE Alone(shown, n - fill)
  <2>1. queue[shown] = [p \in Prices |-> IF p = px THEN <<QuoteOf(shown, n)>> ELSE <<>>]
    BY <1>3 DEF Alone
  <2>2. queue'[shown] = [p \in Prices |-> IF p = px THEN left ELSE <<>>]
    BY <1>13, <2>1
  <2> QED  BY <2>2 DEF Alone, Nothing, left
<1>15. traded' = [filled |-> fill, cash |-> -(Direction(action.side) * Quot(fill * px, Scale))]
  <2>1. traded.filled = 0 /\ traded.cash = 0  BY DEF NothingTraded
  <2>2. out'.event = "trade" /\ out'.qty = fill /\ out'.price = px  BY <1>10
  <2>3. fill * px \in Nat  BY <1>2, <1>9
  <2>4. Quot(fill * px, Scale) \in Int  BY <2>3, ScaleAssumption DEF Quot
  <2>5. Direction(action.side) \in Int  BY DEF Direction
  <2> DEFINE paid == Direction(action.side) * Quot(fill * px, Scale)
  <2>6. paid \in Int  BY <2>4, <2>5
  <2>7. traded' = [filled |-> 0 + fill, cash |-> 0 - paid]  BY <2>1, <2>2 DEF Collected
  <2> HIDE DEF paid
  <2>8. 0 + fill = fill /\ 0 - paid = -paid  BY <1>9, <2>6
  <2> QED  BY <2>7, <2>8 DEF paid
<1>16. traded' \in [filled : Nat, cash : Int]
  <2>1. fill * px \in Nat  BY <1>2, <1>9
  <2>2. Quot(fill * px, Scale) \in Int  BY <2>1, ScaleAssumption DEF Quot
  <2>3. -(Direction(action.side) * Quot(fill * px, Scale)) \in Int
    BY <2>2 DEF Direction
  <2> QED  BY <1>9, <1>15, <2>3
<1>17. Known(action.side)'  BY <1>12, KnownKept
<1>18. queue'[shown] = Nothing' \/ (Holds(shown)' /\ fill = action.qty)
  <2>1. CASE fill = n  BY <1>14, <2>1 DEF Nothing
  <2>2. CASE fill # n
    <3>1. fill = action.qty /\ n - fill \in 1..cur.qty[shown]  BY <1>2, <1>3, <1>9, <2>2
    <3>2. queue'[shown] = Alone(shown, n - fill)  BY <1>14, <2>2
    <3>3. Holds(shown)'  BY <3>1, <3>2 DEF Holds, Alone, QuoteOf
    <3> QED  BY <3>1, <3>3
  <2> QED  BY <2>1, <2>2
<1>19. /\ traded'.filled = fill
       /\ traded'.cash = -(Direction(action.side) * Quot(fill * px, Scale))
  BY <1>15
<1>20. Taker(action.qty - traded.filled)' = Taker(action.qty - fill)
  BY <1>19 DEF Taker, Incoming
<1> QED  BY <1>9, <1>11, <1>16, <1>17, <1>18, <1>19, <1>20 DEF TakeUnderWay

\* Its second step: what is left of it is dropped.
LEMMA TakerEnds ==
    ASSUME TypeInv, Shape, pc = <<"taken">>,
           live[Other(action.side)], cur.px[Other(action.side)] \in Prices,
           Known(action.side),
           traded.filled \in 1..action.qty, traded.filled <= cur.qty[Other(action.side)],
           traded.cash = -(Direction(action.side)
                             * Quot(traded.filled * cur.px[Other(action.side)], Scale)),
           incoming = Taker(action.qty - traded.filled),
           \/ queue[Other(action.side)] = Nothing
           \/ Holds(Other(action.side)) /\ traded.filled = action.qty,
           Book!Execute \/ Book!Settle, traded' = Collected,
           UNCHANGED <<live, cur, action>>
    PROVE  TakeUnderWay' /\ traded' = traded
<1> DEFINE shown == Other(action.side)
           px == cur.px[shown]
<1>1. /\ incoming.side = action.side /\ incoming.type = "ioc" /\ incoming.price = px
      /\ incoming.qty = action.qty - traded.filled
  BY DEF Taker, Incoming
<1>2. action.side \in Side /\ action.qty \in Nat  BY DEF TypeInv
<1>3. ~Book!Execute
  <2>1. CASE queue[shown] = Nothing
    <3>1. Book!Reachable(action.side, "ioc", px) = {}  BY <1>2, <2>1, ReachIs
    <3> QED  BY <1>1, <3>1 DEF Book!Execute
  <2>2. CASE traded.filled = action.qty
    <3>1. incoming.qty = 0  BY <1>1, <1>2, <2>2
    <3>2. Book!Execute => incoming.qty > 0  BY DEF Book!Execute
    <3> QED  BY <3>1, <3>2
  <2> QED  BY <2>1, <2>2
<1>4. queue' = queue /\ incoming' = NULL /\ out' = [event |-> "return", ok |-> TRUE]
  BY <1>1, <1>3 DEF Book!Settle, Book!Answer
<1>5. traded' = traded  BY <1>4 DEF Collected
<1>6. Known(action.side)'  BY <1>4, KnownKept
<1>7. queue'[shown] = Nothing' \/ (Holds(shown)' /\ traded.filled = action.qty)
  BY <1>4 DEF Holds, Alone, Nothing, QuoteOf
<1> QED  BY <1>4, <1>5, <1>6, <1>7 DEF TakeUnderWay

\* The book's own steps inside submit() keep it.
LEMMA SubmittingStep ==
    ASSUME IInv, Shape, Submitting
    PROVE  IInv'
<1> USE DEF IInv
<1>1. /\ Book!Execute \/ Book!Settle
      /\ traded' = Collected
      /\ UNCHANGED <<riskVars, pc, tick, live, cur, action, pos>>
  BY DEF Submitting
<1>2. incoming # NULL  BY <1>1 DEF Book!Execute, Book!Settle
<1>3. pc[1] \in {"quoted", "placed", "taken"}  BY <1>2 DEF BookInv
<1>4. LimitInv'  BY <1>1, <1>3, LimitsKept DEF Acting
<1>5. CASE pc[1] = "taken"
  <2>1. pc = <<"taken">>  BY <1>5, PlacesAre DEF TypeInv, Places
  <2>2. TakeUnderWay /\ action.qty > 0  BY <1>5 DEF BookInv, PhaseInv, Acting
  <2>3. TakeUnderWay' /\ traded' \in [filled : Nat, cash : Int]
    <3>1. CASE traded = NothingTraded /\ incoming = Taker(action.qty)
                 /\ Holds(Other(action.side))
      BY <1>1, <2>1, <2>2, <3>1, TakerTrades DEF TakeUnderWay
    <3>2. CASE /\ traded.filled \in 1..action.qty
               /\ traded.filled <= cur.qty[Other(action.side)]
               /\ traded.cash = -(Direction(action.side)
                                    * Quot(traded.filled * cur.px[Other(action.side)], Scale))
               /\ incoming = Taker(action.qty - traded.filled)
               /\ \/ queue[Other(action.side)] = Nothing
                  \/ Holds(Other(action.side)) /\ traded.filled = action.qty
      <4>1. TakeUnderWay' /\ traded' = traded
        BY <1>1, <2>1, <2>2, <3>2, TakerEnds DEF TakeUnderWay
      <4> QED  BY <4>1 DEF TypeInv
    <3> QED  BY <1>2, <2>2, <3>1, <3>2 DEF TakeUnderWay
  <2>4. TypeInv'  BY <1>1, <2>3 DEF TypeInv, riskVars
  <2>5. BookInv'  BY <1>1, <1>5, <2>3 DEF BookInv, SubmitsQuote
  <2>6. PhaseInv'
    <3>1. Skipped(tick)' <=> Skipped(tick)  BY <1>1 DEF Skipped
    <3> QED  BY <1>1, <1>5, <3>1 DEF PhaseInv, Acting
  <2> QED  BY <1>4, <2>4, <2>5, <2>6
<1>6. CASE pc[1] # "taken"
  <2>1. pc # <<"taken">>  BY <1>6, PlacesAre
  <2>2. traded' = traded  BY <1>1, <2>1 DEF Collected
  <2>3. \A side \in Side : SubmitsQuote(side) => QuoteUnderWay(side)'
    <3>1. ASSUME NEW side \in Side, SubmitsQuote(side) PROVE QuoteUnderWay(side)'
      <4>1. QuoteUnderWay(side)  BY <3>1 DEF BookInv
      <4> QED  BY <1>1, <1>2, <4>1, QuoteRests
    <3> QED  BY <3>1
  <2>4. TypeInv'  BY <1>1, <2>2 DEF TypeInv, riskVars
  <2>5. BookInv'  BY <1>1, <1>3, <1>6, <2>3 DEF BookInv, SubmitsQuote
  <2>6. PhaseInv'
    <3>1. (Rests' <=> Rests) /\ (Skipped(tick)' <=> Skipped(tick))
      BY <1>1 DEF Rests, Skipped
    <3> QED  BY <1>1, <1>3, <1>6, <2>2, <3>1 DEF PhaseInv, Acting
  <2> QED  BY <1>4, <2>4, <2>5, <2>6
<1> QED  BY <1>5, <1>6

-----------------------------------------------------------------------------
(* The taker has returned.                                                 *)

\* Booking the fill keeps it.
LEMMA TakenStep ==
    ASSUME IInv, Taken
    PROVE  IInv'
<1> USE DEF IInv
<1> DEFINE shown == Other(action.side)
<1>1. /\ pc = <<"taken">> /\ incoming = NULL
      /\ live' = [live EXCEPT ![shown] = StillLive(shown)]
      /\ pos' = IF traded.filled = 0 THEN pos ELSE Booked
      /\ pc' = <<"poll">> /\ tick' = NULL
      /\ action' = NoAction /\ traded' = NothingTraded
      /\ UNCHANGED <<riskVars, bookVars, cur>>
  BY DEF Taken, Done
<1>2. pc[1] = "taken" /\ pc'[1] = "poll" /\ pc' \in Places  BY <1>1, PlacesAre
<1>3. /\ TakeUnderWay /\ ActionAllowed /\ action.qty > 0
      /\ action.side \in Side /\ shown \in Side /\ shown # action.side
      /\ live \in [Side -> BOOLEAN] /\ live[shown] /\ Known(action.side)
  BY <1>2, Sides DEF BookInv, LimitInv, PhaseInv, Acting, TypeInv, TakeUnderWay
<1>4. queue[shown] = Nothing \/ Holds(shown)  BY <1>3 DEF TakeUnderWay
<1>5. /\ live' \in [Side -> BOOLEAN]
      /\ live'[action.side] = live[action.side]
      /\ live'[shown] = StillLive(shown)
  BY <1>1, <1>3 DEF StillLive
<1>6. ASSUME NEW side \in Side, side = action.side PROVE Known(side)'
  <2>1. Known(side) /\ live'[side] = live[side] /\ queue'[side] = queue[side] /\ cur' = cur
    BY <1>1, <1>3, <1>5, <1>6 DEF bookVars
  <2> QED  BY <2>1, KnownKept
<1>7. ASSUME NEW side \in Side, side = shown PROVE Known(side)'
  <2>1. queue' = queue /\ cur' = cur  BY <1>1 DEF bookVars
  <2>2. CASE queue[side] = Nothing
    <3>1. ~StillLive(shown)  BY <1>7, <2>2 DEF StillLive, Nothing
    <3> QED  BY <1>5, <1>7, <2>1, <2>2, <3>1 DEF Known, Nothing
  <2>3. CASE Holds(side)
    <3>1. StillLive(shown)  BY <1>3, <1>7, <2>3 DEF StillLive, Holds, Alone
    <3>2. Holds(side)'  BY <2>1, <2>3 DEF Holds, Alone, QuoteOf
    <3> QED  BY <1>5, <1>7, <3>1, <3>2 DEF Known
  <2> QED  BY <1>4, <1>7, <2>2, <2>3
<1>8. \A side \in Side : Known(side)'  BY <1>3, <1>6, <1>7 DEF Side
<1>9. /\ traded.filled \in 0..action.qty /\ traded.cash \in Int /\ pos' \in
            [btc_qty : Int, cash : Int, gross_volume : Int, fills : Int]
      /\ pos'.btc_qty = After(action.side, traded.filled, pos.btc_qty)
  <2>1. traded.filled \in 0..action.qty
    BY <1>3 DEF TakeUnderWay, NothingTraded, TypeInv
  <2>2. traded.filled \in Nat /\ traded.cash \in Int /\ pos \in
            [btc_qty : Int, cash : Int, gross_volume : Int, fills : Int]
    BY DEF TypeInv
  <2>3. CASE traded.filled = 0
    BY <1>1, <2>1, <2>2, <2>3 DEF After, Direction
  <2>4. CASE traded.filled # 0
    BY <1>1, <2>1, <2>2, <2>4 DEF Booked, After, Direction
  <2> QED  BY <2>3, <2>4
<1>10. TypeInv'
  <2>1. NoAction \in [side : Side, qty : Nat] /\ NothingTraded \in [filled : Nat, cash : Int]
    BY DEF NoAction, NothingTraded, Side
  <2> QED  BY <1>1, <1>2, <1>5, <1>9, <2>1 DEF TypeInv, riskVars
<1>11. BookInv'  BY <1>1, <1>2, <1>8 DEF BookInv, SubmitsQuote, bookVars
<1>12. PhaseInv'  BY <1>1, <1>2 DEF PhaseInv, Acting
<1>13. LimitInv'
  <2>1. PositionWithinLimit'
    BY <1>1, <1>3, <1>9 DEF PositionWithinLimit, ActionAllowed, riskVars
  <2> QED  BY <1>2, <2>1 DEF LimitInv, Acting
<1> QED  BY <1>10, <1>11, <1>12, <1>13

-----------------------------------------------------------------------------
(* The theorems.                                                           *)

\* The invariant holds when the engine is constructed.
LEMMA InitIInv == Init => IInv /\ Shape
<1> SUFFICES ASSUME Init PROVE IInv /\ Shape  OBVIOUS
<1>1. /\ cfg \in Configs /\ peak_equity = 0 /\ halted = FALSE /\ pc = <<"poll">>
      /\ tick = NULL /\ cur = NoQuotes /\ live = [s \in Side |-> FALSE]
      /\ action = NoAction /\ traded = NothingTraded
      /\ pos = [btc_qty |-> 0, cash |-> 0, gross_volume |-> 0, fills |-> 0]
      /\ incoming = NULL
      /\ queue = [side \in Side |-> [p \in Prices |-> <<>>]]
  BY DEF Init, RiskInit, Book!Init, Book!Side, Side
<1>2. pc \in Places /\ pc[1] = "poll"  BY <1>1, PlacesAre
<1>3. cfg \in Config /\ halted \in BOOLEAN /\ peak_equity \in Int
  <2>1. cfg \in Config /\ peak_equity \in Int  BY <1>1, ConfigsAssumption DEF Config
  <2>2. halted \in BOOLEAN  BY <1>1
  <2> QED  BY <2>1, <2>2
<1>4. cur \in Tick /\ action \in [side : Side, qty : Nat] /\ traded \in [filled : Nat, cash : Int]
  BY <1>1 DEF NoQuotes, Tick, NoAction, NothingTraded, Side
<1>5. TypeInv  BY <1>1, <1>2, <1>3, <1>4 DEF TypeInv
<1>6. BookInv  BY <1>1, <1>2 DEF BookInv, SubmitsQuote, Known, Nothing
<1>7. PhaseInv  BY <1>1, <1>2 DEF PhaseInv, Acting
<1>8. LimitInv
  BY <1>1, <1>2, <1>3 DEF LimitInv, PositionWithinLimit, Acting, Abs, Config
<1> QED  BY <1>1, <1>5, <1>6, <1>7, <1>8 DEF IInv, Shape

\* Every step keeps the invariant.
LEMMA NextIInv == IInv /\ Shape /\ [Next]_vars => IInv' /\ Shape'
<1> SUFFICES ASSUME IInv, Shape, [Next]_vars PROVE IInv' /\ Shape'  OBVIOUS
<1>1. ASSUME UNCHANGED vars PROVE IInv' /\ Shape'
  <2>1. UNCHANGED <<cfg, peak_equity, halted, queue, incoming, out, pc, tick, live, cur,
                    action, traded, pos>>
    BY <1>1 DEF vars, riskVars, bookVars
  <2>2. TypeInv'  BY <2>1 DEF IInv, TypeInv
  <2>3. \A side \in Side : /\ Known(side) => Known(side)'
                           /\ Holds(side) => Holds(side)'
                           /\ QuoteUnderWay(side) => QuoteUnderWay(side)'
                           /\ SubmitsQuote(side)' => SubmitsQuote(side)
    BY <2>1 DEF Known, Holds, QuoteUnderWay, SubmitsQuote, Nothing, Alone, QuoteOf,
                Incoming, Answered
  <2>4. TakeUnderWay => TakeUnderWay'
    BY <2>1 DEF TakeUnderWay, Taker, Incoming, Known, Holds, Nothing, Alone, QuoteOf
  <2>5. BookInv'  BY <2>1, <2>3, <2>4 DEF IInv, BookInv
  <2>6. PhaseInv'
    <3>1. (Rests' <=> Rests) /\ (Skipped(tick)' <=> Skipped(tick))
      BY <2>1 DEF Rests, Skipped
    <3> QED  BY <2>1, <3>1 DEF IInv, PhaseInv, Acting
  <2>7. LimitInv'
    <3>1. /\ PositionWithinLimit' <=> PositionWithinLimit
          /\ ActionAllowed' <=> ActionAllowed
          /\ EquityAt(Mid(tick))' = EquityAt(Mid(tick))
      BY <2>1 DEF PositionWithinLimit, ActionAllowed, EquityAt, Mid
    <3> QED  BY <2>1, <3>1 DEF IInv, LimitInv, Acting
  <2>8. Shape'  BY <2>1 DEF Shape
  <2> QED  BY <2>2, <2>5, <2>6, <2>7, <2>8 DEF IInv
<1>2. ASSUME Next PROVE IInv'
  <2>1. ASSUME NEW side \in Side, CancelQuote(side) \/ Quote(side) \/ Quoted(side)
        PROVE  IInv'
    BY <2>1, CancelStep, QuoteStep, QuotedStep
  <2>2. ASSUME NoTrade PROVE IInv'
    <3>1. /\ pc[1] = "strategy" /\ Done
          /\ UNCHANGED <<riskVars, bookVars, live, cur, pos>>
      BY <2>2, PlacesAre DEF NoTrade
    <3>2. incoming = NULL /\ \A s \in Side : Known(s)  BY <3>1 DEF IInv, BookInv
    <3>3. \A s \in Side : Known(s)'  BY <3>1, <3>2, KnownKept DEF bookVars
    <3>4. live' \in [Side -> BOOLEAN] /\ UNCHANGED <<riskVars, incoming, cur, pos>>
      BY <3>1 DEF IInv, TypeInv, bookVars
    <3> QED  BY <3>1, <3>2, <3>3, <3>4, NoTradeStep
  <2>3. ASSUME ApplyAction PROVE IInv'
    BY <2>3, DecideStep, PlaceStep, PlacedStep, TakeStep, TakenStep DEF ApplyAction
  <2> QED
    BY <1>2, <2>1, <2>2, <2>3, PollStep, RefreshStep, SubmittingStep DEF Next
<1>3. ASSUME Next PROVE Shape'
  <2>1. \/ queue' = queue
        \/ \E side \in Side : Book!Cancel(QuoteId(side))
        \/ Book!Execute \/ Book!Settle
    BY <1>3 DEF Next, ApplyAction, Poll, CancelQuote, Quote, Quoted, Refresh, NoTrade, Decide,
                Place, Placed, Take, Taken, Submitting, bookVars, SubmitQuote,
                Book!Submit, Book!Refuse, Book!Ignore, Book!Accept
  <2>2. Book!Side = Side  BY DEF Book!Side, Side
  <2>3. (\E side \in Side : Book!Cancel(QuoteId(side))) => DOMAIN queue' = Side
    BY <2>2 DEF Book!Cancel
  <2>4. Book!Execute \/ Book!Settle => DOMAIN queue' = DOMAIN queue
    BY DEF Book!Execute, Book!Settle
  <2> QED  BY <2>1, <2>3, <2>4 DEF Shape
<1> QED  BY <1>1, <1>2, <1>3

\* Types, what the book holds, the phases of a tick and the limits, in every state.
THEOREM InductiveInvariant == Spec => [](IInv /\ Shape)
  BY InitIInv, NextIInv, PTL DEF Spec

\* For any ticks, quantities and answers of the strategy, between the calls of the
\* engine its flags and cached prices say exactly what rests in its book.
THEOREM FlagsMatchBook == Spec => []QuotesMatchBook
<1>1. IInv => QuotesMatchBook
  <2> SUFFICES ASSUME IInv, pc[1] \notin {"quoted", "placed", "taken"}, NEW side \in Side
               PROVE  Resting(side) = IF live[side] THEN {<<cur.px[side], QuoteId(side)>>} ELSE {}
    BY DEF QuotesMatchBook
  <2>1. Known(side)  BY DEF IInv, BookInv
  <2>2. CASE ~live[side]
    <3>1. \A p \in Prices : Book!Waiting(side, p) = {}
      BY <2>1, <2>2 DEF Known, Nothing, Book!Waiting, Book!Range
    <3> QED  BY <2>2, <3>1 DEF Resting
  <2>3. CASE live[side]
    <3>1. cur.px[side] \in Prices  BY <2>1, <2>3 DEF Known, Holds
    <3>2. PICK n \in 1..cur.qty[side] : queue[side] = Alone(side, n)
      BY <2>1, <2>3 DEF Known, Holds
    <3>3. \A p \in Prices :
              Book!Waiting(side, p) = IF p = cur.px[side] THEN {QuoteOf(side, n)} ELSE {}
      BY <3>2 DEF Alone, Book!Waiting, Book!Range
    <3>4. QuoteOf(side, n).id = QuoteId(side)  BY DEF QuoteOf
    <3> QED  BY <2>3, <3>1, <3>3, <3>4 DEF Resting
  <2> QED  BY <2>2, <2>3
<1> QED  BY <1>1, InductiveInvariant, PTL

\* However actions are clamped and filled in part, on any sequence of ticks, the
\* position is within its limit.
THEOREM PositionStays == Spec => []PositionWithinLimit
<1>1. IInv => PositionWithinLimit  BY DEF IInv, LimitInv
<1> QED  BY <1>1, InductiveInvariant, PTL

\* What the engine knows when it books a fill.
LEMMA FillIs ==
    ASSUME IInv, Next, pos' # pos
    PROVE  /\ Taken /\ pc[1] = "taken" /\ pos' = Booked
           /\ traded.filled \in 1..action.qty
           /\ traded.filled <= cur.qty[Other(action.side)]
           /\ traded.cash = -(Direction(action.side)
                                * Quot(traded.filled * cur.px[Other(action.side)], Scale))
           /\ ~Skipped(tick) /\ cur = tick /\ tick \in Ticks
           /\ ActionAllowed /\ ~halted
           /\ cfg.maxDrawdown > 0 => peak_equity - EquityAt(Mid(tick)) <= cfg.maxDrawdown
<1>1. Taken
  BY DEF Next, ApplyAction, Poll, CancelQuote, Quote, Quoted, Refresh, NoTrade, Decide,
         Place, Placed, Take, Submitting
<1>2. pc[1] = "taken"  BY <1>1, PlacesAre DEF Taken
<1>3. TakeUnderWay /\ ActionAllowed /\ ~halted
  BY <1>2 DEF IInv, BookInv, LimitInv, Acting
<1>4. pos' = Booked /\ traded.filled # 0  BY <1>1 DEF Taken
<1>5. traded # NothingTraded  BY <1>4 DEF NothingTraded
<1>6. tick \in Ticks /\ cur = IF Skipped(tick) THEN NoQuotes ELSE tick
  BY <1>2 DEF IInv, TypeInv, PhaseInv
<1>7. ~Skipped(tick)
  <2>1. cur.px[Other(action.side)] # 0
    BY <1>3, PricesAssumption DEF TakeUnderWay
  <2>2. Other(action.side) \in Side  BY Sides DEF IInv, TypeInv
  <2> QED  BY <1>6, <2>1, <2>2 DEF NoQuotes
<1> QED  BY <1>1, <1>2, <1>3, <1>4, <1>5, <1>6, <1>7 DEF TakeUnderWay, IInv, LimitInv

\* A fill is never booked while trading is halted, nor beyond the drawdown limit at
\* the tick it trades on, nor beyond the notional limit unless it shrinks the position.
THEOREM FillsStayWithinLimits == Spec => FillsWithinLimits
<1> DEFINE Within ==
        pos' # pos =>
          /\ ~halted
          /\ cfg.maxDrawdown > 0 =>
                peak_equity - EquityAt(Mid(tick)) <= cfg.maxDrawdown
          /\ cfg.maxNotional > 0 =>
                \/ Quot(Abs(pos'.btc_qty) * cur.px[Other(action.side)], Scale)
                      <= cfg.maxNotional
                \/ Abs(pos'.btc_qty) < Abs(pos.btc_qty)
<1>1. IInv /\ [Next]_vars => Within
  <2> SUFFICES ASSUME IInv, Next, pos' # pos PROVE Within
    BY DEF vars
  <2>1. /\ pos' = Booked /\ traded.filled \in 1..action.qty
        /\ ActionAllowed /\ ~halted
        /\ cfg.maxDrawdown > 0 => peak_equity - EquityAt(Mid(tick)) <= cfg.maxDrawdown
    BY FillIs
  <2>2. pos'.btc_qty = After(action.side, traded.filled, pos.btc_qty)
    BY <2>1 DEF Booked, After
  <2> QED  BY <2>1, <2>2 DEF ActionAllowed
<1>2. IInv /\ [Next]_vars => [Within]_vars  BY <1>1
<1> QED  BY <1>2, InductiveInvariant, PTL DEF Spec, FillsWithinLimits

-----------------------------------------------------------------------------
(* The account.                                                            *)

\* A quotient towards zero is within one unit of the fraction, on the side of zero.
LEMMA QuotIs ==
    ASSUME NEW x \in Int
    PROVE  /\ Quot(x, Scale) \in Int
           /\ x >= 0 => Quot(x, Scale) * Scale <= x /\ x < Quot(x, Scale) * Scale + Scale
           /\ x < 0 => Quot(x, Scale) * Scale - Scale < x /\ x <= Quot(x, Scale) * Scale
<1>1. Scale \in Nat \ {0}  BY ScaleAssumption
<1>2. \A n \in Nat : /\ n \div Scale \in Nat
                     /\ (n \div Scale) * Scale <= n /\ n < (n \div Scale) * Scale + Scale
  BY <1>1
<1>3. CASE x >= 0  BY <1>1, <1>2, <1>3 DEF Quot
<1>4. CASE x < 0
  <2> DEFINE q == (-x) \div Scale
  <2>1. -x \in Nat /\ q \in Nat /\ q * Scale <= -x /\ -x < q * Scale + Scale
    BY <1>2, <1>4
  <2>2. Quot(x, Scale) = -q  BY <1>4 DEF Quot
  <2> HIDE DEF q
  <2>3. (-q) * Scale = -(q * Scale) /\ q * Scale \in Nat  BY <1>1, <2>1
  <2> QED  BY <1>1, <1>4, <2>1, <2>2, <2>3
<1> QED  BY <1>3, <1>4

\* Two truncations gain at most one unit.
LEMMA QuotOfSum ==
    ASSUME NEW x \in Int, NEW y \in Nat
    PROVE  /\ Quot(x + y, Scale) <= Quot(x, Scale) + Quot(y, Scale) + 1
           /\ Quot(x - y, Scale) + Quot(y, Scale) <= Quot(x, Scale) + 1
<1> DEFINE a == Quot(x, Scale)
           b == Quot(y, Scale)
           c == Quot(x + y, Scale)
           d == Quot(x - y, Scale)
<1>1. Scale \in Nat \ {0}  BY ScaleAssumption
<1>2. /\ a \in Int /\ b \in Int /\ c \in Int /\ d \in Int
      /\ x >= 0 => a * Scale <= x /\ x < a * Scale + Scale
      /\ x < 0 => a * Scale - Scale < x /\ x <= a * Scale
      /\ b * Scale <= y /\ y < b * Scale + Scale
      /\ x + y >= 0 => c * Scale <= x + y /\ x + y < c * Scale + Scale
      /\ x + y < 0 => c * Scale - Scale < x + y /\ x + y <= c * Scale
      /\ x - y >= 0 => d * Scale <= x - y /\ x - y < d * Scale + Scale
      /\ x - y < 0 => d * Scale - Scale < x - y /\ x - y <= d * Scale
  BY QuotIs
<1> HIDE DEF a, b, c, d
<1>3. \A n \in Int : n >= 1 => n * Scale >= Scale  BY <1>1
<1>4. /\ (c - a - b - 1) * Scale = c * Scale - a * Scale - b * Scale - Scale
      /\ (d + b - a - 1) * Scale = d * Scale + b * Scale - a * Scale - Scale
      /\ a * Scale \in Int /\ b * Scale \in Int /\ c * Scale \in Int /\ d * Scale \in Int
  BY <1>1, <1>2
<1>5. c <= a + b + 1
  <2>1. ~(c - a - b - 1 >= 1)
    <3>1. SUFFICES ASSUME c * Scale - a * Scale - b * Scale - Scale >= Scale PROVE FALSE
      BY <1>2, <1>3, <1>4
    <3> QED  BY <1>1, <1>2, <1>4, <3>1
  <2> QED  BY <1>2, <2>1
<1>6. d + b <= a + 1
  <2>1. ~(d + b - a - 1 >= 1)
    <3>1. SUFFICES ASSUME d * Scale + b * Scale - a * Scale - Scale >= Scale PROVE FALSE
      BY <1>2, <1>3, <1>4
    <3> QED  BY <1>1, <1>2, <1>4, <3>1
  <2> QED  BY <1>2, <2>1
<1> QED  BY <1>5, <1>6 DEF a, b, c, d

\* A position bought at or above a price, or sold at or below it, is worth no more at
\* that price than what was paid for it.
LEMMA SpreadIsPaid ==
    ASSUME NEW side \in Side, NEW b \in Int, NEW q \in Nat, NEW px \in Nat, NEW mid \in Nat,
           IF side = "buy" THEN mid <= px ELSE px <= mid
    PROVE  Quot(After(side, q, b) * mid, Scale) - Direction(side) * Quot(q * px, Scale)
           <= Quot(b * mid, Scale) + 1
<1> DEFINE x == b * mid
           y == q * mid
           z == q * px
<1>1. x \in Int /\ y \in Nat /\ z \in Nat  OBVIOUS
<1>2. /\ (b + q) * mid = x + y /\ (b - q) * mid = x - y
  OBVIOUS
<1>3. IF side = "buy" THEN y <= z ELSE z <= y  BY Sides, ProductGrows
<1>4. IF side = "buy" THEN Quot(y, Scale) <= Quot(z, Scale)
      ELSE Quot(z, Scale) <= Quot(y, Scale)
  <2>1. \A m, n \in Nat : m <= n => Quot(m, Scale) <= Quot(n, Scale)
    BY ScaleAssumption DEF Quot
  <2> QED  BY <1>1, <1>3, <2>1
<1>5. /\ Quot(x, Scale) \in Int /\ Quot(y, Scale) \in Int /\ Quot(z, Scale) \in Int
      /\ Quot(x + y, Scale) \in Int /\ Quot(x - y, Scale) \in Int
  BY <1>1, QuotIs
<1>6. /\ Quot(x + y, Scale) <= Quot(x, Scale) + Quot(y, Scale) + 1
      /\ Quot(x - y, Scale) + Quot(y, Scale) <= Quot(x, Scale) + 1
  BY <1>1, QuotOfSum
<1>7. CASE side = "buy"
  <2>1. After(side, q, b) * mid = x + y /\ Direction(side) = 1
    BY <1>2, <1>7 DEF After, Direction
  <2> HIDE DEF x, y, z
  <2> QED  BY <1>4, <1>5, <1>6, <1>7, <2>1 DEF x, z
<1>8. CASE side # "buy"
  <2>1. After(side, q, b) * mid = x - y /\ Direction(side) = -1
    BY <1>2, <1>8 DEF After, Direction
  <2> HIDE DEF x, y, z
  <2> QED  BY <1>4, <1>5, <1>6, <1>8, <2>1 DEF x, z
<1> QED  BY <1>7, <1>8

\* For any ticks and actions, a fill raises the equity at the mid of its tick by at
\* most the unit two truncations can make.
THEOREM FillsCostTheSpread == Spec => FillsMakeNoMoney
<1> DEFINE Costs ==
        pos' # pos =>
            (pos'.cash + Quot(pos'.btc_qty * Mid(tick), Scale)) <= EquityAt(Mid(tick)) + 1
<1>1. IInv /\ [Next]_vars => Costs
  <2> SUFFICES ASSUME IInv, Next, pos' # pos PROVE Costs
    BY DEF vars
  <2> DEFINE side == action.side
             px == cur.px[Other(side)]
             mid == Mid(tick)
  <2>1. /\ pos' = Booked /\ traded.filled \in Nat /\ action.qty \in Nat
        /\ traded.cash = -(Direction(side) * Quot(traded.filled * px, Scale))
        /\ ~Skipped(tick) /\ cur = tick /\ tick \in Ticks
    BY FillIs DEF IInv, TypeInv
  <2>2. /\ side \in Side /\ pos.btc_qty \in Int /\ pos.cash \in Int
    BY DEF IInv, TypeInv
  <2>3. /\ px \in Nat /\ mid \in Nat
        /\ IF side = "buy" THEN mid <= px ELSE px <= mid
    BY <2>1, <2>2, TickIs DEF Other, Side
  <2>4. /\ pos'.cash = pos.cash + traded.cash
        /\ pos'.btc_qty = After(side, traded.filled, pos.btc_qty)
    BY <2>1 DEF Booked, After
  <2> DEFINE paid == Direction(side) * Quot(traded.filled * px, Scale)
             now == Quot(After(side, traded.filled, pos.btc_qty) * mid, Scale)
             before == Quot(pos.btc_qty * mid, Scale)
  <2>5. now - paid <= before + 1  BY <2>1, <2>2, <2>3, SpreadIsPaid
  <2>6. paid \in Int /\ now \in Int /\ before \in Int
    <3>1. /\ traded.filled * px \in Int /\ pos.btc_qty * mid \in Int
          /\ After(side, traded.filled, pos.btc_qty) * mid \in Int
      BY <2>1, <2>2, <2>3 DEF After, Direction
    <3>2. Quot(traded.filled * px, Scale) \in Int  BY <3>1, QuotIs
    <3> QED  BY <3>1, <3>2, QuotIs DEF Direction
  <2>7. pos'.cash + Quot(pos'.btc_qty * mid, Scale) = pos.cash + (-paid) + now
    BY <2>1, <2>4
  <2>8. EquityAt(mid) = pos.cash + before  BY DEF EquityAt
  <2> HIDE DEF paid, now, before
  <2>9. pos.cash + (-paid) + now <= (pos.cash + before) + 1  BY <2>2, <2>5, <2>6
  <2> QED  BY <2>7, <2>8, <2>9
<1>2. IInv /\ [Next]_vars => [Costs]_vars  BY <1>1
<1> QED  BY <1>2, InductiveInvariant, PTL DEF Spec, FillsMakeNoMoney

\* For any ticks and actions, the engine's ticks and its position are a run of the
\* plain account: one trade a tick at most, at its price and within its quantity.
THEOREM EngineIsAccount == Spec => ImplementsAccount
<1>1. Init => Account!Init
  BY DEF Init, Account!Init
<1>2. IInv /\ [Next]_vars => [Account!Next]_(Account!vars)
  <2> SUFFICES ASSUME IInv, Next PROVE [Account!Next]_(Account!vars)
    BY DEF vars, Account!vars
  <2>1. CASE Poll
    <3>1. tick = NULL  BY <2>1, PlacesAre DEF Poll, IInv, PhaseInv
    <3> QED  BY <2>1, <3>1 DEF Poll, Account!Next, Account!Look
  <2>2. CASE Done /\ pc[1] # "poll" /\ pos' = pos
    <3>1. tick # NULL  BY <2>2 DEF IInv, PhaseInv
    <3> QED  BY <2>2, <3>1 DEF Done, Account!Next, Account!Pass
  <2>3. CASE Taken /\ pos' # pos
    <3> DEFINE side == action.side
               shown == Other(side)
               qty == traded.filled
    <3>1. /\ pos' = Booked /\ qty \in 1..action.qty /\ qty <= cur.qty[shown]
          /\ traded.cash = -(Direction(side) * Quot(qty * cur.px[shown], Scale))
          /\ ~Skipped(tick) /\ cur = tick /\ tick \in Ticks
          /\ tick' = NULL
      BY <2>3, FillIs DEF Taken, Done
    <3>2. /\ side \in Side /\ shown \in Side /\ action.qty \in Nat /\ pos.cash \in Int
      BY Sides DEF IInv, TypeInv
    <3>3. /\ tick.px[shown] \in Nat /\ tick.px["buy"] \in Nat /\ tick.px["sell"] \in Nat
          /\ tick.qty[shown] \in Nat
      BY <3>1, <3>2, TickIs, Sides
    <3>4. qty \in 1..tick.qty[shown] /\ qty \in Nat  BY <3>1, <3>2, <3>3
    <3>5. tick # NULL /\ Account!Tradable
      BY <3>1, <3>3, NullAssumption DEF Skipped, Account!Tradable
    <3> DEFINE worth == (qty * tick.px[shown]) \div Scale
    <3>6. traded.cash = -(Direction(side) * worth) /\ worth \in Int
      <4>1. qty * tick.px[shown] \in Nat  BY <3>3, <3>4
      <4>2. Quot(qty * tick.px[shown], Scale) = worth  BY <4>1 DEF Quot
      <4> QED  BY <3>1, <4>1, <4>2, ScaleAssumption
    <3>7. pos.cash + traded.cash = pos.cash - Direction(side) * worth
      <4> HIDE DEF worth
      <4>1. \A w \in Int : pos.cash + (-w) = pos.cash - w  BY <3>2
      <4>2. Direction(side) * worth \in Int  BY <3>6 DEF Direction
      <4> QED  BY <3>6, <4>1, <4>2
    <3>8. Account!Trade(Direction(side), shown, qty)
      BY <3>1, <3>4, <3>5, <3>7 DEF Account!Trade, Booked
    <3>9. \/ shown = "sell" /\ Direction(side) = 1
          \/ shown = "buy" /\ Direction(side) = -1
      BY DEF Other, Direction
    <3> QED  BY <3>4, <3>5, <3>8, <3>9 DEF Account!Next
  <2>4. CASE UNCHANGED <<tick, pos>>  BY <2>4 DEF Account!vars
  <2>5. \/ Poll
        \/ Taken
        \/ Done /\ pc[1] # "poll" /\ pos' = pos
        \/ UNCHANGED <<tick, pos>>
    BY PlacesAre DEF Next, ApplyAction, CancelQuote, Quote, Quoted, Refresh, NoTrade, Decide,
       Place, Placed, Take, Submitting, Goto
  <2>6. Taken => Done /\ pc[1] # "poll"  BY PlacesAre DEF Taken
  <2> QED  BY <2>1, <2>2, <2>3, <2>4, <2>5, <2>6
<1> QED  BY <1>1, <1>2, InductiveInvariant, PTL DEF Spec, ImplementsAccount, Account!Spec
=============================================================================
