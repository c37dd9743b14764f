---------------------------- MODULE HistoryProofs ----------------------------
(***************************************************************************)
(* Three components that keep a summary of all they were told: the         *)
(* strategy its window, the histogram its buckets, the page its state.     *)
(* For any input each summary is what the whole history says.              *)
(***************************************************************************)
EXTENDS MeanReversion, LatencyHistogram, Dashboard, ArithmeticLemmas, SequenceTheorems

\* What appending leaves of a sequence.
LEMMA Appended ==
    ASSUME NEW T, NEW s, NEW e, NEW t, s \in Seq(T), e \in T, t = Append(s, e)
    PROVE  /\ t \in Seq(T)
           /\ Len(s) \in Nat /\ Len(t) = Len(s) + 1
           /\ DOMAIN s = 1..Len(s) /\ DOMAIN t = 1..Len(s) + 1
           /\ \A i \in 1..Len(s) : t[i] = s[i] /\ s[i] \in T
           /\ t[Len(s) + 1] = e
<1>1. /\ t \in Seq(T) /\ Len(t) = Len(s) + 1
      /\ \A i \in 1..Len(s) : t[i] = s[i]
      /\ t[Len(s) + 1] = e
  BY AppendProperties
<1>2. Len(s) \in Nat /\ DOMAIN s = 1..Len(s) /\ DOMAIN t = 1..Len(t)
  BY <1>1, LenProperties
<1>3. \A i \in 1..Len(s) : s[i] \in T  BY <1>2, ElementOfSeq
<1> QED  BY <1>1, <1>2, <1>3

-----------------------------------------------------------------------------
(* The strategy.                                                           *)

Answers == {"none", "buy", "sell"}
TickRecord == [mid : Nat, answer : Answers]

\* The mids of a history.
MidOf(s) == [i \in 1..Len(s) |-> s[i].mid]

\* The window is the end of the history, its sum is that of the end, and the counter
\* is the number of ticks waited through.
WindowIsRecent ==
    /\ window \in Seq(Nat)
    /\ Len(window) = IF Len(seen) < Window THEN Len(seen) ELSE Window
    /\ \A i \in 1..Len(window) : window[i] = seen[Len(seen) - Len(window) + i].mid

SumIsRecent ==
    sum = SumFunctionOnSet(MidOf(seen), Len(seen) - Len(window) + 1..Len(seen))

StrategyInv ==
    /\ seen \in Seq(TickRecord)
    /\ WindowIsRecent /\ SumIsRecent
    /\ since_action = Waited(Len(seen) + 1)
    /\ AnswersFollowHistory

\* The sum of a stretch does not depend on what comes after it.
LEMMA StretchKept ==
    ASSUME NEW v, NEW w, NEW a \in Int, NEW b \in Int, \A i \in a..b : v[i] = w[i]
    PROVE  SumFunctionOnSet(v, a..b) = SumFunctionOnSet(w, a..b)
  BY FS_Interval, SumAgree

\* One more at its end.
LEMMA StretchGrows ==
    ASSUME NEW w, NEW a \in Int, NEW b \in Int, a <= b, \A i \in a..b : w[i] \in Int
    PROVE  SumFunctionOnSet(w, a..b) = SumFunctionOnSet(w, a..b - 1) + w[b]
<1> DEFINE R == (a..b) \ {b}
<1>1. IsFiniteSet(a..b) /\ b \in a..b  BY FS_Interval
<1>2. IsFiniteSet(R)  BY <1>1, FS_Subset
<1>3. SumFunctionOnSet(w, a..b) = w[b] + SumFunctionOnSet(w, R)  BY <1>1, SumRemove
<1>4. SumFunctionOnSet(w, R) \in Int  BY <1>2, SumInt
<1>5. w[b] \in Int  BY <1>1
<1>6. R = a..b - 1  OBVIOUS
<1> HIDE DEF R
<1>7. SumFunctionOnSet(w, a..b) = SumFunctionOnSet(w, R) + w[b]  BY <1>3, <1>4, <1>5
<1> QED  BY <1>6, <1>7

\* One less at its beginning.
LEMMA StretchShrinks ==
    ASSUME NEW w, NEW a \in Int, NEW b \in Int, a <= b, \A i \in a..b : w[i] \in Int
    PROVE  SumFunctionOnSet(w, a + 1..b) = SumFunctionOnSet(w, a..b) - w[a]
<1> DEFINE R == (a..b) \ {a}
<1>1. IsFiniteSet(a..b) /\ a \in a..b  BY FS_Interval
<1>2. IsFiniteSet(R)  BY <1>1, FS_Subset
<1>3. SumFunctionOnSet(w, a..b) = w[a] + SumFunctionOnSet(w, R)  BY <1>1, SumRemove
<1>4. SumFunctionOnSet(w, R) \in Int  BY <1>2, SumInt
<1>5. w[a] \in Int  BY <1>1
<1>6. R = a + 1..b  OBVIOUS
<1> HIDE DEF R
<1>7. SumFunctionOnSet(w, R) = SumFunctionOnSet(w, a..b) - w[a]  BY <1>3, <1>4, <1>5
<1> QED  BY <1>6, <1>7

\* slide keeps what the window and its sum say of the history: of one tick more, its
\* mid pushed and, if the window was full, the oldest mid taken from the sum.
LEMMA SlideKeepsWindow ==
    ASSUME WindowIsRecent, SumIsRecent, seen \in Seq(TickRecord),
           NEW mid \in Nat, Slide(mid), NEW what \in Answers, Answer(mid, what)
    PROVE  WindowIsRecent' /\ SumIsRecent'
<1> DEFINE n == Len(seen)
           l == Len(window)
<1>1. /\ seen' \in Seq(TickRecord)
      /\ n \in Nat /\ Len(seen') = n + 1
      /\ \A i \in 1..n : seen'[i] = seen[i] /\ seen[i].mid \in Nat
      /\ seen'[n + 1].mid = mid
  <2>1. seen' = Append(seen, [mid |-> mid, answer |-> what])  BY DEF Answer
  <2>2. seen \in Seq(TickRecord) /\ [mid |-> mid, answer |-> what] \in TickRecord  BY DEF TickRecord
  <2>3. /\ seen' \in Seq(TickRecord)
        /\ Len(seen) \in Nat /\ Len(seen') = Len(seen) + 1
        /\ \A i \in 1..Len(seen) : seen'[i] = seen[i] /\ seen[i] \in TickRecord
        /\ seen'[Len(seen) + 1] = [mid |-> mid, answer |-> what]
    BY <2>1, <2>2, Appended
  <2> QED  BY <2>3 DEF TickRecord
<1>2. /\ window \in Seq(Nat) /\ l \in Nat
      /\ l = IF n < Window THEN n ELSE Window
      /\ \A i \in 1..l : window[i] = seen[n - l + i].mid
  BY LenProperties DEF WindowIsRecent
<1>3. Window \in Nat \ {0}  BY ConfigAssumption
<1> DEFINE M == MidOf(seen)
           N == MidOf(seen')
<1>4. /\ \A i \in 1..n : M[i] = seen[i].mid /\ N[i] = seen[i].mid /\ M[i] \in Nat /\ N[i] \in Nat
      /\ N[n + 1] = mid
  BY <1>1 DEF MidOf
<1>5. sum = SumFunctionOnSet(M, n - l + 1..n)  BY DEF SumIsRecent
<1> HIDE DEF n, l, M, N
<1>6. SumFunctionOnSet(N, n - l + 1..n) = sum
  <2>1. \A i \in n - l + 1..n : i \in 1..n  BY <1>1, <1>2, <1>3
  <2>2. \A i \in n - l + 1..n : N[i] = M[i]  BY <1>4, <2>1
  <2> QED  BY <1>1, <1>2, <1>5, <2>2, StretchKept
<1>7. SumFunctionOnSet(N, n - l + 1..n + 1) = sum + mid
  <2>1. \A i \in n - l + 1..n + 1 : i \in 1..n \/ i = n + 1  BY <1>1, <1>2, <1>3
  <2>2. \A i \in n - l + 1..n + 1 : N[i] \in Int  BY <1>4, <2>1
  <2>3. n - l + 1 \in Int /\ n + 1 \in Int /\ n - l + 1 <= n + 1 /\ (n + 1) - 1 = n
    BY <1>1, <1>2
  <2> QED  BY <1>4, <1>6, <2>2, <2>3, StretchGrows
<1>8. CASE l = Window
  <2>1. window' = Append(Tail(window), mid) /\ sum' = sum + mid - window[1]
    BY <1>8 DEF Slide, l
  <2>2. window # <<>>  BY <1>2, <1>3, <1>8 DEF l
  <2>3. /\ Tail(window) \in Seq(Nat) /\ Len(Tail(window)) = l - 1
        /\ \A i \in 1..l - 1 : Tail(window)[i] = window[i + 1]
    BY <1>2, <2>2, HeadTailProperties DEF l
  <2>4. /\ window' \in Seq(Nat) /\ Len(window') = l
        /\ \A i \in 1..l - 1 : window'[i] = window[i + 1]
        /\ window'[l] = mid
    BY <1>2, <2>1, <2>3, AppendProperties
  <2>5. n >= Window  BY <1>1, <1>2, <1>3, <1>8
  <2>6. WindowIsRecent'
    <3>1. ASSUME NEW i \in 1..l PROVE window'[i] = seen'[(n + 1) - l + i].mid
      <4>1. CASE i = l
        <5>1. \A x, y \in Nat : (x + 1) - y + y = x + 1  OBVIOUS
        <5>2. (n + 1) - l + l = n + 1  BY <1>1, <1>2, <5>1
        <5> QED  BY <1>1, <2>4, <4>1, <5>2
      <4>2. CASE i # l
        <5>1. i \in 1..l - 1 /\ i + 1 \in 1..l /\ n - l + (i + 1) \in 1..n
              /\ n - l + (i + 1) = (n + 1) - l + i
          BY <1>1, <1>2, <1>3, <1>8, <2>5, <3>1, <4>2
        <5>2. window'[i] = seen[n - l + (i + 1)].mid  BY <1>2, <2>4, <5>1
        <5> QED  BY <1>1, <5>1, <5>2
      <4> QED  BY <4>1, <4>2
    <3>2. l = IF n + 1 < Window THEN n + 1 ELSE Window  BY <1>1, <1>3, <1>8, <2>5
    <3> QED  BY <1>1, <2>4, <3>1, <3>2 DEF WindowIsRecent
  <2>7. window[1] = N[n - l + 1]
    <3>1. 1 \in 1..l /\ n - l + 1 \in 1..n  BY <1>1, <1>2, <1>3, <1>8, <2>5
    <3> QED  BY <1>2, <1>4, <2>3, <3>1
  <2>8. SumFunctionOnSet(N, (n + 1) - l + 1..n + 1) = sum + mid - window[1]
    <3>1. \A i \in n - l + 1..n + 1 : i \in 1..n \/ i = n + 1  BY <1>1, <1>2, <1>3
    <3>2. \A i \in n - l + 1..n + 1 : N[i] \in Int  BY <1>4, <3>1
    <3>3. /\ n - l + 1 \in Int /\ n + 1 \in Int /\ n - l + 1 <= n + 1
          /\ (n + 1) - l + 1 = (n - l + 1) + 1
      BY <1>1, <1>2
    <3>4. SumFunctionOnSet(N, (n - l + 1) + 1..n + 1)
             = SumFunctionOnSet(N, n - l + 1..n + 1) - N[n - l + 1]
      BY <3>2, <3>3, StretchShrinks
    <3>5. SumFunctionOnSet(N, (n - l + 1) + 1..n + 1) = sum + mid - window[1]
      <4>1. SumFunctionOnSet(N, n - l + 1..n) \in Int
        <5>1. IsFiniteSet(n - l + 1..n)
          <6>1. n \in Int /\ n - l + 1 \in Int  BY <1>1, <3>3
          <6> QED  BY <6>1, FS_Interval
        <5>2. \A i \in n - l + 1..n : i \in n - l + 1..n + 1  BY <1>1, <3>3
        <5> QED  BY <3>2, <5>1, <5>2, SumInt
      <4>2. sum \in Int  BY <1>6, <4>1
      <4>3. window[1] \in Int  BY <2>7, <3>2, <3>3
      <4> QED  BY <1>7, <2>7, <3>4, <4>2, <4>3
    <3> QED  BY <3>3, <3>5, Zenon
  <2>9. SumIsRecent'  BY <1>1, <2>1, <2>4, <2>8 DEF SumIsRecent, N
  <2> QED  BY <2>6, <2>9
<1>9. CASE l # Window
  <2>1. window' = Append(window, mid) /\ sum' = sum + mid
    BY <1>9 DEF Slide, l
  <2>2. n < Window /\ l = n  BY <1>2, <1>9
  <2>3. /\ window' \in Seq(Nat) /\ Len(window') = l + 1
        /\ \A i \in 1..l : window'[i] = window[i]
        /\ window'[l + 1] = mid
    BY <1>2, <2>1, AppendProperties DEF l
  <2>4. WindowIsRecent'
    <3>1. ASSUME NEW i \in 1..l + 1 PROVE window'[i] = seen'[(n + 1) - (l + 1) + i].mid
      <4>1. CASE i = l + 1  BY <1>1, <1>2, <2>2, <2>3, <4>1
      <4>2. CASE i # l + 1
        <5>1. i \in 1..l /\ n - l + i \in 1..n /\ n - l + i = (n + 1) - (l + 1) + i
          BY <1>1, <1>2, <2>2, <3>1, <4>2
        <5> QED  BY <1>1, <1>2, <2>3, <5>1
      <4> QED  BY <4>1, <4>2
    <3>2. l + 1 = IF n + 1 < Window THEN n + 1 ELSE Window  BY <1>1, <1>3, <2>2
    <3> QED  BY <1>1, <2>3, <3>1, <3>2 DEF WindowIsRecent
  <2>5. (n + 1) - (l + 1) + 1 = n - l + 1  BY <1>1, <1>2
  <2>6. SumIsRecent'  BY <1>1, <1>7, <2>1, <2>3, <2>5 DEF SumIsRecent, N
  <2> QED  BY <2>4, <2>6
<1> QED  BY <1>8, <1>9

\* What the history says of a tick is not changed by later ones.
LEMMA PastKept ==
    ASSUME seen \in Seq(TickRecord), NEW e \in TickRecord, seen' = Append(seen, e),
           NEW k \in 1..Len(seen) + 1
    PROVE  /\ Waited(k)' = Waited(k)
           /\ k <= Len(seen) /\ k >= Window => Reference(k)' = Reference(k)
<1>1. /\ Len(seen) \in Nat
      /\ \A i \in 1..Len(seen) : seen'[i] = seen[i]
  BY Appended
<1>2. Window \in Nat \ {0}  BY ConfigAssumption
<1>3. Waited(k)' = Waited(k)
  <2>1. \A j \in Window..k - 1 : \A i \in j..k - 1 : seen'[i] = seen[i]
    <3>1. \A j \in Window..k - 1 : \A i \in j..k - 1 : i \in 1..Len(seen)  BY <1>1, <1>2
    <3> QED  BY <1>1, <3>1
  <2>2. {j \in Window..k - 1 : \A i \in j..k - 1 : ~(seen'[i].answer # "none")}
          = {j \in Window..k - 1 : \A i \in j..k - 1 : ~(seen[i].answer # "none")}
    BY <2>1
  <2> QED  BY <2>2, Zenon DEF Waited, Acted
<1>4. ASSUME k <= Len(seen), k >= Window PROVE Reference(k)' = Reference(k)
  <2> DEFINE recent == (k - Window + 1)..k
  <2>1. \A i \in recent : seen'[i] = seen[i]
    <3>1. \A i \in recent : i \in 1..Len(seen)  BY <1>1, <1>2, <1>4
    <3> QED  BY <1>1, <3>1
  <2>2. [i \in recent |-> seen'[i].mid] = [i \in recent |-> seen[i].mid]  BY <2>1
  <2>3. seen'[k] = seen[k]  BY <1>1, <1>4
  <2> QED  BY <2>2, <2>3, Zenon DEF Reference
<1> QED  BY <1>3, <1>4

\* The ticks waited through after one more.
LEMMA WaitedNext ==
    ASSUME seen' \in Seq(TickRecord), NEW k \in 1..Len(seen')
    PROVE  Waited(k + 1)' = IF Acted(k)' THEN 0
                            ELSE IF k >= Window THEN Waited(k)' + 1 ELSE Waited(k)'
<1>1. Window \in Nat \ {0} /\ k \in Nat \ {0}
  <2>1. Len(seen') \in Nat  BY LenProperties
  <2> QED  BY <2>1, ConfigAssumption
<1> DEFINE W(n) == {j \in Window..n - 1 : \A i \in j..n - 1 : ~Acted(i)'}
<1>2. IsFiniteSet(W(k)) /\ IsFiniteSet(Window..k - 1)
  <2>1. k - 1 \in Int /\ Window \in Int  BY <1>1
  <2>2. IsFiniteSet(Window..k - 1)  BY <2>1, FS_Interval
  <2>3. W(k) \subseteq Window..k - 1  OBVIOUS
  <2> QED  BY <2>2, <2>3, FS_Subset
<1>3. Waited(k)' = Cardinality(W(k)) /\ Waited(k + 1)' = Cardinality(W(k + 1))  BY DEF Waited
<1>4. CASE Acted(k)'
  <2>1. \A j \in Window..(k + 1) - 1 : k \in j..(k + 1) - 1  BY <1>1
  <2>2. W(k + 1) = {}  BY <1>4, <2>1
  <2> QED  BY <1>3, <1>4, <2>2, FS_EmptySet
<1>5. CASE ~Acted(k)' /\ k >= Window
  <2>1. W(k + 1) = W(k) \cup {k}
    <3>1. ASSUME NEW j \in W(k + 1) PROVE j \in W(k) \cup {k}
      <4>1. j \in Window..k /\ \A i \in j..k - 1 : i \in j..(k + 1) - 1  BY <1>1
      <4> QED  BY <1>1, <4>1
    <3>2. ASSUME NEW j \in W(k) PROVE j \in W(k + 1)
      <4>1. j \in Window..(k + 1) - 1  BY <1>1
      <4>2. \A i \in j..(k + 1) - 1 : i \in j..k - 1 \/ i = k  BY <1>1, <4>1
      <4> QED  BY <1>5, <4>1, <4>2
    <3>3. k \in W(k + 1)
      <4>1. k \in Window..(k + 1) - 1  BY <1>1, <1>5
      <4>2. \A i \in k..(k + 1) - 1 : i = k  BY <1>1
      <4> QED  BY <1>5, <4>1, <4>2
    <3> QED  BY <3>1, <3>2, <3>3
  <2>2. k \notin W(k)  BY <1>1
  <2> HIDE DEF W
  <2>3. Cardinality(W(k + 1)) = Cardinality(W(k)) + 1  BY <1>2, <2>1, <2>2, FS_AddElement
  <2> QED  BY <1>3, <1>5, <2>3
<1>6. CASE ~Acted(k)' /\ k < Window
  <2>1. W(k) = {} /\ W(k + 1) = {}  BY <1>1, <1>6
  <2>2. Waited(k + 1)' = Waited(k)'  BY <1>3, <2>1
  <2>3. ~(k >= Window)  BY <1>1, <1>6
  <2> QED  BY <1>6, <2>2, <2>3
<1> QED  BY <1>1, <1>4, <1>5, <1>6

\* An empty window of an empty history.
LEMMA InitStrategy == StrategyInit => StrategyInv
<1> SUFFICES ASSUME StrategyInit PROVE StrategyInv  OBVIOUS
<1>1. seen = <<>> /\ window = <<>> /\ sum = 0 /\ since_action = 0  BY DEF StrategyInit
<1>2. Len(seen) = 0 /\ Len(window) = 0 /\ seen \in Seq(TickRecord) /\ window \in Seq(Nat)
      /\ DOMAIN seen = {}
  BY <1>1
<1>3. Window \in Nat \ {0}  BY ConfigAssumption
<1>4. WindowIsRecent  BY <1>2, <1>3 DEF WindowIsRecent
<1>5. SumIsRecent
  <2>1. Len(seen) - Len(window) + 1..Len(seen) = {}  BY <1>2
  <2> QED  BY <1>1, <2>1, SumEmpty DEF SumIsRecent
<1>6. Waited(Len(seen) + 1) = 0
  <2>1. {j \in Window..Len(seen) + 1 - 1 : \A i \in j..Len(seen) + 1 - 1 : ~Acted(i)} = {}
    BY <1>2, <1>3
  <2> QED  BY <2>1, FS_EmptySet DEF Waited
<1>7. AnswersFollowHistory  BY <1>2 DEF AnswersFollowHistory
<1> QED  BY <1>1, <1>2, <1>4, <1>5, <1>6, <1>7 DEF StrategyInv

\* The code's deviation is at a threshold, or beyond it, exactly where the mid is.
LEMMA SignalOpposes ==
    ASSUME NEW mid \in Int, NEW total \in Int
    PROVE  Signal(mid, total) = Opposing(mid, total)
<1>1. PICK a \in Int : a = mid * Window  BY ConfigAssumption
<1>2. PICK e \in Int : e = EntryBps * total  BY ConfigAssumption
<1>3. (10000 - EntryBps) * total = 10000 * total - e  BY <1>2, ConfigAssumption
<1>4. (10000 + EntryBps) * total = 10000 * total + e  BY <1>2, ConfigAssumption
<1>5. Deviation(mid, total) = 10000 * a - 10000 * total  BY <1>1 DEF Deviation
<1>6. Deviation(mid, total) <= -e <=> 10000 * a <= (10000 - EntryBps) * total
  BY <1>3, <1>5
<1>7. Deviation(mid, total) >= e <=> 10000 * a >= (10000 + EntryBps) * total
  BY <1>4, <1>5
<1> QED  BY <1>1, <1>2, <1>6, <1>7 DEF Signal, Opposing

\* With a full window, the sum it keeps is that of the mids the history ends with.
LEMMA SumIsReference ==
    ASSUME WindowIsRecent', SumIsRecent', seen' \in Seq(TickRecord), NEW n \in Nat,
           n = Len(seen'), n >= Window
    PROVE  Reference(n)' = Signal(seen'[n].mid, sum')
<1> DEFINE recent == (n - Window + 1)..n
           w == [i \in recent |-> seen'[i].mid]
<1>1. n \in Nat /\ Window \in Nat \ {0}  BY ConfigAssumption
<1>2. Len(window') = Window  BY <1>1 DEF WindowIsRecent
<1>3. sum' = SumFunctionOnSet(MidOf(seen'), recent)  BY <1>2 DEF SumIsRecent
<1>4. SumFunction(w) = SumFunctionOnSet(w, recent)  BY DEF SumFunction
<1>5. \A i \in recent : w[i] = MidOf(seen')[i]
  <2>1. \A i \in recent : i \in 1..n  BY <1>1
  <2> QED  BY <2>1 DEF MidOf
<1>6. n - Window + 1 \in Int  BY <1>1
<1>7. SumFunctionOnSet(w, recent) = SumFunctionOnSet(MidOf(seen'), recent)
  <2> HIDE DEF w
  <2> QED  BY <1>1, <1>5, <1>6, StretchKept
<1>8. SumFunction(w) = sum'  BY <1>3, <1>4, <1>7
<1>9. \A i \in 1..n : seen'[i].mid \in Nat
  <2>1. PICK s \in Seq(TickRecord) : s = seen'  OBVIOUS
  <2>2. \A i \in 1..n : s[i] \in TickRecord  BY <2>1, ElementOfSeq
  <2> QED  BY <2>1, <2>2 DEF TickRecord
<1>10. sum' \in Int
  <2>1. \A i \in recent : i \in 1..n /\ w[i] = seen'[i].mid  BY <1>1
  <2>2. \A i \in recent : w[i] \in Int  BY <1>9, <2>1
  <2>3. IsFiniteSet(recent)
    <3>1. n \in Int  BY <1>1
    <3> QED  BY <1>6, <3>1, FS_Interval
  <2> HIDE DEF w
  <2> QED  BY <1>4, <1>8, <2>2, <2>3, SumInt
<1>11. seen'[n].mid \in Int
  <2>1. n \in 1..n  BY <1>1
  <2> QED  BY <1>9, <2>1
<1>12. Opposing(seen'[n].mid, sum') = Signal(seen'[n].mid, sum')
  BY <1>10, <1>11, SignalOpposes
<1>13. Reference(n)' = Opposing(seen'[n].mid, SumFunction(w))  BY DEF Reference, Opposing
<1> QED  BY <1>8, <1>12, <1>13

\* One tick answered.
LEMMA OnTickStep ==
    ASSUME StrategyInv, NEW mid \in Mids, OnTick(mid), mid # 0
    PROVE  StrategyInv'
<1>1. mid \in Nat  BY MidsAssumption
<1>14. PICK n \in Nat : n = Len(seen)  BY LenProperties DEF StrategyInv
<1>2. seen \in Seq(TickRecord) /\ WindowIsRecent /\ SumIsRecent /\ AnswersFollowHistory
      /\ since_action = Waited(n + 1) /\ n \in Nat /\ Window \in Nat \ {0}
  BY <1>14, ConfigAssumption DEF StrategyInv
<1>3. Slide(mid) /\ (Filling(mid) \/ Cooling(mid) \/ Cooled(mid))  BY DEF OnTick
<1>4. PICK what \in Answers :
          /\ Answer(mid, what)
          /\ \/ Len(window') < Window /\ what = "none" /\ since_action' = since_action
             \/ /\ Len(window') = Window /\ since_action < CoolDown /\ what = "none"
                /\ since_action' = since_action + 1
             \/ /\ Len(window') = Window /\ since_action >= CoolDown
                /\ what = Signal(mid, sum')
                /\ since_action' = IF what = "none" THEN since_action + 1 ELSE 0
  <2>1. Signal(mid, sum') \in Answers  BY DEF Signal, Answers
  <2>2. "none" \in Answers  BY DEF Answers
  <2>3. CASE Filling(mid)  BY <2>2, <2>3 DEF Filling
  <2>4. CASE Cooling(mid)  BY <2>2, <2>4 DEF Cooling
  <2>5. CASE Cooled(mid)  BY <2>1, <2>5 DEF Cooled
  <2> QED  BY <1>3, <2>3, <2>4, <2>5
<1> DEFINE e == [mid |-> mid, answer |-> what]
<1>5. e \in TickRecord /\ seen' = Append(seen, e)  BY <1>1, <1>4 DEF TickRecord, Answer
<1>6. WindowIsRecent' /\ SumIsRecent'  BY <1>1, <1>2, <1>3, <1>4, SlideKeepsWindow
<1>7. /\ seen' \in Seq(TickRecord) /\ Len(seen') = n + 1
      /\ DOMAIN seen = 1..n /\ DOMAIN seen' = 1..n + 1
      /\ \A i \in 1..n : seen'[i] = seen[i]
      /\ seen'[n + 1] = e
  BY <1>2, <1>5, <1>14, Appended
<1>8. \A k \in 1..n + 1 : /\ Waited(k)' = Waited(k)
                          /\ k <= n /\ k >= Window => Reference(k)' = Reference(k)
  BY <1>2, <1>5, <1>14, PastKept
<1>9. Len(window') = IF n + 1 < Window THEN n + 1 ELSE Window
  BY <1>6, <1>7 DEF WindowIsRecent
<1>10. n + 1 \in 1..n + 1 /\ since_action = Waited(n + 1)'  BY <1>2, <1>8
<1>11. Acted(n + 1)' <=> what # "none"  BY <1>7 DEF Acted
<1>12. since_action' = Waited((n + 1) + 1)'
  <2>1. Waited((n + 1) + 1)' = IF Acted(n + 1)' THEN 0
                              ELSE IF n + 1 >= Window THEN Waited(n + 1)' + 1 ELSE Waited(n + 1)'
    BY <1>7, <1>10, WaitedNext
  <2> QED  BY <1>2, <1>4, <1>9, <1>10, <1>11, <2>1
<1>13. AnswersFollowHistory'
  <2>1. ASSUME NEW k \in 1..n
        PROVE  seen'[k].answer = IF k >= Window /\ Waited(k)' >= CoolDown
                                 THEN Reference(k)' ELSE "none"
    <3>1. k \in 1..n + 1 /\ k <= n  BY <1>2
    <3>2. seen[k].answer = IF k >= Window /\ Waited(k) >= CoolDown THEN Reference(k) ELSE "none"
      BY <1>2, <1>7 DEF AnswersFollowHistory
    <3> QED  BY <1>7, <1>8, <3>1, <3>2
  <2>2. n + 1 >= Window => Reference(n + 1)' = Signal(mid, sum')
    <3>1. n + 1 >= Window => Reference(n + 1)' = Signal(seen'[n + 1].mid, sum')
      BY <1>6, <1>7, SumIsReference
    <3> QED  BY <1>7, <3>1
  <2>3. what = IF n + 1 >= Window /\ Waited(n + 1)' >= CoolDown THEN Reference(n + 1)' ELSE "none"
    <3>1. since_action \in Nat
      <4>1. n + 1 - 1 \in Int /\ Window \in Int  BY <1>2
      <4>2. IsFiniteSet(Window..n + 1 - 1)  BY <4>1, FS_Interval
      <4> QED  BY <1>2, <4>2, FS_Subset, FS_CardinalityType DEF Waited
    <3>2. n + 1 < Window <=> ~(n + 1 >= Window)  BY <1>2
    <3>3. since_action < CoolDown <=> ~(since_action >= CoolDown)  BY <3>1, ConfigAssumption
    <3> QED  BY <1>2, <1>4, <1>9, <1>10, <2>2, <3>2, <3>3
  <2>4. \A k \in 1..n + 1 : k \in 1..n \/ k = n + 1  BY <1>2
  <2> QED  BY <1>7, <2>1, <2>3, <2>4 DEF AnswersFollowHistory
<1> QED  BY <1>6, <1>7, <1>12, <1>13 DEF StrategyInv

\* The window, its sum and the counter are what the history says, and the answers were.
THEOREM StrategyInvariant == StrategySpec => []StrategyInv
<1>1. StrategyInv /\ [StrategyNext]_strategyVars => StrategyInv'
  <2>1. ASSUME StrategyInv, UNCHANGED strategyVars PROVE StrategyInv'
    BY <2>1 DEF strategyVars, StrategyInv, WindowIsRecent, SumIsRecent, AnswersFollowHistory,
                Waited, Acted, Reference
  <2>2. ASSUME StrategyInv, NEW mid \in Mids, OnTick(mid) PROVE StrategyInv'
    BY <2>1, <2>2, OnTickStep DEF OnTick
  <2> QED  BY <2>1, <2>2 DEF StrategyNext
<1> QED  BY InitStrategy, <1>1, PTL DEF StrategySpec

\* For every window, entry threshold, cool-down and sequence of mids, the running sum and
\* the counter give the answers that the history of all mids gives, the thresholds included.
THEOREM AnswersExact == StrategySpec => []AnswersFollowHistory
<1>1. StrategyInv => AnswersFollowHistory  BY DEF StrategyInv
<1> QED  BY <1>1, StrategyInvariant, PTL

-----------------------------------------------------------------------------
(* The histogram.                                                          *)

\* g doubles from 1 on, n times.
Doubles(g, n) == g = [b \in 0..n |-> IF b = 0 THEN 1 ELSE 2 * g[b - 1]]

\* There is such a function, for every n: the recursion of Pow2 is well founded.
LEMMA DoublesExist ==
    ASSUME NEW n \in Nat
    PROVE  \E g : Doubles(g, n)
<1> DEFINE Bad == {m \in Nat : ~\E g : Doubles(g, m)}
<1>1. SUFFICES ASSUME Bad # {} PROVE FALSE  BY Zenon
<1>2. PICK m \in Bad : \A k \in Bad : m <= k  BY <1>1, SmallestElement
<1>3. m # 0
  <2> SUFFICES ASSUME m = 0 PROVE FALSE  OBVIOUS
  <2> DEFINE z == [b \in 0..0 |-> 1]
  <2>1. Doubles(z, 0)  BY DEF Doubles
  <2> QED  BY <1>2, <2>1
<1>4. m \in Nat /\ m - 1 \in Nat /\ m - 1 \notin Bad
  <2>1. m \in Nat  BY <1>2
  <2> HIDE DEF Bad
  <2> QED  BY <1>2, <1>3, <2>1
<1>5. PICK g : Doubles(g, m - 1)  BY <1>4
<1> DEFINE Step(f, b) == IF b = 0 THEN 1 ELSE 2 * f[b - 1]
           h == [b \in 0..m |-> IF b < m THEN g[b] ELSE 2 * g[m - 1]]
<1>6. \A b \in 0..m - 1 : g[b] = Step(g, b)  BY <1>5 DEF Doubles
<1>7. \A b \in 0..m : h[b] = Step(h, b)
  <2> SUFFICES ASSUME NEW b \in 0..m PROVE h[b] = Step(h, b)  OBVIOUS
  <2>1. b # 0 => b - 1 \in 0..m /\ b - 1 < m /\ h[b - 1] = g[b - 1]  BY <1>4
  <2>2. Step(h, b) = Step(g, b)  BY <2>1
  <2>3. CASE b < m  BY <1>4, <1>6, <2>2, <2>3
  <2>4. CASE b = m  BY <1>3, <1>4, <2>2, <2>4
  <2> QED  BY <1>4, <2>3, <2>4
<1>8. Doubles(h, m)
  <2> DEFINE f == [b \in 0..m |-> Step(h, b)]
  <2>1. \A b \in 0..m : h[b] = f[b]  BY <1>7
  <2>2. h = f  BY <2>1
  <2> QED  BY <2>2 DEF Doubles
<1> QED  BY <1>2, <1>8

\* The powers up to kBuckets, each from the one before.
LEMMA PowerEquation ==
    ASSUME NEW b \in 0..kBuckets
    PROVE  Pow2[b] = IF b = 0 THEN 1 ELSE 2 * Pow2[b - 1]
<1>1. \E g : Doubles(g, kBuckets)  BY DoublesExist, WordAssumption
<1>2. Pow2 = CHOOSE g : Doubles(g, kBuckets)  BY Zenon DEF Pow2, Doubles
<1>3. Doubles(Pow2, kBuckets)  BY <1>1, <1>2, Zenon
<1> QED  BY <1>3, Zenon DEF Doubles

\* They are positive numbers.
LEMMA PowerType ==
    ASSUME NEW b \in 0..kBuckets
    PROVE  Pow2[b] \in Nat \ {0}
<1> DEFINE Bad == {n \in 0..kBuckets : Pow2[n] \notin Nat \ {0}}
<1>1. SUFFICES ASSUME Bad # {} PROVE FALSE  BY Zenon
<1>2. PICK m \in Bad : \A k \in Bad : m <= k
  <2>1. Bad \subseteq Nat  OBVIOUS
  <2> QED  BY <1>1, <2>1, SmallestElement
<1>3. Pow2[m] = IF m = 0 THEN 1 ELSE 2 * Pow2[m - 1]  BY <1>2, PowerEquation
<1>4. m # 0  BY <1>2, <1>3
<1>5. m - 1 \in 0..kBuckets /\ m - 1 \notin Bad
  <2>1. m \in 0..kBuckets  BY <1>2
  <2>2. m - 1 \in 0..kBuckets  BY <1>4, <2>1, WordAssumption
  <2> HIDE DEF Bad
  <2> QED  BY <1>2, <2>1, <2>2, WordAssumption
<1> QED  BY <1>2, <1>3, <1>4, <1>5

\* They grow, at least twofold.
LEMMA PowerGrows ==
    ASSUME NEW a \in 0..kBuckets, NEW b \in 0..kBuckets, a < b
    PROVE  2 * Pow2[a] <= Pow2[b]
<1> DEFINE Bad == {n \in 0..kBuckets : a < n /\ ~(2 * Pow2[a] <= Pow2[n])}
<1>1. SUFFICES ASSUME Bad # {} PROVE FALSE  BY Zenon
<1>2. PICK m \in Bad : \A k \in Bad : m <= k
  <2>1. Bad \subseteq Nat  OBVIOUS
  <2> QED  BY <1>1, <2>1, SmallestElement
<1>3. m \in 0..kBuckets /\ a < m /\ m - 1 \in 0..kBuckets  BY <1>2, WordAssumption
<1>4. Pow2[m] = 2 * Pow2[m - 1]  BY <1>3, PowerEquation
<1>5. Pow2[m - 1] \in Nat \ {0} /\ Pow2[a] \in Nat \ {0}  BY <1>3, PowerType
<1>6. m - 1 = a  
  <2>1. m - 1 \notin Bad
    <3> HIDE DEF Bad
    <3> QED  BY <1>2, <1>3
  <2> QED  BY <1>2, <1>3, <1>4, <1>5, <2>1
<1> QED  BY <1>2, <1>4, <1>5, <1>6

-----------------------------------------------------------------------------
(* The buckets.                                                            *)

\* The values of bucket b.
Band(b) == LowerEdge(b)..Pow2[b + 1] - 1

\* A word holds some values and there are some buckets, finitely many of both.
LEMMA WordFacts ==
    /\ Word \in Nat \ {0} /\ kBuckets \in Nat \ {0}
    /\ Pow2[0] = 1 /\ Pow2[1] = 2
    /\ Values \subseteq Nat /\ IsFiniteSet(Values)
    /\ Buckets \subseteq Nat /\ IsFiniteSet(Buckets)
    /\ 0 \in Values /\ Word - 1 \in Values
<1>1. kBuckets \in Nat \ {0} /\ 0 \in 0..kBuckets /\ 1 \in 0..kBuckets /\ kBuckets \in 0..kBuckets
  BY WordAssumption
<1>2. Word \in Nat \ {0}  BY <1>1, PowerType DEF Word
<1>3. Pow2[0] = 1 /\ Pow2[1] = 2 * Pow2[1 - 1]  BY <1>1, PowerEquation
<1>4. IsFiniteSet(Values)
  <2>1. 0 \in Int /\ Word - 1 \in Int  BY <1>2
  <2> QED  BY <2>1, FS_Interval DEF Values
<1>5. IsFiniteSet(Buckets)
  <2>1. 0 \in Int /\ kBuckets - 1 \in Int  BY <1>1
  <2> QED  BY <2>1, FS_Interval DEF Buckets
<1> QED  BY <1>1, <1>2, <1>3, <1>4, <1>5 DEF Values, Buckets

\* A bucket's band lies between two powers, inside a word.
LEMMA BandFacts ==
    ASSUME NEW b \in Buckets
    PROVE  /\ b \in 0..kBuckets /\ b + 1 \in 0..kBuckets
           /\ LowerEdge(b) \in Nat /\ Pow2[b] \in Nat \ {0} /\ Pow2[b + 1] = 2 * Pow2[b]
           /\ Pow2[b + 1] <= Word
           /\ Band(b) \subseteq Values
<1>1. b \in 0..kBuckets /\ b + 1 \in 0..kBuckets /\ b + 1 # 0 /\ b \in Nat
  BY WordFacts DEF Buckets
<1>2. Pow2[b] \in Nat \ {0} /\ Pow2[b + 1] = 2 * Pow2[(b + 1) - 1]
  BY <1>1, PowerType, PowerEquation
<1>3. (b + 1) - 1 = b  BY <1>1
<1>4. Pow2[b + 1] <= Word
  <2>1. kBuckets \in 0..kBuckets  BY WordFacts
  <2>2. CASE b + 1 = kBuckets  BY <1>2, <1>3, <2>2 DEF Word
  <2>3. CASE b + 1 < kBuckets
    <3>1. 2 * Pow2[b + 1] <= Pow2[kBuckets]  BY <1>1, <2>1, <2>3, PowerGrows
    <3> QED  BY <1>2, <1>3, <3>1, WordFacts DEF Word
  <2> QED  BY <1>1, <2>2, <2>3, WordFacts
<1> QED  BY <1>1, <1>2, <1>3, <1>4, WordFacts DEF Band, LowerEdge, Values

\* The bands do not meet.
LEMMA BandsApart ==
    ASSUME NEW a \in Buckets, NEW b \in Buckets, a < b
    PROVE  /\ Band(a) \cap Band(b) = {}
           /\ \A v \in Band(a), u \in Band(b) : v < u
<1>1. a + 1 <= b /\ b # 0 /\ a \in Nat /\ b \in Nat  BY WordFacts
<1>2. Pow2[a + 1] <= Pow2[b]
  <2>1. CASE a + 1 = b  BY <2>1, BandFacts
  <2>2. CASE a + 1 < b
    <3>1. a + 1 \in 0..kBuckets /\ b \in 0..kBuckets /\ Pow2[a + 1] \in Nat /\ Pow2[b] \in Nat
      BY BandFacts
    <3>2. 2 * Pow2[a + 1] <= Pow2[b]  BY <2>2, <3>1, PowerGrows
    <3> QED  BY <3>1, <3>2
  <2> QED  BY <1>1, <2>1, <2>2
<1>3. Pow2[a + 1] \in Nat /\ Pow2[b] \in Nat  BY BandFacts
<1>4. \A v \in Band(a), u \in Band(b) : v < u
  BY <1>1, <1>2, <1>3, BandFacts DEF Band, LowerEdge
<1>5. Band(a) \subseteq Nat
  <2>1. Band(a) \subseteq Values /\ Values \subseteq Nat  BY BandFacts, WordFacts
  <2> QED  BY <2>1
<1>6. \A v \in Band(a) : ~(v < v)  BY <1>5
<1> QED  BY <1>4, <1>6

\* Up to the band of b the bands leave out no value.
LEMMA BandsCover ==
    ASSUME NEW b \in Buckets, NEW v \in 0..Pow2[b + 1] - 1
    PROVE  \E a \in 0..b : v \in Band(a)
<1> DEFINE S == {a \in Buckets : v <= Pow2[a + 1] - 1}
<1>1. b \in S /\ S \subseteq Nat
  <2>1. Pow2[b + 1] \in Nat  BY BandFacts
  <2>2. v <= Pow2[b + 1] - 1  BY <2>1
  <2> QED  BY <2>2, WordFacts
<1>2. PICK m \in S : \A k \in S : m <= k
  <2>1. S # {} /\ S \subseteq Nat  BY <1>1
  <2> HIDE DEF S
  <2> QED  BY <2>1, SmallestElement
<1>3. m \in Buckets /\ v <= Pow2[m + 1] - 1 /\ m <= b /\ m \in Nat  BY <1>1, <1>2
<1>4. m # 0 => Pow2[m] <= v
  <2> SUFFICES ASSUME m # 0, ~(Pow2[m] <= v) PROVE FALSE  OBVIOUS
  <2>1. m - 1 \in Buckets /\ (m - 1) + 1 = m  BY <1>3, WordFacts DEF Buckets
  <2>2. Pow2[m] \in Nat  BY <1>3, BandFacts
  <2>3. v \in Int  OBVIOUS
  <2>4. v <= Pow2[(m - 1) + 1] - 1  BY <2>1, <2>2, <2>3
  <2>5. m - 1 \in S  BY <2>1, <2>4
  <2>6. m <= m - 1  BY <1>2, <2>5
  <2> QED  BY <1>3, <2>6
<1>5. v \in Band(m)  BY <1>3, <1>4, BandFacts DEF Band, LowerEdge
<1> QED  BY <1>1, <1>3, <1>5

\* bucket_of finds the band of a value: the place of its highest bit.
LEMMA BucketOfFacts ==
    ASSUME NEW ns \in Values
    PROVE  /\ BucketOf(ns) \in Buckets
           /\ ns \in Band(BucketOf(ns))
           /\ \A b \in Buckets : b # BucketOf(ns) => ns \notin Band(b)
<1> DEFINE odd == IF ns % 2 = 0 THEN ns + 1 ELSE ns
           top == kBuckets - 1
           Fits(b) == Pow2[b] <= odd /\ odd < Pow2[b + 1]
<1>1. top \in Buckets /\ Pow2[top + 1] = Word /\ ns \in 0..Pow2[top + 1] - 1
  <2>1. top \in Buckets /\ top + 1 = kBuckets  BY WordFacts DEF Buckets
  <2> QED  BY <2>1 DEF Values, Word
<1>2. PICK a \in 0..top : ns \in Band(a)
  <2> HIDE DEF top
  <2> QED  BY <1>1, BandsCover
<1>3. a \in Buckets  BY <1>2 DEF Buckets
<1>4. \A b \in Buckets : Fits(b) <=> ns \in Band(b)
  <2> SUFFICES ASSUME NEW b \in Buckets PROVE Fits(b) <=> ns \in Band(b)  OBVIOUS
  <2>1. ns \in Nat /\ b \in Nat  BY WordFacts
  <2>2. PICK p \in Nat \ {0} : Pow2[b] = p /\ Pow2[b + 1] = 2 * p  BY BandFacts
  <2>3. CASE b = 0
    <3>1. p = 1  BY <2>2, <2>3, WordFacts
    <3>2. Band(b) = 0..2 * p - 1  BY <2>2, <2>3 DEF Band, LowerEdge
    <3> QED  BY <2>1, <2>2, <3>1, <3>2
  <2>4. CASE b # 0
    <3>1. b - 1 \in 0..kBuckets /\ b \in 0..kBuckets  BY <2>1, <2>4, WordAssumption DEF Buckets
    <3>2. Pow2[b - 1] \in Nat /\ p = 2 * Pow2[b - 1]  BY <2>2, <2>4, <3>1, PowerType, PowerEquation
    <3>3. Band(b) = p..2 * p - 1  BY <2>2, <2>4 DEF Band, LowerEdge
    <3>4. PICK h \in Nat : p = 2 * h  BY <3>2
    <3> QED  BY <2>1, <2>2, <3>3, <3>4
  <2> QED  BY <2>3, <2>4
<1>5. BucketOf(ns) = CHOOSE b \in Buckets : Fits(b)  BY DEF BucketOf
<1>6. BucketOf(ns) \in Buckets /\ Fits(BucketOf(ns))
  <2>1. \E b \in Buckets : Fits(b)  BY <1>2, <1>3, <1>4
  <2> HIDE DEF Fits
  <2> QED  BY <1>5, <2>1, Zenon
<1>7. ns \in Band(BucketOf(ns))  BY <1>4, <1>6
<1>8. ASSUME NEW b \in Buckets, b # BucketOf(ns), ns \in Band(b) PROVE FALSE
  <2>1. PICK c \in Buckets : c = BucketOf(ns)  BY <1>6
  <2>2. b < c \/ c < b  BY <1>8, <2>1, WordFacts
  <2> QED  BY <1>7, <1>8, <2>1, <2>2, BandsApart
<1> QED  BY <1>6, <1>7, <1>8

-----------------------------------------------------------------------------
(* What the histogram keeps.                                               *)

HistogramTypes ==
    /\ buckets_ \in [Buckets -> Nat]
    /\ count_ \in Nat /\ sum_ \in Int /\ min_ \in Values /\ max_ \in Values
    /\ samples \in [Values -> Nat]

Weighted == [v \in Values |-> v * samples[v]]

HistogramInv ==
    /\ HistogramTypes
    /\ count_ = SumFunctionOnSet(samples, Values)
    /\ sum_ = SumFunctionOnSet(Weighted, Values) % Word
    /\ \A b \in Buckets : buckets_[b] = SumFunctionOnSet(samples, Band(b))
    /\ Seen = {} => min_ = Word - 1 /\ max_ = 0
    /\ Seen # {} => min_ \in Seen /\ max_ \in Seen
    /\ \A v \in Seen : min_ <= v /\ v <= max_

\* A sum of zeros is zero.
LEMMA SumZero ==
    ASSUME NEW w, NEW S, IsFiniteSet(S), \A x \in S : w[x] = 0
    PROVE  SumFunctionOnSet(w, S) = 0
<1>1. SumFunctionOnSet(w, S) \in Nat  BY SumNat
<1>2. SumFunctionOnSet(w, S) <= Cardinality(S) * 0
  <2>1. \A x \in S : w[x] \in 0..0  OBVIOUS
  <2>2. 0 \in Nat  OBVIOUS
  <2> QED  BY <2>1, <2>2, SumBound
<1>3. Cardinality(S) * 0 = 0  BY FS_CardinalityType
<1> QED  BY <1>1, <1>2, <1>3

\* Every sum over no samples is 0.
LEMMA Cleared ==
    ASSUME NEW h, h = [v \in Values |-> 0]
    PROVE  /\ SumFunctionOnSet(h, Values) = 0
           /\ SumFunctionOnSet([v \in Values |-> v * h[v]], Values) = 0
           /\ \A b \in Buckets : SumFunctionOnSet(h, Band(b)) = 0
           /\ {v \in Values : h[v] > 0} = {}
<1>1. \A v \in Values : h[v] = 0 /\ v * h[v] = 0  BY WordFacts
<1>2. SumFunctionOnSet(h, Values) = 0  BY <1>1, WordFacts, SumZero
<1>3. SumFunctionOnSet([v \in Values |-> v * h[v]], Values) = 0
  <2>1. PICK w : w = [v \in Values |-> v * h[v]]  OBVIOUS
  <2>2. \A v \in Values : w[v] = 0  BY <1>1, <2>1
  <2>3. SumFunctionOnSet(w, Values) = 0  BY <2>2, WordFacts, SumZero
  <2> QED  BY <2>1, <2>3
<1>4. ASSUME NEW b \in Buckets PROVE SumFunctionOnSet(h, Band(b)) = 0
  <2>1. Band(b) \subseteq Values  BY BandFacts
  <2>2. IsFiniteSet(Band(b))  BY <2>1, WordFacts, FS_Subset
  <2> QED  BY <1>1, <2>1, <2>2, SumZero
<1>5. {v \in Values : h[v] > 0} = {}  BY <1>1
<1> QED  BY <1>2, <1>3, <1>4, <1>5

\* A new histogram.
LEMMA InitHistogram ==
    ASSUME HistogramInit
    PROVE  HistogramInv
<1>1. samples = [v \in Values |-> 0]  BY DEF HistogramInit
<1>2. HistogramTypes  BY WordFacts DEF HistogramInit, HistogramTypes, Empty
<1>3. Seen = {} /\ \A b \in Buckets : SumFunctionOnSet(samples, Band(b)) = 0
  BY <1>1, Cleared DEF Seen
<1>4. SumFunctionOnSet(samples, Values) = 0 /\ SumFunctionOnSet(Weighted, Values) = 0
  BY <1>1, Cleared DEF Weighted
<1>5. 0 % Word = 0  BY WordFacts
<1> QED  BY <1>2, <1>3, <1>4, <1>5 DEF HistogramInit, HistogramInv, Empty

\* reset() forgets the samples and everything computed of them.
LEMMA ResetStep ==
    ASSUME reset
    PROVE  HistogramInv'
<1>1. samples' = [v \in Values |-> 0]  BY DEF reset
<1>2. HistogramTypes'  BY WordFacts DEF reset, Become, HistogramTypes, Empty
<1>3. Seen' = {} /\ \A b \in Buckets : SumFunctionOnSet(samples', Band(b)) = 0
  BY <1>1, Cleared DEF Seen
<1>4. SumFunctionOnSet(samples', Values) = 0 /\ SumFunctionOnSet(Weighted', Values) = 0
  BY <1>1, Cleared DEF Weighted
<1>5. 0 % Word = 0  BY WordFacts
<1> QED  BY <1>2, <1>3, <1>4, <1>5 DEF reset, Become, HistogramInv, Empty

\* add() puts the sample into its bucket, and count, sum, minimum and maximum follow.
LEMMA AddStep ==
    ASSUME HistogramInv, NEW ns \in Values, add(ns)
    PROVE  HistogramInv'
<1>1. /\ samples \in [Values -> Nat] /\ buckets_ \in [Buckets -> Nat] /\ count_ \in Nat
      /\ sum_ \in Int /\ min_ \in Values /\ max_ \in Values
  BY DEF HistogramInv, HistogramTypes
<1>2. /\ samples' = [samples EXCEPT ![ns] = @ + 1]
      /\ buckets_' = [buckets_ EXCEPT ![BucketOf(ns)] = @ + 1]
      /\ count_' = count_ + 1 /\ sum_' = (sum_ + ns) % Word
      /\ min_' = (IF ns < min_ THEN ns ELSE min_)
      /\ max_' = (IF ns > max_ THEN ns ELSE max_)
  BY DEF add, Become
<1>3. ns \in Nat /\ IsFiniteSet(Values) /\ Word \in Nat \ {0} /\ Values \subseteq Nat
  BY WordFacts
<1>4. samples' \in [Values -> Nat] /\ samples'[ns] = samples[ns] + 1
      /\ \A v \in Values \ {ns} : samples'[v] = samples[v]
  BY <1>1, <1>2
<1>5. HistogramTypes'
  <2>1. buckets_' \in [Buckets -> Nat]  BY <1>1, <1>2, BucketOfFacts
  <2>2. sum_' \in Int  BY <1>1, <1>2, <1>3, ModBound
  <2> QED  BY <1>1, <1>2, <1>4, <2>1, <2>2 DEF HistogramTypes
<1>6. ASSUME NEW S, IsFiniteSet(S), S \subseteq Values
      PROVE  /\ SumFunctionOnSet(samples, S) \in Int
             /\ SumFunctionOnSet(samples', S)
                  = SumFunctionOnSet(samples, S) + (IF ns \in S THEN 1 ELSE 0)
  <2>1. SumFunctionOnSet(samples, S) \in Int  BY <1>1, <1>6, SumInt
  <2>2. CASE ns \in S
    <3>1. SumFunctionOnSet(samples', S)
            = SumFunctionOnSet(samples, S) - samples[ns] + samples'[ns]
      BY <1>1, <1>4, <1>6, <2>2, SumChange
    <3> QED  BY <1>1, <1>4, <2>1, <2>2, <3>1
  <2>3. CASE ns \notin S
    <3>1. SumFunctionOnSet(samples', S) = SumFunctionOnSet(samples, S)
      BY <1>4, <1>6, <2>3, SumAgree
    <3> QED  BY <2>1, <2>3, <3>1
  <2> QED  BY <2>2, <2>3, <2>1
<1>7. count_' = SumFunctionOnSet(samples', Values)
  <2>1. SumFunctionOnSet(samples', Values) = SumFunctionOnSet(samples, Values) + 1
    BY <1>3, <1>6
  <2> QED  BY <1>2, <2>1 DEF HistogramInv
<1>8. ASSUME NEW b \in Buckets PROVE buckets_'[b] = SumFunctionOnSet(samples', Band(b))
  <2>1. Band(b) \subseteq Values /\ IsFiniteSet(Band(b))  BY <1>3, BandFacts, FS_Subset
  <2>2. SumFunctionOnSet(samples', Band(b))
          = SumFunctionOnSet(samples, Band(b)) + (IF ns \in Band(b) THEN 1 ELSE 0)
        /\ SumFunctionOnSet(samples, Band(b)) \in Int
    BY <1>6, <2>1
  <2>3. buckets_[b] = SumFunctionOnSet(samples, Band(b))  BY DEF HistogramInv
  <2>4. ns \in Band(b) <=> b = BucketOf(ns)  BY BucketOfFacts
  <2>5. buckets_'[b] = buckets_[b] + (IF b = BucketOf(ns) THEN 1 ELSE 0)
    BY <1>1, <1>2, BucketOfFacts
  <2> QED  BY <2>2, <2>3, <2>4, <2>5
<1>9. sum_' = SumFunctionOnSet(Weighted', Values) % Word
  <2>1. PICK w : w = Weighted  OBVIOUS
  <2>2. PICK u : u = Weighted'  OBVIOUS
  <2>3. \A v \in Values : w[v] = v * samples[v] /\ u[v] = v * samples'[v]
    BY <2>1, <2>2 DEF Weighted
  <2>4. \A v \in Values : w[v] \in Int /\ u[v] \in Int
    <3>1. \A m, n \in Nat : m * n \in Int  OBVIOUS
    <3> QED  BY <1>1, <1>3, <1>4, <2>3, <3>1
  <2>5. \A v \in Values \ {ns} : u[v] = w[v]  BY <1>4, <2>3
  <2>6. u[ns] = w[ns] + ns
    <3>1. \A m, n \in Nat : m * (n + 1) = m * n + m  OBVIOUS
    <3> QED  BY <1>1, <1>3, <1>4, <2>3, <3>1
  <2>7. SumFunctionOnSet(u, Values) = SumFunctionOnSet(w, Values) - w[ns] + u[ns]
    BY <1>3, <2>4, <2>5, SumChange
  <2>8. SumFunctionOnSet(w, Values) \in Int  BY <1>3, <2>4, SumInt
  <2>9. SumFunctionOnSet(u, Values) = SumFunctionOnSet(w, Values) + ns
    BY <1>3, <2>4, <2>6, <2>7, <2>8
  <2>10. sum_ = SumFunctionOnSet(w, Values) % Word  BY <2>1 DEF HistogramInv
  <2>11. ((SumFunctionOnSet(w, Values) % Word) + ns) % Word
           = (SumFunctionOnSet(w, Values) + ns) % Word
    <3>1. PICK s \in Int : s = SumFunctionOnSet(w, Values)  BY <2>8
    <3>2. ns \in Int  BY <1>3
    <3>3. ((s % Word) + ns) % Word = (s + ns) % Word  BY <1>3, <3>2, ModPlus
    <3> QED  BY <3>1, <3>3
  <2> QED  BY <1>2, <2>2, <2>9, <2>10, <2>11
<1>10. Seen' = Seen \cup {ns} /\ Seen \subseteq Nat
  <2>1. samples'[ns] > 0 /\ \A v \in Values \ {ns} : samples'[v] > 0 <=> samples[v] > 0
    BY <1>1, <1>4
  <2>2. Seen = {v \in Values : samples[v] > 0} /\ Seen' = {v \in Values : samples'[v] > 0}
    BY DEF Seen
  <2> QED  BY <1>3, <2>1, <2>2
<1>11. /\ Seen = {} => min_ = Word - 1 /\ max_ = 0
       /\ Seen # {} => min_ \in Seen /\ max_ \in Seen
       /\ \A v \in Seen : min_ <= v /\ v <= max_
  BY DEF HistogramInv
<1>12. ns <= Word - 1 /\ min_ \in Nat /\ max_ \in Nat  BY <1>1, <1>3 DEF Values
<1>13. min_' \in Seen' /\ max_' \in Seen'
  <2>1. CASE Seen = {}
    <3>1. min_' = ns /\ max_' = ns  BY <1>2, <1>3, <1>11, <1>12, <2>1
    <3> QED  BY <1>10, <3>1
  <2>2. CASE Seen # {}  BY <1>2, <1>10, <1>11, <2>2
  <2> QED  BY <2>1, <2>2
<1>14. \A v \in Seen' : min_' <= v /\ v <= max_'
  BY <1>2, <1>3, <1>10, <1>11, <1>12
<1> QED  BY <1>5, <1>7, <1>8, <1>9, <1>10, <1>13, <1>14 DEF HistogramInv

\* Every bucket counts the samples of its band, and count, modular sum, minimum and
\* maximum are those of the samples, after any calls of add and reset.
THEOREM HistogramInvariant == HistogramSpec => []HistogramInv
<1>1. HistogramInit => HistogramInv  BY InitHistogram
<1>2. HistogramInv /\ [HistogramNext]_histogramVars => HistogramInv'
  <2> SUFFICES ASSUME HistogramInv, [HistogramNext]_histogramVars PROVE HistogramInv'
    OBVIOUS
  <2>1. CASE reset  BY <2>1, ResetStep
  <2>2. ASSUME NEW ns \in Values, add(ns) PROVE HistogramInv'  BY <2>2, AddStep
  <2>3. CASE UNCHANGED histogramVars
    BY <2>3 DEF histogramVars, HistogramInv, HistogramTypes, Weighted, Seen
  <2> QED  BY <2>1, <2>2, <2>3 DEF HistogramNext
<1> QED  BY <1>1, <1>2, PTL DEF HistogramSpec

-----------------------------------------------------------------------------
(* What is read from it.                                                   *)

\* Samples up to a value, as numbers that grow with it.
LEMMA UpToFacts ==
    ASSUME HistogramInv
    PROVE  /\ UpTo(Word - 1) = count_
           /\ \A v \in Values : UpTo(v) \in Nat
           /\ \A u, v \in Values : u <= v => UpTo(u) <= UpTo(v)
<1>1. samples \in [Values -> Nat] /\ IsFiniteSet(Values) /\ Values \subseteq Nat
  BY WordFacts DEF HistogramInv, HistogramTypes
<1>2. UpTo(Word - 1) = count_  BY DEF HistogramInv, UpTo, Values
<1>3. ASSUME NEW v \in Values
      PROVE  0..v \subseteq Values /\ IsFiniteSet(0..v) /\ UpTo(v) \in Nat
  <2>1. 0..v \subseteq Values  BY WordFacts DEF Values
  <2>2. IsFiniteSet(0..v)  BY <1>1, <2>1, FS_Subset
  <2>3. \A x \in 0..v : samples[x] \in Nat  BY <1>1, <2>1
  <2>4. SumFunctionOnSet(samples, 0..v) \in Nat  BY <2>2, <2>3, SumNat
  <2> QED  BY <2>1, <2>2, <2>4 DEF UpTo
<1>4. ASSUME NEW u \in Values, NEW v \in Values, u <= v PROVE UpTo(u) <= UpTo(v)
  <2>1. 0..u \subseteq 0..v  BY <1>1, <1>4
  <2>2. IsFiniteSet(0..v) /\ \A x \in 0..v : samples[x] \in Nat  BY <1>1, <1>3
  <2>3. SumFunctionOnSet(samples, 0..u) <= SumFunctionOnSet(samples, 0..v)
    BY <2>1, <2>2, SumOfPart
  <2> QED  BY <2>3 DEF UpTo
<1> QED  BY <1>2, <1>3, <1>4

\* There is a sample when the count is not 0.
LEMMA CountSeen ==
    ASSUME HistogramInv
    PROVE  count_ = 0 <=> Seen = {}
<1>1. /\ samples \in [Values -> Nat] /\ IsFiniteSet(Values)
      /\ count_ = SumFunctionOnSet(samples, Values)
  BY WordFacts DEF HistogramInv, HistogramTypes
<1>2. ASSUME Seen = {} PROVE count_ = 0
  <2>1. \A v \in Values : samples[v] = 0  BY <1>1, <1>2 DEF Seen
  <2> QED  BY <1>1, <2>1, SumZero
<1>3. ASSUME NEW v \in Seen PROVE count_ # 0
  <2>1. v \in Values /\ samples[v] > 0  BY DEF Seen
  <2>2. SumFunctionOnSet(samples, Values)
          = samples[v] + SumFunctionOnSet(samples, Values \ {v})
    BY <1>1, <2>1, SumRemove
  <2>3. IsFiniteSet(Values \ {v})  BY <1>1, FS_Subset
  <2>4. SumFunctionOnSet(samples, Values \ {v}) \in Nat  BY <1>1, <2>3, SumNat
  <2> QED  BY <1>1, <2>1, <2>2, <2>4
<1> QED  BY <1>2, <1>3

\* The reference of the four accumulators, from the invariant.
LEMMA AccumulatorsKept ==
    ASSUME HistogramInv
    PROVE  AccumulatorsExact
<1>1. /\ samples \in [Values -> Nat] /\ IsFiniteSet(Values) /\ Values \subseteq Nat
      /\ min_ \in Values /\ max_ \in Values
  BY WordFacts DEF HistogramInv, HistogramTypes
<1>2. count_ = UpTo(Word - 1)  BY UpToFacts
<1>3. sum_ = SumFunction([v \in Seen |-> v * samples[v]]) % Word
  <2>1. PICK w : w = Weighted  OBVIOUS
  <2>2. PICK u : u = [v \in Seen |-> v * samples[v]]  OBVIOUS
  <2>3. PICK Rest : Rest = Values \ Seen  OBVIOUS
  <2>4. \A v \in Values : w[v] \in Int
    <3>1. \A m, n \in Nat : m * n \in Int  OBVIOUS
    <3> QED  BY <1>1, <2>1, <3>1 DEF Weighted
  <2>5. \A v \in Seen : u[v] = w[v]  BY <2>1, <2>2 DEF Weighted, Seen
  <2>6. \A v \in Rest : w[v] = 0
    <3>1. \A v \in Rest : v \in Nat /\ samples[v] = 0 /\ v \in Values
      BY <1>1, <2>3 DEF Seen
    <3>2. \A n \in Nat : n * 0 = 0  OBVIOUS
    <3> QED  BY <2>1, <3>1, <3>2 DEF Weighted
  <2>7. /\ Seen \cup Rest = Values /\ Seen \cap Rest = {}
        /\ Seen \subseteq Values /\ Rest \subseteq Values
    BY <2>3 DEF Seen
  <2>8. IsFiniteSet(Seen) /\ IsFiniteSet(Rest)  BY <1>1, <2>7, FS_Subset
  <2>9. SumFunctionOnSet(w, Values) = SumFunctionOnSet(w, Seen) + SumFunctionOnSet(w, Rest)
    <3>1. PICK S : S = Seen  OBVIOUS
    <3>2. /\ S \cup Rest = Values /\ S \cap Rest = {} /\ IsFiniteSet(S) /\ IsFiniteSet(Rest)
          /\ \A v \in S \cup Rest : w[v] \in Int
      BY <2>4, <2>7, <2>8, <3>1
    <3>3. SumFunctionOnSet(w, S \cup Rest) = SumFunctionOnSet(w, S) + SumFunctionOnSet(w, Rest)
      BY <3>2, SumUnion
    <3> QED  BY <3>1, <3>2, <3>3
  <2>10. SumFunctionOnSet(w, Rest) = 0  BY <2>6, <2>8, SumZero
  <2>11. SumFunctionOnSet(w, Seen) \in Int  BY <2>4, <2>7, <2>8, SumInt
  <2>12. SumFunctionOnSet(u, Seen) = SumFunctionOnSet(w, Seen)  BY <2>5, <2>8, SumAgree
  <2>13. SumFunction(u) = SumFunctionOnSet(u, Seen)
    <3>1. DOMAIN u = Seen  BY <2>2
    <3> QED  BY <3>1 DEF SumFunction
  <2>14. SumFunctionOnSet(w, Values) = SumFunction(u)
    BY <2>9, <2>10, <2>11, <2>12, <2>13
  <2>15. sum_ = SumFunctionOnSet(w, Values) % Word  BY <2>1 DEF HistogramInv
  <2> QED  BY <2>2, <2>14, <2>15
<1>4. /\ minimum = IF Seen = {} THEN 0 ELSE Min(Seen)
      /\ maximum = IF Seen = {} THEN 0 ELSE Max(Seen)
  <2>1. CASE Seen = {}  BY <2>1, CountSeen DEF minimum, maximum
  <2>2. CASE Seen # {}
    <3>1. /\ min_ \in Seen /\ max_ \in Seen /\ Seen \subseteq Nat
          /\ \A v \in Seen : min_ <= v /\ max_ >= v
      BY <1>1, <2>2 DEF HistogramInv, Seen
    <3>2. Min(Seen) = min_
      <4>1. Min(Seen) \in Seen /\ \A v \in Seen : Min(Seen) <= v
        BY <3>1, Zenon DEF Min
      <4>2. PICK m : m = Min(Seen)  OBVIOUS
      <4>3. m \in Nat /\ min_ \in Nat /\ m <= min_ /\ min_ <= m  BY <3>1, <4>1, <4>2
      <4> QED  BY <4>2, <4>3
    <3>3. Max(Seen) = max_
      <4>1. Max(Seen) \in Seen /\ \A v \in Seen : Max(Seen) >= v
        BY <3>1, Zenon DEF Max
      <4>2. PICK m : m = Max(Seen)  OBVIOUS
      <4>3. m \in Nat /\ max_ \in Nat /\ m >= max_ /\ max_ >= m  BY <3>1, <4>1, <4>2
      <4> QED  BY <4>2, <4>3
    <3> QED  BY <2>2, <3>2, <3>3, CountSeen DEF minimum, maximum
  <2> QED  BY <2>1, <2>2
<1> QED  BY <1>2, <1>3, <1>4 DEF AccumulatorsExact

\* For every word size and every sequence of samples: count, sum (modulo the word),
\* minimum and maximum of the histogram are exactly those of the samples.
THEOREM HistogramExact == HistogramSpec => []AccumulatorsExact
  BY HistogramInvariant, AccumulatorsKept, PTL

\* The running sum of the buckets is the number of samples below the next edge.
LEMMA RunningSum ==
    ASSUME HistogramInv, NEW b \in Buckets
    PROVE  SumFunctionOnSet(buckets_, 0..b) = UpTo(Pow2[b + 1] - 1)
<1>1. samples \in [Values -> Nat] /\ IsFiniteSet(Values)
  BY WordFacts DEF HistogramInv, HistogramTypes
<1>2. PICK I : I = 0..b  OBVIOUS
<1>3. PICK P : P = [i \in I |-> Band(i)]  OBVIOUS
<1>4. PICK V : V = 0..Pow2[b + 1] - 1  OBVIOUS
<1>5. I \subseteq Buckets /\ IsFiniteSet(I)
  <2>1. I \subseteq Buckets  BY <1>2, WordFacts DEF Buckets
  <2> QED  BY <2>1, WordFacts, FS_Subset
<1>6. V \subseteq Values
  <2>1. Pow2[b + 1] \in Nat /\ Pow2[b + 1] <= Word  BY BandFacts
  <2> QED  BY <1>4, <2>1, WordFacts DEF Values
<1>7. Merged(P, I) = V
  <2>1. ASSUME NEW i \in I, NEW v \in Band(i) PROVE v \in V
    <3>1. i \in Buckets /\ i \in Nat /\ b \in Nat /\ i <= b  BY <1>2, <1>5, WordFacts
    <3>2. Pow2[i + 1] \in Nat /\ Pow2[b + 1] \in Nat /\ LowerEdge(i) \in Nat
      BY <3>1, BandFacts
    <3>3. Pow2[i + 1] <= Pow2[b + 1]
      <4>1. CASE i = b  BY <3>2, <4>1
      <4>2. CASE i < b
        <5>1. i + 1 \in 0..kBuckets /\ b + 1 \in 0..kBuckets  BY <3>1, BandFacts
        <5>2. i + 1 < b + 1  BY <3>1, <4>2
        <5>3. 2 * Pow2[i + 1] <= Pow2[b + 1]  BY <5>1, <5>2, PowerGrows
        <5> QED  BY <3>2, <5>3
      <4> QED  BY <3>1, <4>1, <4>2
    <3> QED  BY <1>4, <3>2, <3>3 DEF Band
  <2>2. ASSUME NEW v \in V PROVE \E i \in I : v \in Band(i)
    BY <1>2, <1>4, BandsCover
  <2>3. Merged(P, I) = UNION {Band(i) : i \in I}
    BY <1>3 DEF Merged
  <2> QED  BY <2>1, <2>2, <2>3
<1>8. IsFiniteSet(Merged(P, I))  BY <1>1, <1>6, <1>7, FS_Subset
<1>9. \A i, j \in I : i # j => P[i] \cap P[j] = {}
  <2> SUFFICES ASSUME NEW i \in I, NEW j \in I, i # j PROVE Band(i) \cap Band(j) = {}
    BY <1>3
  <2>1. i \in Buckets /\ j \in Buckets /\ (i < j \/ j < i)  BY <1>5, WordFacts
  <2> QED  BY <2>1, BandsApart
<1>10. \A x \in Merged(P, I) : samples[x] \in Int  BY <1>1, <1>6, <1>7
<1>11. \A i \in I : buckets_[i] = SumFunctionOnSet(samples, P[i])
  BY <1>3, <1>5 DEF HistogramInv
<1>12. SumFunctionOnSet(buckets_, I) = SumFunctionOnSet(samples, Merged(P, I))
  BY <1>5, <1>8, <1>9, <1>10, <1>11, SumOfParts
<1> QED  BY <1>2, <1>4, <1>7, <1>12 DEF UpTo

\* The rank is a place nearest to p * count.
LEMMA RankNearest ==
    ASSUME count_ \in Nat \ {0}, NEW p \in Int \X (Nat \ {0}), 0 < p[1], p[1] < p[2]
    PROVE  LET Off(r) == LET d == r * p[2] - p[1] * count_ IN IF d < 0 THEN -d ELSE d
           IN  Rank(p) \in 1..count_ /\ \A q \in 1..count_ : Off(Rank(p)) <= Off(q)
<1>1. PICK a \in Nat, d \in Nat \ {0}, n \in Nat \ {0} :
          a = p[1] /\ d = p[2] /\ n = count_ /\ 0 < a /\ a < d
  OBVIOUS
<1>2. PICK x \in Nat : x = a * n  OBVIOUS
<1>3. 2 * a * n = 2 * x  BY <1>2
<1>4. PICK t \in Int : t = (2 * x + d) \div (2 * d)  OBVIOUS
<1>5. 2 * (t * d) <= 2 * x + d /\ 2 * x + d < 2 * (t * d) + 2 * d /\ t * d \in Int
  <2>1. PICK y \in Int, e \in Nat \ {0} : y = 2 * x + d /\ e = 2 * d  OBVIOUS
  <2>2. y = e * (y \div e) + (y % e) /\ y % e \in 0..e - 1  BY DivMod
  <2>3. y \div e = t  BY <1>4, <2>1
  <2>4. e * t = 2 * (t * d)  BY <2>1
  <2> QED  BY <2>1, <2>2, <2>3, <2>4
<1>6. n * d \in Int /\ x <= n * d - n
  <2>1. d - 1 \in Nat /\ a <= d - 1  BY <1>1
  <2>2. a * n <= (d - 1) * n  BY <2>1
  <2>3. (d - 1) * n = n * d - n  OBVIOUS
  <2> QED  BY <1>2, <2>2, <2>3
<1>7. \A k, l \in Int : k < l => k * d + d <= l * d /\ k * d \in Int /\ l * d \in Int
  <2> SUFFICES ASSUME NEW k \in Int, NEW l \in Int, k < l PROVE k * d + d <= l * d
    OBVIOUS
  <2>1. PICK j \in Nat : l = k + 1 + j  
    <3>1. l - k - 1 \in Nat /\ l = k + 1 + (l - k - 1)  OBVIOUS
    <3> QED  BY <3>1
  <2>2. l * d = k * d + d + j * d /\ j * d \in Nat /\ k * d \in Int  BY <2>1
  <2> QED  BY <2>2
<1>8. 0 <= t
  <2> SUFFICES ASSUME t < 0 PROVE FALSE  OBVIOUS
  <2>1. t * d + d <= 0 * d  BY <1>7
  <2> QED  BY <1>5, <2>1
<1>9. t <= n
  <2> SUFFICES ASSUME n < t PROVE FALSE  OBVIOUS
  <2>1. n * d + d <= t * d  BY <1>7
  <2> QED  BY <1>5, <1>6, <2>1
<1>10. PICK r \in 1..n : r = (IF t = 0 THEN 1 ELSE t)  BY <1>8, <1>9
<1>11. Rank(p) = r
  <2>1. Rank(p) = LET u == (2 * x + d) \div (2 * d)
                  IN IF u = 0 THEN 1 ELSE IF u > n THEN n ELSE u
    BY <1>1, <1>3 DEF Rank
  <2> QED  BY <1>4, <1>9, <1>10, <2>1
<1> DEFINE Away(q) == LET e == q * d - x IN IF e < 0 THEN -e ELSE e
<1>12. ASSUME NEW q \in 1..n PROVE Away(r) <= Away(q)
  <2>1. q * d \in Int /\ r * d \in Int  OBVIOUS
  <2>2. CASE t = 0
    <3>1. r = 1 /\ 1 * d = d /\ t * d = 0  BY <1>10, <2>2
    <3>2. q = 1 \/ d + d <= q * d
      <4>1. 1 < q => 1 * d + d <= q * d  BY <1>7
      <4> QED  BY <3>1, <4>1
    <3> QED  BY <1>5, <2>1, <3>1, <3>2
  <2>3. CASE t # 0
    <3>1. r = t  BY <1>10, <2>3
    <3>2. q < r => q * d + d <= r * d  BY <1>7
    <3>3. r < q => r * d + d <= q * d  BY <1>7
    <3> QED  BY <1>5, <2>1, <3>1, <3>2, <3>3
  <2> QED  BY <2>2, <2>3
<1>13. \A q \in Int : q * p[2] - p[1] * count_ = q * d - x  BY <1>1, <1>2
<1> QED  BY <1>1, <1>11, <1>12, <1>13

\* The sample at place r lies in the first band at whose end r samples are reached.
LEMMA SampleInBand ==
    ASSUME HistogramInv, NEW r \in 1..count_,
           NEW m \in Buckets, UpTo(Pow2[m + 1] - 1) >= r,
           \A b \in Buckets : b < m => ~(UpTo(Pow2[b + 1] - 1) >= r)
    PROVE  Min({v \in Values : UpTo(v) >= r}) \in Band(m)
<1> DEFINE S == {v \in Values : UpTo(v) >= r}
           e == Pow2[m + 1] - 1
<1>1. e \in Values /\ e \in Nat
  <2>1. Pow2[m + 1] \in Nat /\ Pow2[m] \in Nat \ {0} /\ Pow2[m + 1] = 2 * Pow2[m]
        /\ Pow2[m + 1] <= Word
    BY BandFacts
  <2> QED  BY <2>1, WordFacts DEF Values
<1>2. e \in S  BY <1>1
<1>3. S \subseteq Nat  BY WordFacts
<1>4. PICK s \in S : \A k \in S : s <= k
  <2> HIDE DEF S
  <2> QED  BY <1>2, <1>3, SmallestElement
<1>5. Min(S) \in S /\ \A k \in S : Min(S) <= k
  <2> HIDE DEF S
  <2> QED  BY <1>4, Zenon DEF Min
<1>6. PICK x \in Values : x = Min(S) /\ UpTo(x) >= r /\ x <= e  BY <1>2, <1>5
<1>7. x \in Nat  BY WordFacts
<1>8. m # 0 => Pow2[m] <= x
  <2> SUFFICES ASSUME m # 0, ~(Pow2[m] <= x) PROVE FALSE  OBVIOUS
  <2>1. m - 1 \in Buckets /\ (m - 1) + 1 = m /\ m - 1 < m  BY WordFacts DEF Buckets
  <2>2. Pow2[m] \in Nat \ {0} /\ Pow2[m] - 1 \in Values
    <3>1. Pow2[m] \in Nat \ {0} /\ Pow2[m + 1] = 2 * Pow2[m] /\ Pow2[m + 1] <= Word
      BY BandFacts
    <3> QED  BY <3>1, WordFacts DEF Values
  <2>3. ~(UpTo(Pow2[m] - 1) >= r)  BY <2>1
  <2>4. x <= Pow2[m] - 1  BY <1>7, <2>2
  <2>5. UpTo(x) <= UpTo(Pow2[m] - 1)  BY <2>2, <2>4, UpToFacts
  <2>6. UpTo(x) \in Nat /\ UpTo(Pow2[m] - 1) \in Nat  BY <2>2, UpToFacts
  <2> QED  BY <1>6, <2>3, <2>5, <2>6
<1>9. x \in Band(m)  BY <1>1, <1>6, <1>7, <1>8, BandFacts DEF Band, LowerEdge
<1> QED  BY <1>6, <1>9

\* A percentile between the extremes is the lower edge of that band.
LEMMA PercentileEdge ==
    ASSUME HistogramInv, count_ # 0, NEW p \in Int \X (Nat \ {0}), 0 < p[1], p[1] < p[2]
    PROVE  \E m \in Buckets :
              /\ percentile_ns(p) = LowerEdge(m)
              /\ Min({v \in Values : UpTo(v) >= Rank(p)}) \in Band(m)
<1>1. count_ \in Nat \ {0}  BY DEF HistogramInv, HistogramTypes
<1>2. Rank(p) \in 1..count_  BY <1>1, RankNearest
<1> DEFINE Reached == {b \in Buckets : SumFunctionOnSet(buckets_, 0..b) >= Rank(p)}
<1>3. \A b \in Buckets : b \in Reached <=> UpTo(Pow2[b + 1] - 1) >= Rank(p)
  BY RunningSum
<1>4. Reached # {}
  <2>1. kBuckets - 1 \in Buckets /\ (kBuckets - 1) + 1 = kBuckets  BY WordFacts DEF Buckets
  <2>2. UpTo(Pow2[(kBuckets - 1) + 1] - 1) = count_  BY <2>1, UpToFacts DEF Word
  <2> QED  BY <1>1, <1>2, <1>3, <2>1, <2>2
<1>5. Reached \subseteq Buckets /\ Reached \subseteq Nat  BY WordFacts
<1>6. percentile_ns(p) = LowerEdge(Min(Reached))
  <2>1. ~(p[1] <= 0) /\ ~(p[1] >= p[2])  OBVIOUS
  <2> QED  BY <1>4, <2>1 DEF percentile_ns
<1> HIDE DEF Reached
<1>7. PICK s \in Reached : \A k \in Reached : s <= k  BY <1>4, <1>5, SmallestElement
<1>8. Min(Reached) \in Reached /\ \A k \in Reached : Min(Reached) <= k
  BY <1>7, Zenon DEF Min
<1>9. PICK m \in Buckets : m = Min(Reached)  BY <1>5, <1>8
<1>10. UpTo(Pow2[m + 1] - 1) >= Rank(p)  BY <1>3, <1>8, <1>9
<1>11. \A b \in Buckets : b < m => ~(UpTo(Pow2[b + 1] - 1) >= Rank(p))
  <2> SUFFICES ASSUME NEW b \in Buckets, b < m, b \in Reached PROVE FALSE  BY <1>3
  <2>1. m <= b /\ m \in Nat /\ b \in Nat  BY <1>5, <1>8, <1>9
  <2> QED  BY <2>1
<1>12. Min({v \in Values : UpTo(v) >= Rank(p)}) \in Band(m)
  BY <1>2, <1>10, <1>11, SampleInBand
<1> QED  BY <1>6, <1>9, <1>12

\* The percentiles that percentile() answers, from the invariant.
LEMMA PercentileKept ==
    ASSUME HistogramInv
    PROVE  PercentileOfNearestRank
<1> SUFFICES ASSUME NEW p \in Percents
             PROVE  LET Off(r) == LET d == r * p[2] - p[1] * count_ IN IF d < 0 THEN -d ELSE d
                        edge == percentile_ns(p)
                        Sample(r) == Min({v \in Values : UpTo(v) >= r})
                    IN  /\ p[1] <= 0 => edge = minimum
                        /\ p[1] >= p[2] => edge = maximum
                        /\ count_ > 0 /\ 0 < p[1] /\ p[1] < p[2] =>
                              \E r \in 1..count_ :
                                  /\ \A q \in 1..count_ : Off(r) <= Off(q)
                                  /\ Sample(r) \in edge..(IF edge = 0 THEN 1 ELSE 2 * edge - 1)
  BY Zenon DEF PercentileOfNearestRank
<1> DEFINE Off(r) == LET d == r * p[2] - p[1] * count_ IN IF d < 0 THEN -d ELSE d
           edge == percentile_ns(p)
           Sample(r) == Min({v \in Values : UpTo(v) >= r})
<1>1. p \in Int \X (Nat \ {0}) /\ p[1] \in Int /\ p[2] \in Nat \ {0}
  BY PercentsAssumption
<1>2. count_ \in Nat  BY DEF HistogramInv, HistogramTypes
<1>3. p[1] <= 0 => edge = minimum  BY DEF percentile_ns, minimum
<1>4. p[1] >= p[2] => edge = maximum
  <2>1. p[1] >= p[2] => ~(p[1] <= 0)  BY <1>1
  <2> QED  BY <2>1 DEF percentile_ns, maximum
<1>5. ASSUME count_ > 0, 0 < p[1], p[1] < p[2]
      PROVE  \E r \in 1..count_ :
                /\ \A q \in 1..count_ : Off(r) <= Off(q)
                /\ Sample(r) \in edge..(IF edge = 0 THEN 1 ELSE 2 * edge - 1)
  <2>1. count_ \in Nat \ {0} /\ count_ # 0  BY <1>2, <1>5
  <2>2. Rank(p) \in 1..count_ /\ \A q \in 1..count_ : Off(Rank(p)) <= Off(q)
    BY <1>1, <1>5, <2>1, RankNearest
  <2>3. PICK m \in Buckets : edge = LowerEdge(m) /\ Sample(Rank(p)) \in Band(m)
    BY <1>1, <1>5, <2>1, PercentileEdge
  <2>4. PICK s : s = Sample(Rank(p))  OBVIOUS
  <2>5. s \in edge..(IF edge = 0 THEN 1 ELSE 2 * edge - 1)
    <3>1. Pow2[m] \in Nat \ {0} /\ Pow2[m + 1] = 2 * Pow2[m]  BY BandFacts
    <3>2. CASE m = 0
      <4>1. edge = 0 /\ Band(m) = 0..1
        BY <2>3, <3>1, <3>2, WordFacts DEF Band, LowerEdge
      <4> QED  BY <2>3, <2>4, <4>1
    <3>3. CASE m # 0
      <4>1. edge = Pow2[m] /\ Band(m) = Pow2[m]..2 * Pow2[m] - 1
        BY <2>3, <3>1, <3>3 DEF Band, LowerEdge
      <4> QED  BY <2>3, <2>4, <3>1, <4>1
    <3> QED  BY <3>2, <3>3
  <2> HIDE DEF Off, edge, Sample
  <2> QED  BY <2>2, <2>4, <2>5
<1> QED  BY <1>3, <1>4, <1>5

\* For every word size, every sequence of samples and every fraction: what percentile_ns()
\* answers is the lower edge of the bucket of a sample of the nearest rank, at most that
\* sample and more than half of it, and from 0 down and 1 up the exact extremes.
THEOREM PercentilesExact == HistogramSpec => []PercentileOfNearestRank
  BY HistogramInvariant, PercentileKept, PTL

-----------------------------------------------------------------------------
(* Records.                                                                *)

\* A record of the schema, as a frame and a line hold it.
IsRecord(r) ==
    /\ {"t", "id"} \subseteq DOMAIN r /\ r.t \in {"meta", "status", "fill"} /\ r.id \in Int
    /\ r.t = "meta" => "symbols" \in DOMAIN r /\ r.symbols \in Seq(Symbols)
    /\ r.t # "meta" => "sym" \in DOMAIN r /\ r.sym \in Symbols

IsTimed(r) == "ts" \in DOMAIN r /\ r.ts \in Int

\* What the trader writes.
Frames ==
    [t : {"meta", "garbled"}, id : Int, symbols : Seq(Symbols)]
    \cup [t : {"status", "fill"}, id : Int, sym : Symbols]

IsSeq(s) == \E T : s \in Seq(T)

\* A record that was shown is as it was, and knows when.
LEMMA ShownRecord ==
    ASSUME NEW r, IsRecord(r), NEW n, NEW e, e = With(r, "at", n)
    PROVE  /\ IsRecord(e) /\ e.at = n /\ e.t = r.t /\ e.id = r.id
           /\ r.t = "meta" => e.symbols = r.symbols
           /\ r.t # "meta" => e.sym = r.sym
           /\ IsTimed(r) => IsTimed(e) /\ e.ts = r.ts
<1>1. DOMAIN e = DOMAIN r \cup {"at"} /\ \A y \in DOMAIN e : e[y] = IF y = "at" THEN n ELSE r[y]
  BY DEF With
<1>2. e["t"] = r["t"] /\ e["id"] = r["id"] /\ e["at"] = n  BY <1>1 DEF IsRecord
<1>3. "symbols" \in DOMAIN r => e["symbols"] = r["symbols"] /\ "symbols" \in DOMAIN e  BY <1>1
<1>4. "sym" \in DOMAIN r => e["sym"] = r["sym"] /\ "sym" \in DOMAIN e  BY <1>1
<1>5. "ts" \in DOMAIN r => e["ts"] = r["ts"] /\ "ts" \in DOMAIN e  BY <1>1
<1> QED  BY <1>1, <1>2, <1>3, <1>4, <1>5 DEF IsRecord, IsTimed

\* A frame that parses is a record.
LEMMA FrameRecord ==
    ASSUME NEW r \in Frames, r.t # "garbled"
    PROVE  IsRecord(r)
  BY DEF Frames, IsRecord

\* A line with its place in the file.
LEMMA LineRecord ==
    ASSUME NEW l \in Lines, NEW k \in Int, NEW e, e = With(l, "id", k)
    PROVE  /\ e.id = k /\ e.t = l.t
           /\ e.t # "garbled" => IsRecord(e) /\ IsTimed(e)
<1>1. DOMAIN e = DOMAIN l \cup {"id"} /\ \A y \in DOMAIN e : e[y] = IF y = "id" THEN k ELSE l[y]
  BY DEF With
<1>2. /\ "t" \in DOMAIN l
      /\ l.t # "garbled" =>
            /\ l.t \in {"meta", "status", "fill"} /\ "ts" \in DOMAIN l /\ l.ts \in Int
            /\ l.t = "meta" => "symbols" \in DOMAIN l /\ l.symbols \in Seq(Symbols)
            /\ l.t # "meta" => "sym" \in DOMAIN l /\ l.sym \in Symbols
  BY LinesAssumption
<1>3. e["t"] = l["t"] /\ e["id"] = k /\ {"t", "id"} \subseteq DOMAIN e  BY <1>1, <1>2
<1>4. "symbols" \in DOMAIN l => e["symbols"] = l["symbols"] /\ "symbols" \in DOMAIN e  BY <1>1
<1>5. "sym" \in DOMAIN l => e["sym"] = l["sym"] /\ "sym" \in DOMAIN e  BY <1>1
<1>6. "ts" \in DOMAIN l => e["ts"] = l["ts"] /\ "ts" \in DOMAIN e  BY <1>1
<1> QED  BY <1>2, <1>3, <1>4, <1>5, <1>6 DEF IsRecord, IsTimed

-----------------------------------------------------------------------------
(* Sorting.                                                                *)

InOrder(seq) == \A j, k \in DOMAIN seq : j < k => Before(seq[j], seq[k])

\* Every finite set of records that differ in their ids has an order.
LEMMA OrderExists ==
    ASSUME NEW S, IsFiniteSet(S), \A r \in S : r.ts \in Int /\ r.id \in Int,
           \A a, b \in S : a.id = b.id => a = b
    PROVE  \E seq \in [1..Cardinality(S) -> S] :
              InOrder(seq) /\ \A r \in S : \E k \in 1..Cardinality(S) : seq[k] = r
<1> DEFINE Good(A) == \E seq \in [1..Cardinality(A) -> A] :
                        InOrder(seq) /\ \A r \in A : \E k \in 1..Cardinality(A) : seq[k] = r
           F == {A \in SUBSET S : ~Good(A)}
<1>1. SUFFICES ASSUME F # {} PROVE FALSE  BY Zenon
<1>2. \A A \in SUBSET S : IsFiniteSet(A) /\ Cardinality(A) \in Nat
  BY FS_Subset, FS_CardinalityType
<1>3. PICK A \in F : \A x \in A : A \ {x} \notin F
  <2> HIDE DEF Good
  <2> QED  BY <1>1, <1>2, SmallestSet
<1>4. A \in SUBSET S /\ ~Good(A)  BY <1>3, Zenon
<1>5. A # {}
  <2> SUFFICES ASSUME A = {} PROVE FALSE  OBVIOUS
  <2>1. Cardinality(A) = 0  BY FS_EmptySet
  <2> DEFINE z == [k \in 1..0 |-> 0]
  <2>2. z \in [1..0 -> A] /\ InOrder(z)  BY DEF InOrder
  <2>3. Good(A)  BY <2>1, <2>2
  <2> QED  BY <1>4, <2>3
<1>6. PICK m \in A : \A a \in A : a # m => Before(a, m)
  <2> DEFINE G == {B \in SUBSET A : B # {} /\ ~\E x \in B : \A a \in B : a # x => Before(a, x)}
  <2>1. SUFFICES ASSUME G # {} PROVE FALSE
    <3>1. A \notin G => \E x \in A : \A a \in A : a # x => Before(a, x)  BY <1>5
    <3> QED  BY <3>1
  <2>2. PICK B \in G : \A x \in B : B \ {x} \notin G
    <3>1. \A B \in G : IsFiniteSet(B)  BY <1>2, <1>4
    <3> HIDE DEF G
    <3> QED  BY <2>1, <3>1, SmallestSet
  <2>3. PICK x \in B : TRUE  BY <2>2
  <2>4. B \in SUBSET A /\ \A y \in B : y.ts \in Int /\ y.id \in Int /\ y \in S
    BY <1>4, <2>2
  <2>5. B \ {x} # {}  BY <2>2, <2>3
  <2>6. PICK y \in B \ {x} : \A a \in B \ {x} : a # y => Before(a, y)
    BY <2>2, <2>3, <2>5
  <2>7. x.id # y.id  BY <2>3, <2>4, <2>6
  <2>8. CASE Before(x, y)
    <3>1. \A a \in B : a # y => Before(a, y)  BY <2>3, <2>6, <2>8
    <3> QED  BY <2>2, <2>6, <3>1
  <2>9. CASE Before(y, x)
    <3>1. \A a \in B : a # x => Before(a, x)
      <4> SUFFICES ASSUME NEW a \in B, a # x PROVE Before(a, x)  OBVIOUS
      <4>1. a = y \/ Before(a, y)  BY <2>6
      <4> QED  BY <2>3, <2>4, <2>6, <2>9, <4>1 DEF Before
    <3> QED  BY <2>2, <2>3, <3>1
  <2> QED  BY <2>3, <2>4, <2>6, <2>7, <2>8, <2>9 DEF Before
<1>7. PICK n \in Nat : Cardinality(A) = n + 1 /\ Cardinality(A \ {m}) = n
  <2>1. Cardinality(A \ {m}) = Cardinality(A) - 1  BY <1>2, <1>4, <1>6, FS_RemoveElement
  <2>2. A \ {m} \in SUBSET S  BY <1>4
  <2> QED  BY <1>2, <1>4, <2>1, <2>2
<1>8. Good(A \ {m})  BY <1>3, <1>4, <1>6
<1>9. PICK seq \in [1..n -> A \ {m}] :
          InOrder(seq) /\ \A r \in A \ {m} : \E k \in 1..n : seq[k] = r
  BY <1>7, <1>8
<1> DEFINE all == [k \in 1..n + 1 |-> IF k = n + 1 THEN m ELSE seq[k]]
<1>10. all \in [1..n + 1 -> A]  BY <1>6, <1>9
<1>11. InOrder(all)
  <2> SUFFICES ASSUME NEW j \in 1..n + 1, NEW k \in 1..n + 1, j < k
               PROVE  Before(all[j], all[k])
    BY DEF InOrder
  <2>1. j \in 1..n /\ all[j] = seq[j] /\ seq[j] \in A \ {m}  BY <1>9
  <2>2. CASE k = n + 1  BY <1>6, <2>1, <2>2
  <2>3. CASE k # n + 1
    <3>1. k \in 1..n /\ all[k] = seq[k] /\ DOMAIN seq = 1..n  BY <1>9, <2>3
    <3> QED  BY <1>9, <2>1, <3>1 DEF InOrder
  <2> QED  BY <2>2, <2>3
<1>12. \A r \in A : \E k \in 1..n + 1 : all[k] = r
  <2> SUFFICES ASSUME NEW r \in A PROVE \E k \in 1..n + 1 : all[k] = r  OBVIOUS
  <2>1. CASE r = m
    <3>1. n + 1 \in 1..n + 1 /\ all[n + 1] = m  OBVIOUS
    <3> QED  BY <2>1, <3>1
  <2>2. CASE r # m
    <3>1. PICK k \in 1..n : seq[k] = r  BY <1>9, <2>2
    <3> QED  BY <3>1
  <2> QED  BY <2>1, <2>2
<1> HIDE DEF all
<1>13. Good(A)  BY <1>7, <1>10, <1>11, <1>12
<1> QED  BY <1>4, <1>13

SortOf(seq, S) == /\ seq \in Seq(S) /\ InOrder(seq)
                  /\ \A r \in S : \E k \in 1..Len(seq) : seq[k] = r

\* What records.sort() returns: the records, in order.
LEMMA SortedFacts ==
    ASSUME NEW S, IsFiniteSet(S), \A r \in S : r.ts \in Int /\ r.id \in Int,
           \A a, b \in S : a.id = b.id => a = b
    PROVE  SortOf(Sorted(S), S)
<1>1. PICK n \in Nat : n = Cardinality(S)  BY FS_CardinalityType
<1>2. PICK seq \in [1..n -> S] : InOrder(seq) /\ \A r \in S : \E k \in 1..n : seq[k] = r
  BY <1>1, OrderExists
<1>3. \A s \in [1..n -> S] : InOrder(s) => \A i, j \in 1..n : i # j => s[i] # s[j]
  BY DEF InOrder, Before
<1>4. seq \in SetToSeqs(S)  BY <1>1, <1>2, <1>3 DEF SetToSeqs
<1>5. Sorted(S) = CHOOSE s \in SetToSeqs(S) : InOrder(s)
  BY Zenon DEF Sorted, InOrder
<1>6. Sorted(S) \in SetToSeqs(S) /\ InOrder(Sorted(S))  BY <1>2, <1>4, <1>5, Zenon
<1>7. Sorted(S) \in [1..n -> S] /\ \A i, j \in 1..n : i # j => Sorted(S)[i] # Sorted(S)[j]
  BY <1>1, <1>6 DEF SetToSeqs
<1>8. Sorted(S) \in Seq(S) /\ Len(Sorted(S)) = n
  BY <1>7
<1>9. Sorted(S) \in Injection(1..n, S)  BY <1>7 DEF Injection, IsInjective
<1>10. Sorted(S) \in Surjection(1..n, S)
  <2>1. Cardinality(1..n) = n
    <3>1. 1 \in Int /\ n \in Int  OBVIOUS
    <3> QED  BY <3>1, FS_Interval
  <2> QED  BY <1>1, <1>9, <2>1, FS_Injection
<1> QED  BY <1>6, <1>8, <1>10 DEF Surjection, SortOf

-----------------------------------------------------------------------------
(* What was shown, and when it was saved.                                  *)

IsHistory(s) == IsSeq(s) /\ \A k \in DOMAIN s : IsRecord(s[k]) /\ s[k].at \in Int

PageTypes ==
    /\ mode.kind \in {"live", "replay"}
    /\ now \in Nat /\ lastSave \in Int
    /\ wire \in Seq(Frames) /\ sent \in [records : Int, faults : Int]
    /\ IsHistory(shown) /\ IsHistory(snapshot.shown)

\* Nothing was saved since the page was loaded, or the last thing shown then was shown
\* at lastSave, and what came later within the interval.
SaveInv ==
    mode.kind = "live" /\ mode.storage =>
        \/ lastSave = Never /\ shown = snapshot.shown
        \/ LET n == Len(snapshot.shown) IN
              /\ n \in 1..Len(shown)
              /\ \A k \in 1..n : snapshot.shown[k] = shown[k]
              /\ shown[n].at = lastSave
              /\ \A k \in n + 1..Len(shown) : shown[k].at - lastSave < SaveInterval

ShowsRecords(n) ==
    /\ Len(shown) = n
    /\ \A k \in 1..n : /\ shown[k].id = replay.records[k].id
                       /\ shown[k].ts = replay.records[k].ts

\* The place in the replay tells how many of its records were shown.
ReplayInv ==
    /\ mode.kind = "live" => pill # "COMPLETE"
    /\ mode.kind = "replay" =>
        /\ IsSeq(replay.records) /\ InOrder(replay.records)
        /\ \A k \in 1..Len(replay.records) :
              IsRecord(replay.records[k]) /\ IsTimed(replay.records[k])
        /\ {r.id : r \in Range(replay.records)}
             = {l.id : l \in {l \in Range(replay.file) : l.t # "garbled"}}
        /\ replay.at \in {"fetch", "play", "pause", "done"}
        /\ DOMAIN replay = {"at", "file", "records", "i"}
        /\ replay.at # "done" => pill # "COMPLETE"
        /\ replay.at = "fetch" => shown = <<>>
        /\ replay.at = "play" => replay.i \in 1..Len(replay.records) /\ ShowsRecords(replay.i - 1)
        /\ replay.at = "pause" => replay.i = 1 /\ replay.records # <<>>
        /\ pill = "COMPLETE" => ShowsRecords(Len(replay.records))

HistoryInv == PageTypes /\ SaveInv /\ ReplayInv

\* The empty sequence.
LEMMA NoRecords ==
    /\ IsSeq(<<>>) /\ Len(<<>>) = 0 /\ DOMAIN <<>> = {}
<1>1. <<>> \in Seq({}) /\ Len(<<>>) = 0  BY EmptySeq
<1>2. DOMAIN <<>> = 1..0  BY <1>1, LenProperties
<1> QED  BY <1>1, <1>2 DEF IsSeq

\* Length and domain of a sequence of whatever.
LEMMA SeqFacts ==
    ASSUME NEW s, IsSeq(s)
    PROVE  Len(s) \in Nat /\ DOMAIN s = 1..Len(s) /\ (s = <<>> <=> Len(s) = 0)
<1>1. PICK T : s \in Seq(T)  BY DEF IsSeq
<1>2. Len(s) \in Nat /\ DOMAIN s = 1..Len(s)  BY <1>1, LenProperties
<1>3. s = <<>> <=> Len(s) = 0  BY <1>1, NoRecords
<1> QED  BY <1>2, <1>3

\* A sequence of whatever, and one thing more.
LEMMA SeqGrows ==
    ASSUME NEW s, NEW e, IsSeq(s)
    PROVE  LET t == Append(s, e)
           IN  /\ IsSeq(t) /\ Len(s) \in Nat /\ Len(t) = Len(s) + 1
               /\ DOMAIN s = 1..Len(s) /\ DOMAIN t = 1..Len(s) + 1
               /\ \A i \in 1..Len(s) : t[i] = s[i]
               /\ t[Len(s) + 1] = e
<1>0. PICK t : t = Append(s, e)  OBVIOUS
<1>1. PICK T : s \in Seq(T)  BY DEF IsSeq
<1>2. PICK U : U = T \cup {e}  OBVIOUS
<1>3. s \in Seq(U) /\ e \in U  BY <1>1, <1>2, SeqMonotonic
<1>4. /\ t \in Seq(U) /\ Len(s) \in Nat /\ Len(t) = Len(s) + 1
      /\ DOMAIN s = 1..Len(s) /\ DOMAIN t = 1..Len(s) + 1
      /\ \A i \in 1..Len(s) : t[i] = s[i] /\ s[i] \in U
      /\ t[Len(s) + 1] = e
  BY <1>0, <1>3, Appended
<1> QED  BY <1>0, <1>4 DEF IsSeq

\* Nothing shown, nothing saved, nothing fetched.
LEMMA InitHistory ==
    ASSUME Init
    PROVE  HistoryInv
<1>1. mode.kind \in {"live", "replay"} /\ now = 0 /\ lastSave = Never /\ wire = <<>>
      /\ shown = <<>> /\ snapshot = Nothing /\ replay = NoFile /\ pill = "connecting"
  BY DEF Init
<1>2. snapshot.shown = <<>>  BY <1>1 DEF Nothing
<1>3. Never \in Int  BY IntervalAssumption DEF Never
<1>4. PageTypes
  <2>1. sent \in [records : Int, faults : Int]  BY DEF Init
  <2>2. IsHistory(<<>>)  BY NoRecords DEF IsHistory
  <2> QED  BY <1>1, <1>2, <1>3, <2>1, <2>2, NoRecords DEF PageTypes
<1>5. SaveInv  BY <1>1, <1>2 DEF SaveInv
<1>6. ReplayInv
  <2>1. replay.records = <<>> /\ replay.file = <<>> /\ replay.at = "fetch"
        /\ DOMAIN replay = {"at", "file", "records", "i"}
    BY <1>1 DEF NoFile
  <2>2. InOrder(<<>>)  BY NoRecords DEF InOrder
  <2>3. Range(<<>>) = {}  BY NoRecords DEF Range
  <2> QED  BY <1>1, <2>1, <2>2, <2>3, NoRecords DEF ReplayInv
<1> QED  BY <1>4, <1>5, <1>6 DEF HistoryInv

\* A record that is shown, and perhaps saved.
LEMMA ShowStep ==
    ASSUME PageTypes, SaveInv, NEW rec, IsRecord(rec), processRecord(rec),
           mode' = mode, now' = now, sent' = sent, wire' \in Seq(Frames)
    PROVE  /\ PageTypes' /\ SaveInv'
           /\ Len(shown) \in Nat /\ Len(shown') = Len(shown) + 1
           /\ \A k \in 1..Len(shown) : shown'[k] = shown[k]
           /\ shown'[Len(shown) + 1].id = rec.id
           /\ IsTimed(rec) => shown'[Len(shown) + 1].ts = rec.ts
<1>1. PICK e : e = With(rec, "at", now)  OBVIOUS
<1>2. shown' = Append(shown, e) /\ saveState  BY <1>1 DEF processRecord
<1>3. IsRecord(e) /\ e.at = now /\ e.id = rec.id /\ (IsTimed(rec) => e.ts = rec.ts)
  BY <1>1, ShownRecord
<1>4. /\ IsSeq(shown') /\ Len(shown) \in Nat /\ Len(shown') = Len(shown) + 1
      /\ DOMAIN shown = 1..Len(shown) /\ DOMAIN shown' = 1..Len(shown) + 1
      /\ \A i \in 1..Len(shown) : shown'[i] = shown[i]
      /\ shown'[Len(shown) + 1] = e
  <2>1. PICK s, t : s = shown /\ t = shown'  OBVIOUS
  <2>2. IsSeq(s) /\ t = Append(s, e)  BY <1>2, <2>1 DEF PageTypes, IsHistory
  <2>3. /\ IsSeq(t) /\ Len(s) \in Nat /\ Len(t) = Len(s) + 1
        /\ DOMAIN s = 1..Len(s) /\ DOMAIN t = 1..Len(s) + 1
        /\ \A i \in 1..Len(s) : t[i] = s[i]
        /\ t[Len(s) + 1] = e
    BY <2>2, SeqGrows
  <2> QED  BY <2>1, <2>3
<1>5. \A k \in DOMAIN shown' : IsRecord(shown'[k]) /\ shown'[k].at \in Int
  <2> SUFFICES ASSUME NEW k \in DOMAIN shown'
               PROVE  IsRecord(shown'[k]) /\ shown'[k].at \in Int
    OBVIOUS
  <2>1. k = Len(shown) + 1 \/ k \in 1..Len(shown)  BY <1>4
  <2>2. now \in Int  BY DEF PageTypes
  <2> QED  BY <1>3, <1>4, <2>1, <2>2 DEF PageTypes, IsHistory
<1> DEFINE Saves == mode.kind = "live" /\ ~(now - lastSave < SaveInterval)
<1>6. Saves => /\ lastSave' = now
               /\ mode.storage => snapshot'.shown = shown'
               /\ ~mode.storage => snapshot' = snapshot
  BY <1>2 DEF saveState
<1>7. ~Saves => snapshot' = snapshot /\ lastSave' = lastSave
  BY <1>2 DEF saveState
<1> HIDE DEF Saves
<1>8. PageTypes'
  <2>1. lastSave' \in Int  BY <1>6, <1>7 DEF PageTypes
  <2>2. IsHistory(shown')  BY <1>4, <1>5 DEF IsHistory
  <2>3. IsHistory(snapshot'.shown)  BY <1>6, <1>7, <2>2 DEF PageTypes
  <2> QED  BY <2>1, <2>2, <2>3 DEF PageTypes
<1>9. SaveInv'
  <2> SUFFICES ASSUME mode.kind = "live", mode.storage PROVE SaveInv'  BY DEF SaveInv
  <2>1. CASE Saves
    <3>1. snapshot'.shown = shown' /\ lastSave' = now  BY <1>6, <2>1
    <3>2. PICK m \in Nat : m = Len(shown') /\ m = Len(shown) + 1  BY <1>4
    <3>3. m \in 1..m /\ shown'[m].at = now /\ m + 1..m = {}  BY <1>3, <1>4, <3>2
    <3> QED  BY <3>1, <3>2, <3>3 DEF SaveInv
  <2>2. CASE ~Saves
    <3>1. snapshot' = snapshot /\ lastSave' = lastSave  BY <1>7, <2>2
    <3>2. now - lastSave < SaveInterval  BY <2>2 DEF Saves
    <3>3. lastSave # Never  BY <3>2, IntervalAssumption DEF Never, PageTypes
    <3>4. PICK n \in 1..Len(shown) :
             /\ n = Len(snapshot.shown)
             /\ \A k \in 1..n : snapshot.shown[k] = shown[k]
             /\ shown[n].at = lastSave
             /\ \A k \in n + 1..Len(shown) : shown[k].at - lastSave < SaveInterval
      BY <3>3 DEF SaveInv
    <3>5. n \in 1..Len(shown') /\ shown'[n] = shown[n]  BY <1>4
    <3>6. \A k \in 1..n : snapshot'.shown[k] = shown'[k]  BY <1>4, <3>1, <3>4
    <3>7. ASSUME NEW k \in n + 1..Len(shown') PROVE shown'[k].at - lastSave < SaveInterval
      <4>1. k = Len(shown) + 1 \/ k \in n + 1..Len(shown)  BY <1>4
      <4> QED  BY <1>3, <1>4, <3>2, <3>4, <4>1
    <3> QED  BY <3>1, <3>4, <3>5, <3>6, <3>7 DEF SaveInv
  <2> QED  BY <2>1, <2>2
<1> QED  BY <1>3, <1>4, <1>8, <1>9

\* A record is written to a page that may listen or not.
LEMMA WriteStep ==
    ASSUME HistoryInv, Live, NEW rec, rec \in Frames, WriteLine(rec), PageSame, UNCHANGED now
    PROVE  HistoryInv'
<1>1. /\ wire' = (IF sock = "open" THEN Append(wire, rec) ELSE wire)
      /\ sent' = [sent EXCEPT !.records = @ + 1]
      /\ UNCHANGED <<mode, replay, page, pill, shown, snapshot, lastSave, now>>
  BY DEF WriteLine, PageSame, Live
<1>2. wire' \in Seq(Frames)
  <2>1. wire \in Seq(Frames)  BY DEF HistoryInv, PageTypes
  <2>2. Append(wire, rec) \in Seq(Frames)  BY <2>1, AppendProperties
  <2> QED  BY <1>1, <2>1, <2>2
<1>3. sent' \in [records : Int, faults : Int]  BY <1>1 DEF HistoryInv, PageTypes
<1> QED  BY <1>1, <1>2, <1>3
         DEF HistoryInv, PageTypes, SaveInv, ReplayInv, ShowsRecords

\* The meta record, whole or cut.
LEMMA WriteMetaStep ==
    ASSUME HistoryInv, WriteMeta
    PROVE  HistoryInv'
<1>1. PICK t \in {"meta", "garbled"} :
          WriteLine([t |-> t, id |-> sent.records + 1, symbols |-> SymList])
  BY DEF WriteMeta
<1>2. Live /\ PageSame /\ UNCHANGED now  BY DEF WriteMeta
<1>3. [t |-> t, id |-> sent.records + 1, symbols |-> SymList] \in Frames
  BY SymListAssumption DEF HistoryInv, PageTypes, Frames
<1> QED  BY <1>1, <1>2, <1>3, WriteStep

\* A status or a fill.
LEMMA WriteRecordStep ==
    ASSUME HistoryInv, WriteRecord
    PROVE  HistoryInv'
<1>1. PICK t \in {"status", "fill"}, sym \in Range(SymList) :
          WriteLine([t |-> t, id |-> sent.records + 1, sym |-> sym])
  BY DEF WriteRecord
<1>2. Live /\ PageSame /\ UNCHANGED now  BY DEF WriteRecord
<1>3. sym \in Symbols  BY SymListAssumption DEF Range
<1>4. [t |-> t, id |-> sent.records + 1, sym |-> sym] \in Frames
  BY <1>3 DEF HistoryInv, PageTypes, Frames
<1> QED  BY <1>1, <1>2, <1>4, WriteStep

\* onmessage: a frame that parses is shown, another dropped.
LEMMA ReceiveStep ==
    ASSUME HistoryInv, Receive
    PROVE  HistoryInv'
<1>1. /\ Live /\ wire # <<>> /\ wire' = Tail(wire)
      /\ IF Head(wire).t = "garbled" THEN UNCHANGED <<page, shown, snapshot, lastSave>>
         ELSE processRecord(Head(wire))
      /\ UNCHANGED <<pill, now, sent>>
  BY DEF Receive
<1>2. mode' = mode /\ replay' = replay /\ mode.kind = "live"  BY <1>1 DEF Live
<1>3. Head(wire) \in Frames /\ wire' \in Seq(Frames)
  <2>1. wire \in Seq(Frames)  BY DEF HistoryInv, PageTypes
  <2> QED  BY <1>1, <2>1, HeadTailProperties
<1>4. PageTypes' /\ SaveInv'
  <2>1. CASE Head(wire).t = "garbled"
    BY <1>1, <1>2, <1>3, <2>1 DEF HistoryInv, PageTypes, SaveInv
  <2>2. CASE Head(wire).t # "garbled"
    <3>1. PICK rec : rec = Head(wire)  OBVIOUS
    <3>2. IsRecord(rec) /\ processRecord(rec)  BY <1>1, <1>3, <2>2, <3>1, FrameRecord
    <3>3. mode' = mode /\ now' = now /\ sent' = sent  BY <1>1, <1>2
    <3> QED  BY <1>3, <3>2, <3>3, ShowStep DEF HistoryInv
  <2> QED  BY <2>1, <2>2
<1>5. ReplayInv'  BY <1>1, <1>2 DEF HistoryInv, ReplayInv
<1> QED  BY <1>4, <1>5 DEF HistoryInv

\* A reload goes back to what was saved.
LEMMA RefreshStep ==
    ASSUME HistoryInv, Refresh
    PROVE  HistoryInv'
<1>1. /\ mode.kind = "live" /\ mode' = mode /\ replay' = replay
      /\ shown' = snapshot.shown /\ snapshot' = snapshot /\ lastSave' = Never
      /\ pill' = "connecting" /\ wire' = <<>> /\ now' = now /\ sent' = sent
  BY DEF Refresh, Live
<1>2. Never \in Int  BY IntervalAssumption DEF Never
<1>3. <<>> \in Seq(Frames)  BY EmptySeq
<1>4. PageTypes'  BY <1>1, <1>2, <1>3 DEF HistoryInv, PageTypes
<1>5. SaveInv'  BY <1>1 DEF SaveInv
<1>6. ReplayInv'  BY <1>1 DEF ReplayInv
<1> QED  BY <1>4, <1>5, <1>6 DEF HistoryInv

\* The steps of the trader and of the socket that show nothing.
LEMMA OtherLiveStep ==
    ASSUME HistoryInv,
           TraderStarts \/ TraderStops \/ Opened \/ Closed \/ Retry \/ Tick
    PROVE  HistoryInv'
<1>1. /\ mode.kind = "live" /\ mode' = mode /\ replay' = replay
      /\ shown' = shown /\ snapshot' = snapshot /\ lastSave' = lastSave
      /\ pill' \in {pill, "LIVE", "RECONNECTING"}
      /\ wire' \in {wire, <<>>} /\ now' \in {now, now + 1}
  BY DEF TraderStarts, TraderStops, Opened, Closed, Retry, Tick, Live, PageSame
<1>2. sent' \in [records : Int, faults : Int]
  <2>1. sent' = sent \/ \E n \in {sent.faults, sent.faults + 1} : sent' = [sent EXCEPT !.faults = n]
    BY DEF TraderStarts, TraderStops, Opened, Closed, Retry, Tick
  <2> QED  BY <2>1 DEF HistoryInv, PageTypes
<1>3. wire' \in Seq(Frames)  BY <1>1, EmptySeq DEF HistoryInv, PageTypes
<1>4. now' \in Nat  BY <1>1 DEF HistoryInv, PageTypes
<1>5. PageTypes'  BY <1>1, <1>2, <1>3, <1>4 DEF HistoryInv, PageTypes
<1>6. SaveInv'  BY <1>1 DEF HistoryInv, SaveInv
<1>7. ReplayInv'  BY <1>1 DEF HistoryInv, ReplayInv
<1> QED  BY <1>5, <1>6, <1>7 DEF HistoryInv

\* The records of a file are its lines that parse, in order.
LEMMA FetchedRecords ==
    ASSUME NEW file, NEW lines, NEW S,
           file \in BoundedSeq(Lines, MaxLines),
           lines = [k \in DOMAIN file |-> With(file[k], "id", k)],
           S = {l \in Range(lines) : l.t # "garbled"}
    PROVE  LET records == Sorted(S) IN
              /\ IsSeq(records) /\ InOrder(records)
              /\ \A k \in 1..Len(records) : IsRecord(records[k]) /\ IsTimed(records[k])
              /\ Range(records) = S
<1>1. PICK m \in Nat : file \in [1..m -> Lines]
  BY DEF BoundedSeq, SeqOf
<1>2. DOMAIN lines = 1..m /\ \A k \in 1..m : lines[k] = With(file[k], "id", k)
  BY <1>1
<1>3. \A k \in 1..m : /\ lines[k].id = k
                      /\ lines[k].t # "garbled" => IsRecord(lines[k]) /\ IsTimed(lines[k])
  <2> SUFFICES ASSUME NEW k \in 1..m
               PROVE  /\ lines[k].id = k
                      /\ lines[k].t # "garbled" => IsRecord(lines[k]) /\ IsTimed(lines[k])
    OBVIOUS
  <2>0. PICK e : e = lines[k]  OBVIOUS
  <2>1. PICK l \in Lines : l = file[k] /\ e = With(l, "id", k) /\ e = lines[k]
    BY <1>1, <1>2, <2>0
  <2>2. k \in Int  OBVIOUS
  <2>3. e.id = k /\ (e.t # "garbled" => IsRecord(e) /\ IsTimed(e))
    BY <2>1, <2>2, LineRecord
  <2> QED  BY <2>1, <2>3
<1>4. Range(lines) = {lines[k] : k \in 1..m}  BY <1>2 DEF Range
<1>5. IsFiniteSet(Range(lines))
  <2>1. IsFiniteSet(1..m)
    <3>1. 1 \in Int /\ m \in Int  OBVIOUS
    <3> QED  BY <3>1, FS_Interval
  <2>2. PICK f : f = [k \in 1..m |-> lines[k]]  OBVIOUS
  <2>3. f \in Surjection(1..m, Range(lines))  BY <1>4, <2>2 DEF Surjection
  <2> QED  BY <2>1, <2>3, FS_Surjection
<1>6. IsFiniteSet(S)  BY <1>5, FS_Subset
<1>7. \A r \in S : IsRecord(r) /\ IsTimed(r)  BY <1>3, <1>4
<1>8. \A a, b \in S : a.id = b.id => a = b
  <2> SUFFICES ASSUME NEW a \in S, NEW b \in S, a.id = b.id PROVE a = b  OBVIOUS
  <2>1. PICK j \in 1..m, k \in 1..m : a = lines[j] /\ b = lines[k]  BY <1>4
  <2> QED  BY <1>3, <2>1
<1>9. \A r \in S : r.ts \in Int /\ r.id \in Int  BY <1>7 DEF IsRecord, IsTimed
<1>10. PICK s : s = Sorted(S)  OBVIOUS
<1>11. /\ s \in Seq(S) /\ InOrder(s) /\ \A r \in S : \E k \in 1..Len(s) : s[k] = r
  <2>1. SortOf(Sorted(S), S)  BY <1>6, <1>8, <1>9, SortedFacts
  <2> QED  BY <1>10, <2>1 DEF SortOf
<1>12. DOMAIN s = 1..Len(s) /\ \A k \in 1..Len(s) : s[k] \in S
  BY <1>11, LenProperties, ElementOfSeq
<1>13. Range(s) = S  BY <1>11, <1>12 DEF Range
<1>14. IsSeq(s)  BY <1>11 DEF IsSeq
<1> QED  BY <1>7, <1>10, <1>11, <1>12, <1>13, <1>14

\* The file is fetched, parsed and sorted.
LEMMA FetchedStep ==
    ASSUME HistoryInv, Fetched
    PROVE  HistoryInv'
<1>1. /\ mode.kind = "replay" /\ replay.at = "fetch" /\ mode' = mode
      /\ UNCHANGED <<page, shown, snapshot, lastSave, now, trader, sock, wire, sent>>
  BY DEF Fetched, Replaying, live
<1>2. PICK file \in BoundedSeq(Lines, MaxLines) :
          LET lines == [k \in DOMAIN file |-> With(file[k], "id", k)]
              records == Sorted({l \in Range(lines) : l.t # "garbled"})
          IN  /\ replay' = [file |-> lines, records |-> records, i |-> 1,
                            at |-> IF records = <<>> THEN "done" ELSE "play"]
              /\ pill' = IF records = <<>> THEN "EMPTY FILE" ELSE "REPLAY"
  BY Zenon DEF Fetched
<1>3. PICK lines, S, s :
          /\ lines = [k \in DOMAIN file |-> With(file[k], "id", k)]
          /\ S = {l \in Range(lines) : l.t # "garbled"}
          /\ s = Sorted(S)
  OBVIOUS
<1>4. /\ replay' = [file |-> lines, records |-> s, i |-> 1,
                    at |-> IF s = <<>> THEN "done" ELSE "play"]
      /\ pill' = IF s = <<>> THEN "EMPTY FILE" ELSE "REPLAY"
  BY <1>2, <1>3
<1>5. /\ IsSeq(s) /\ InOrder(s) /\ Range(s) = S
      /\ \A k \in 1..Len(s) : IsRecord(s[k]) /\ IsTimed(s[k])
  BY <1>3, FetchedRecords
<1>6. shown' = <<>> /\ Len(<<>>) = 0  BY <1>1, NoRecords DEF HistoryInv, ReplayInv
<1>7. PageTypes' /\ SaveInv'  BY <1>1 DEF HistoryInv, PageTypes, SaveInv
<1>8. ReplayInv'
  <2>1. /\ replay'.records = s /\ replay'.file = lines /\ replay'.i = 1
        /\ replay'.at = (IF s = <<>> THEN "done" ELSE "play")
        /\ DOMAIN replay' = {"at", "file", "records", "i"}
    BY <1>4
  <2>2. {r.id : r \in Range(s)} = {l.id : l \in {l \in Range(lines) : l.t # "garbled"}}
    BY <1>3, <1>5
  <2>3. s # <<>> => 1 \in 1..Len(s)  BY <1>5, SeqFacts
  <2>4. ShowsRecords(0)'  BY <1>6 DEF ShowsRecords
  <2>5. pill' # "COMPLETE"  BY <1>4
  <2>6. s # <<>> => replay'.i \in 1..Len(s) /\ ShowsRecords(replay.i - 1)'
    <3>1. replay'.i - 1 = 0  BY <2>1
    <3> QED  BY <2>1, <2>3, <2>4, <3>1 DEF ShowsRecords
  <2> QED  BY <1>1, <1>5, <2>1, <2>2, <2>5, <2>6 DEF ReplayInv
<1> QED  BY <1>7, <1>8 DEF HistoryInv

\* The next record of the replay.
LEMMA PlayStep ==
    ASSUME HistoryInv, Play
    PROVE  HistoryInv'
<1>1. /\ mode.kind = "replay" /\ replay.at = "play" /\ mode' = mode
      /\ processRecord(replay.records[replay.i])
      /\ UNCHANGED <<now, trader, sock, wire, sent>>
  BY DEF Play, Replaying
<1>2. PICK last : last = (replay.i = Len(replay.records))  OBVIOUS
<1>3. /\ replay' = [replay EXCEPT
                       !.i = IF last THEN 1 ELSE @ + 1,
                       !.at = IF ~last THEN "play" ELSE IF mode.loop THEN "pause" ELSE "done"]
      /\ pill' = IF last /\ ~mode.loop THEN "COMPLETE" ELSE pill
  BY <1>2 DEF Play
<1>4. /\ IsSeq(replay.records)
      /\ \A k \in 1..Len(replay.records) :
            IsRecord(replay.records[k]) /\ IsTimed(replay.records[k])
      /\ DOMAIN replay = {"at", "file", "records", "i"}
      /\ replay.i \in 1..Len(replay.records) /\ ShowsRecords(replay.i - 1)
      /\ pill # "COMPLETE"
  BY <1>1 DEF HistoryInv, ReplayInv
<1>5. PICK i \in Nat, n \in Nat : i = replay.i /\ n = Len(replay.records) /\ i \in 1..n
  BY <1>4, SeqFacts
<1>6. PICK rec : rec = replay.records[i]  OBVIOUS
<1>7. IsRecord(rec) /\ IsTimed(rec) /\ processRecord(rec)  BY <1>1, <1>4, <1>5, <1>6
<1>8. wire' \in Seq(Frames) /\ mode' = mode /\ now' = now /\ sent' = sent
  BY <1>1 DEF HistoryInv, PageTypes
<1>9. /\ PageTypes' /\ SaveInv'
      /\ Len(shown) \in Nat /\ Len(shown') = Len(shown) + 1
      /\ \A k \in 1..Len(shown) : shown'[k] = shown[k]
      /\ shown'[Len(shown) + 1].id = rec.id
      /\ shown'[Len(shown) + 1].ts = rec.ts
  BY <1>7, <1>8, ShowStep DEF HistoryInv
<1>10. /\ replay'.records = replay.records /\ replay'.file = replay.file
       /\ replay'.i = (IF last THEN 1 ELSE i + 1)
       /\ replay'.at = (IF ~last THEN "play" ELSE IF mode.loop THEN "pause" ELSE "done")
       /\ DOMAIN replay' = {"at", "file", "records", "i"}
  BY <1>3, <1>4, <1>5
<1>11. /\ Len(shown') = i
       /\ \A k \in 1..i : /\ shown'[k].id = replay.records[k].id
                          /\ shown'[k].ts = replay.records[k].ts
  <2>1. Len(shown) = i - 1  BY <1>4, <1>5 DEF ShowsRecords
  <2>2. \A k \in 1..i - 1 : /\ shown[k].id = replay.records[k].id
                            /\ shown[k].ts = replay.records[k].ts
    BY <1>4, <1>5 DEF ShowsRecords
  <2>3. Len(shown') = i  BY <1>9, <2>1
  <2> SUFFICES ASSUME NEW k \in 1..i
               PROVE  /\ shown'[k].id = replay.records[k].id
                      /\ shown'[k].ts = replay.records[k].ts
    BY <2>3
  <2>4. CASE k = i  BY <1>6, <1>9, <2>1, <2>4
  <2>5. CASE k # i  BY <1>9, <2>1, <2>2, <2>5
  <2> QED  BY <2>4, <2>5
<1>12. \A m \in Nat : m = i => ShowsRecords(m)'
  BY <1>10, <1>11 DEF ShowsRecords
<1>13. ReplayInv'
  <2>1. replay'.at = "play" => replay'.i \in 1..n /\ ShowsRecords(replay.i - 1)'
    <3> SUFFICES ASSUME replay'.at = "play"
                 PROVE  replay'.i \in 1..n /\ ShowsRecords(replay.i - 1)'
      OBVIOUS
    <3>1. ~last  BY <1>10
    <3>2. i + 1 \in 1..n /\ (i + 1) - 1 = i
      <4>1. i # n  BY <1>2, <1>5, <3>1
      <4> QED  BY <1>5, <4>1
    <3>3. replay'.i = i + 1  BY <1>10, <3>1
    <3> QED  BY <1>10, <1>11, <3>2, <3>3 DEF ShowsRecords
  <2>2. replay'.at = "pause" => replay'.i = 1 /\ replay'.records # <<>>
    <3>1. replay.records # <<>>  BY <1>4, <1>5, SeqFacts
    <3> QED  BY <1>10, <3>1
  <2>3. pill' = "COMPLETE" => ShowsRecords(Len(replay.records))'
    <3> SUFFICES ASSUME pill' = "COMPLETE" PROVE ShowsRecords(Len(replay.records))'
      OBVIOUS
    <3>1. last /\ i = n  BY <1>2, <1>3, <1>4, <1>5
    <3> QED  BY <1>5, <1>10, <1>11, <3>1 DEF ShowsRecords
  <2>4. replay'.at # "done" => pill' # "COMPLETE"  BY <1>3, <1>4, <1>10
  <2>5. replay'.at \in {"play", "pause", "done"}  BY <1>10
  <2> QED  BY <1>1, <1>5, <1>10, <2>1, <2>2, <2>3, <2>4, <2>5 DEF HistoryInv, ReplayInv
<1> QED  BY <1>9, <1>13 DEF HistoryInv

\* The clean slate of a loop.
LEMMA WipeStep ==
    ASSUME HistoryInv, Wipe
    PROVE  HistoryInv'
<1>1. /\ mode.kind = "replay" /\ replay.at = "pause" /\ mode' = mode
      /\ shown' = <<>> /\ replay' = [replay EXCEPT !.at = "play"]
      /\ UNCHANGED <<pill, snapshot, lastSave, now, trader, sock, wire, sent>>
  BY DEF Wipe, Replaying, live
<1>2. IsHistory(<<>>)  BY NoRecords DEF IsHistory
<1>3. PageTypes' /\ SaveInv'  BY <1>1, <1>2 DEF HistoryInv, PageTypes, SaveInv
<1>4. /\ IsSeq(replay.records) /\ replay.i = 1 /\ replay.records # <<>>
      /\ DOMAIN replay = {"at", "file", "records", "i"} /\ pill # "COMPLETE"
  BY <1>1 DEF HistoryInv, ReplayInv
<1>5. /\ replay'.records = replay.records /\ replay'.file = replay.file /\ replay'.i = 1
      /\ replay'.at = "play" /\ DOMAIN replay' = {"at", "file", "records", "i"}
  BY <1>1, <1>4
<1>6. ReplayInv'
  <2>1. 1 \in 1..Len(replay.records)  BY <1>4, SeqFacts
  <2>2. ShowsRecords(replay.i - 1)'
    <3>1. replay'.i - 1 = 0  BY <1>5
    <3> QED  BY <1>1, <3>1, NoRecords DEF ShowsRecords
  <2> QED  BY <1>1, <1>4, <1>5, <2>1, <2>2 DEF HistoryInv, ReplayInv
<1> QED  BY <1>3, <1>6 DEF HistoryInv

\* No file.
LEMMA FetchFailsStep ==
    ASSUME HistoryInv, FetchFails
    PROVE  HistoryInv'
<1>1. /\ mode.kind = "replay" /\ mode' = mode /\ pill' = "FETCH FAILED"
      /\ replay' = [replay EXCEPT !.at = "done"]
      /\ UNCHANGED <<shown, snapshot, lastSave, now, wire, sent>>
  BY DEF FetchFails, Replaying, live
<1>2. PageTypes' /\ SaveInv'  BY <1>1 DEF HistoryInv, PageTypes, SaveInv
<1>3. DOMAIN replay = {"at", "file", "records", "i"}  BY <1>1 DEF HistoryInv, ReplayInv
<1>4. /\ replay'.records = replay.records /\ replay'.file = replay.file
      /\ replay'.at = "done" /\ DOMAIN replay' = {"at", "file", "records", "i"}
  BY <1>1, <1>3
<1>5. ReplayInv'  BY <1>1, <1>4 DEF HistoryInv, ReplayInv
<1> QED  BY <1>2, <1>5 DEF HistoryInv

\* What was shown, what was saved of it and how far the replay is agree, in both modes,
\* for any symbols, records, faults, reloads and files.
THEOREM HistoryInvariant == Spec => []HistoryInv
<1>1. Init => HistoryInv  BY InitHistory
<1>2. HistoryInv /\ [Next]_vars => HistoryInv'
  <2> SUFFICES ASSUME HistoryInv, [Next]_vars PROVE HistoryInv'  OBVIOUS
  <2>1. CASE TraderStarts \/ TraderStops \/ Opened \/ Closed \/ Retry \/ Tick
    BY <2>1, OtherLiveStep
  <2>2. CASE WriteMeta  BY <2>2, WriteMetaStep
  <2>3. CASE WriteRecord  BY <2>3, WriteRecordStep
  <2>4. CASE Receive  BY <2>4, ReceiveStep
  <2>5. CASE Refresh  BY <2>5, RefreshStep
  <2>6. CASE FetchFails  BY <2>6, FetchFailsStep
  <2>7. CASE Fetched  BY <2>7, FetchedStep
  <2>8. CASE Play  BY <2>8, PlayStep
  <2>9. CASE Wipe  BY <2>9, WipeStep
  <2>10. CASE UNCHANGED vars
    BY <2>10 DEF vars, live, HistoryInv, PageTypes, SaveInv, ReplayInv, ShowsRecords
  <2> QED
    BY <2>1, <2>2, <2>3, <2>4, <2>5, <2>6, <2>7, <2>8, <2>9, <2>10 DEF Next
<1> QED  BY <1>1, <1>2, PTL DEF Spec

\* SnapshotAlmostCurrent is part of that.
LEMMA LittleLost ==
    ASSUME HistoryInv
    PROVE  SnapshotAlmostCurrent
<1> SUFFICES ASSUME mode.kind = "live", mode.storage, shown # <<>>
             PROVE  /\ snapshot.shown # <<>> /\ IsPrefix(snapshot.shown, shown)
                    /\ \A k \in Len(snapshot.shown) + 1..Len(shown) :
                          shown[k].at - Last(snapshot.shown).at < SaveInterval
  BY DEF SnapshotAlmostCurrent
<1>1. IsSeq(shown) /\ IsSeq(snapshot.shown)  BY DEF HistoryInv, PageTypes, IsHistory
<1>2. PICK n \in Nat, m \in Nat : n = Len(snapshot.shown) /\ m = Len(shown)
  BY <1>1, SeqFacts
<1>3. CASE shown = snapshot.shown
  BY <1>2, <1>3 DEF IsPrefix
<1>4. CASE ~(lastSave = Never /\ shown = snapshot.shown)
  <2>1. /\ n \in 1..m
        /\ \A k \in 1..n : snapshot.shown[k] = shown[k]
        /\ shown[n].at = lastSave
        /\ \A k \in n + 1..m : shown[k].at - lastSave < SaveInterval
    BY <1>2, <1>4 DEF HistoryInv, SaveInv
  <2>2. snapshot.shown # <<>>  BY <1>1, <1>2, <2>1, SeqFacts
  <2>3. IsPrefix(snapshot.shown, shown)
    <3>1. PICK T : T = Range(shown) \cup Range(snapshot.shown)  OBVIOUS
    <3>2. PICK s, t : s = snapshot.shown /\ t = shown  OBVIOUS
    <3>3. s \in Seq(T) /\ t \in Seq(T)
      <4>1. PICK A, B : s \in Seq(A) /\ t \in Seq(B)  BY <1>1, <3>2 DEF IsSeq
      <4>2. PICK C : C = A \cup B  OBVIOUS
      <4> QED  BY <3>1, <3>2, <4>1 DEF Range
    <3>4. SubSeq(s, 1, n) = SubSeq(t, 1, n)
      BY <1>2, <2>1, <3>2, <3>3
    <3> QED  BY <1>2, <2>1, <3>2, <3>4 DEF IsPrefix
  <2>4. Last(snapshot.shown).at = lastSave  BY <1>2, <2>1 DEF Last
  <2> QED  BY <1>2, <2>1, <2>2, <2>3, <2>4
<1> QED  BY <1>3, <1>4

\* For every save interval and every run of trader, socket, page and user: with a storage
\* that works, a reload loses only the records of the last interval.
THEOREM ReloadLosesLittle == Spec => []SnapshotAlmostCurrent
  BY HistoryInvariant, LittleLost, PTL

\* CompleteShowsFile is part of that.
LEMMA AllShown ==
    ASSUME HistoryInv
    PROVE  CompleteShowsFile
<1> SUFFICES ASSUME pill = "COMPLETE"
             PROVE  /\ {r.id : r \in Range(shown)}
                         = {l.id : l \in {l \in Range(replay.file) : l.t # "garbled"}}
                    /\ \A j, k \in DOMAIN shown : j < k => Before(shown[j], shown[k])
  BY DEF CompleteShowsFile
<1>1. /\ IsSeq(replay.records) /\ InOrder(replay.records) /\ IsSeq(shown)
      /\ {r.id : r \in Range(replay.records)}
           = {l.id : l \in {l \in Range(replay.file) : l.t # "garbled"}}
      /\ ShowsRecords(Len(replay.records))
  BY DEF HistoryInv, PageTypes, IsHistory, ReplayInv
<1>2. PICK n \in Nat : /\ n = Len(replay.records) /\ n = Len(shown)
                       /\ DOMAIN shown = 1..n /\ DOMAIN replay.records = 1..n
  BY <1>1, SeqFacts DEF ShowsRecords
<1>3. \A k \in 1..n : /\ shown[k].id = replay.records[k].id
                      /\ shown[k].ts = replay.records[k].ts
  BY <1>1, <1>2 DEF ShowsRecords
<1>4. {r.id : r \in Range(shown)} = {r.id : r \in Range(replay.records)}
  BY <1>2, <1>3 DEF Range
<1>5. \A j, k \in DOMAIN shown : j < k => Before(shown[j], shown[k])
  BY <1>1, <1>2, <1>3 DEF InOrder, Before
<1> QED  BY <1>1, <1>4, <1>5

\* For every file: a replay that says COMPLETE has shown each line that parses, in the
\* order of time and, at the same time, of the file.
THEOREM ReplayComplete == Spec => []CompleteShowsFile
  BY HistoryInvariant, AllShown, PTL

-----------------------------------------------------------------------------
(* Recursive functions, and induction over the places of a sequence.       *)

\* F applied n times, to what it gave before and to the number of times.
Steps(g, a, F, n) == g = [k \in 0..n |-> IF k = 0 THEN a ELSE F[<<g[k - 1], k>>]]

\* There is such a function: the recursion of the references is well founded.
LEMMA Recursion ==
    ASSUME NEW A, NEW a \in A, NEW N \in Nat, NEW F,
           \A x \in A, k \in 1..N : F[<<x, k>>] \in A, NEW n \in 0..N
    PROVE  \E g \in [0..n -> A] : Steps(g, a, F, n)
<1> DEFINE Bad == {m \in 0..N : ~\E g \in [0..m -> A] : Steps(g, a, F, m)}
<1>1. SUFFICES ASSUME Bad # {} PROVE FALSE  BY Zenon
<1>2. PICK m \in Bad : \A k \in Bad : m <= k
  <2>1. Bad \subseteq Nat  OBVIOUS
  <2> HIDE DEF Bad
  <2> QED  BY <1>1, <2>1, SmallestElement
<1>3. m # 0
  <2> SUFFICES ASSUME m = 0 PROVE FALSE  OBVIOUS
  <2> DEFINE z == [k \in 0..0 |-> a]
  <2>1. Steps(z, a, F, 0) /\ z \in [0..0 -> A]  BY DEF Steps
  <2> QED  BY <1>2, <2>1
<1>4. m \in 1..N /\ m - 1 \in Nat /\ m - 1 \notin Bad
  <2>1. m \in 0..N  BY <1>2
  <2>2. m \in 1..N /\ m - 1 \in Nat  BY <1>3, <2>1
  <2> HIDE DEF Bad
  <2> QED  BY <1>2, <2>1, <2>2
<1>5. PICK g \in [0..m - 1 -> A] : Steps(g, a, F, m - 1)
  <2>1. m - 1 \in 0..N  BY <1>4
  <2> QED  BY <1>4, <2>1
<1> DEFINE Step(f, k) == IF k = 0 THEN a ELSE F[<<f[k - 1], k>>]
           h == [k \in 0..m |-> IF k < m THEN g[k] ELSE F[<<g[m - 1], m>>]]
<1>6. \A k \in 0..m - 1 : g[k] = Step(g, k)  BY <1>5 DEF Steps
<1>7. \A k \in 0..m : h[k] = Step(h, k)
  <2> SUFFICES ASSUME NEW k \in 0..m PROVE h[k] = Step(h, k)  OBVIOUS
  <2>1. k # 0 => k - 1 \in 0..m /\ k - 1 < m /\ h[k - 1] = g[k - 1]  BY <1>4
  <2>2. Step(h, k) = Step(g, k)  BY <2>1
  <2>3. CASE k < m  BY <1>4, <1>6, <2>2, <2>3
  <2>4. CASE k = m  BY <1>3, <1>4, <2>2, <2>4
  <2> QED  BY <1>4, <2>3, <2>4
<1>8. Steps(h, a, F, m)
  <2> DEFINE f == [k \in 0..m |-> Step(h, k)]
  <2>1. \A k \in 0..m : h[k] = f[k]  BY <1>7
  <2>2. h = f  BY <2>1
  <2> QED  BY <2>2 DEF Steps
<1>9. h \in [0..m -> A]
  <2>1. g[m - 1] \in A  BY <1>4, <1>5
  <2>2. F[<<g[m - 1], m>>] \in A  BY <1>4, <2>1
  <2>3. \A k \in 0..m : k < m => g[k] \in A  BY <1>4, <1>5
  <2> QED  BY <2>2, <2>3
<1> QED  BY <1>2, <1>8, <1>9

\* Induction: a set that holds 0 and, with every place before n, the next one.
LEMMA EveryPlace ==
    ASSUME NEW S, NEW n \in Nat, 0 \in S, \A k \in 1..n : k - 1 \in S => k \in S
    PROVE  n \in S
<1> DEFINE Bad == {k \in 0..n : k \notin S}
<1>1. SUFFICES ASSUME Bad # {} PROVE FALSE  OBVIOUS
<1>2. PICK m \in Bad : \A k \in Bad : m <= k
  <2>1. Bad \subseteq Nat  OBVIOUS
  <2> HIDE DEF Bad
  <2> QED  BY <1>1, <2>1, SmallestElement
<1>3. m \in 0..n /\ m \notin S /\ m # 0  BY <1>2
<1>4. m - 1 \in 0..n /\ m - 1 < m /\ m \in 1..n  BY <1>3
<1>5. m - 1 \notin Bad
  <2> HIDE DEF Bad
  <2> QED  BY <1>2, <1>3, <1>4
<1> QED  BY <1>3, <1>4, <1>5

-----------------------------------------------------------------------------
(* The ids of some records.                                                *)

IdsFrom(ids, recs, places, n) ==
    ids = [k \in 0..n |->
              IF k = 0 THEN <<>>
              ELSE IF k \in places THEN Append(ids[k - 1], recs[k].id) ELSE ids[k - 1]]

\* The equations of the ids.
IdsTo(ids, recs, places, n) ==
    /\ IdsAt(recs, places) = ids[n] /\ ids[0] = <<>>
    /\ \A k \in 1..n : ids[k] = IF k \in places THEN Append(ids[k - 1], recs[k].id)
                                ELSE ids[k - 1]

\* The reference ids satisfy their equations.
LEMMA IdsIs ==
    ASSUME NEW recs, NEW places, NEW n, n \in Nat, n = Len(recs),
           \A k \in 1..n : recs[k].id \in Int
    PROVE  \E ids \in [0..n -> Seq(Int)] : IdsTo(ids, recs, places, n)
<1>1. PICK F : F = [p \in Seq(Int) \X (1..n) |->
                      IF p[2] \in places THEN Append(p[1], recs[p[2]].id) ELSE p[1]]
  OBVIOUS
<1>2. ASSUME NEW x \in Seq(Int), NEW k \in 1..n
      PROVE  /\ F[<<x, k>>] = IF k \in places THEN Append(x, recs[k].id) ELSE x
             /\ F[<<x, k>>] \in Seq(Int)
  <2>1. F[<<x, k>>] = IF k \in places THEN Append(x, recs[k].id) ELSE x  BY <1>1
  <2>2. Append(x, recs[k].id) \in Seq(Int)  BY AppendProperties
  <2> QED  BY <2>1, <2>2
<1>3. PICK g \in [0..n -> Seq(Int)] : Steps(g, <<>>, F, n)
  <2>1. <<>> \in Seq(Int) /\ n \in 0..n  BY EmptySeq
  <2> QED  BY <1>2, <2>1, Recursion
<1>4. /\ g[0] = <<>>
      /\ \A k \in 1..n : g[k] = IF k \in places THEN Append(g[k - 1], recs[k].id) ELSE g[k - 1]
  <2>1. g[0] = <<>> /\ \A k \in 1..n : g[k] = F[<<g[k - 1], k>>]  BY <1>3 DEF Steps
  <2>2. \A k \in 1..n : g[k - 1] \in Seq(Int)  OBVIOUS
  <2> QED  BY <1>2, <2>1, <2>2
<1>5. IdsFrom(g, recs, places, n)
  <2> DEFINE h == [k \in 0..n |->
              IF k = 0 THEN <<>>
              ELSE IF k \in places THEN Append(g[k - 1], recs[k].id) ELSE g[k - 1]]
  <2>1. \A k \in 0..n : k = 0 \/ k \in 1..n  OBVIOUS
  <2>2. \A k \in 0..n : g[k] = h[k]  BY <1>4, <2>1
  <2>3. g = h  BY <2>2
  <2> QED  BY <2>3 DEF IdsFrom
<1>6. IdsAt(recs, places) = (CHOOSE f : IdsFrom(f, recs, places, n))[n]
  BY Zenon DEF IdsAt, IdsFrom
<1>7. IdsFrom(CHOOSE f : IdsFrom(f, recs, places, n), recs, places, n)  BY <1>5, Zenon
<1>8. PICK f : IdsFrom(f, recs, places, n) /\ IdsAt(recs, places) = f[n]  BY <1>6, <1>7
<1>9. /\ f[0] = <<>>
      /\ \A k \in 1..n : f[k] = IF k \in places THEN Append(f[k - 1], recs[k].id) ELSE f[k - 1]
  <2>1. \A k \in 0..n : f[k] = IF k = 0 THEN <<>>
                             ELSE IF k \in places THEN Append(f[k - 1], recs[k].id) ELSE f[k - 1]
    BY <1>8 DEF IdsFrom
  <2>2. 0 \in 0..n /\ \A k \in 1..n : k \in 0..n /\ k # 0  OBVIOUS
  <2> QED  BY <2>1, <2>2
<1>10. f[0] = g[0]  BY <1>4, <1>9
<1>11. \A k \in 1..n : f[k - 1] = g[k - 1] => f[k] = g[k]  BY <1>4, <1>9
<1>12. f[n] = g[n]
  <2> DEFINE Same == {k \in 0..n : f[k] = g[k]}
  <2>1. 0 \in Same  BY <1>10
  <2>2. \A k \in 1..n : k - 1 \in Same => k \in Same
    <3>1. \A k \in 1..n : k \in 0..n  OBVIOUS
    <3> QED  BY <1>11, <3>1, Zenon
  <2>3. n \in Same
    <3> HIDE DEF Same
    <3> QED  BY <2>1, <2>2, EveryPlace
  <2> QED  BY <2>3
<1> QED  BY <1>4, <1>8, <1>12 DEF IdsTo

\* The ids of one more record.
Longer(ids, was, k, places, id) == ids = IF k \in places THEN Append(was, id) ELSE was

\* The ids of the longer of two sequences of records.
LEMMA IdsGrow ==
    ASSUME NEW recs, NEW t, NEW places, NEW later, NEW n \in Nat, n = Len(recs),
           Len(t) = n + 1, \A k \in 1..n : t[k] = recs[k],
           \A k \in 1..n : k \in later <=> k \in places,
           \A k \in 1..n + 1 : t[k].id \in Int
    PROVE  Longer(IdsAt(t, later), IdsAt(recs, places), n + 1, later, t[n + 1].id)
<1>1. PICK f \in [0..n -> Seq(Int)] : IdsTo(f, recs, places, n)
  <2>1. \A k \in 1..n : recs[k].id \in Int  OBVIOUS
  <2> QED  BY <2>1, IdsIs
<1>2. PICK g \in [0..n + 1 -> Seq(Int)] : IdsTo(g, t, later, n + 1)
  <2>1. PICK m \in Nat : m = n + 1  OBVIOUS
  <2>2. m = Len(t) /\ \A k \in 1..m : t[k].id \in Int  BY <2>1
  <2>3. \E ids \in [0..m -> Seq(Int)] : IdsTo(ids, t, later, m)  BY <2>2, IdsIs
  <2> QED  BY <2>1, <2>3
<1>3. f[0] = g[0]  BY <1>1, <1>2 DEF IdsTo
<1>4. f[n] = g[n]
  <2>1. \A k \in 1..n : f[k - 1] = g[k - 1] => f[k] = g[k]
    <3>1. \A k \in 1..n : k \in 1..n + 1  OBVIOUS
    <3> QED  BY <1>1, <1>2, <3>1 DEF IdsTo
  <2> DEFINE Same == {k \in 0..n : f[k] = g[k]}
  <2>2. 0 \in Same  BY <1>3
  <2>3. \A k \in 1..n : k - 1 \in Same => k \in Same
    <3>1. \A k \in 1..n : k \in 0..n  OBVIOUS
    <3> QED  BY <2>1, <3>1, Zenon
  <2>4. n \in Same
    <3> HIDE DEF Same
    <3> QED  BY <2>2, <2>3, EveryPlace
  <2> QED  BY <2>4
<1>5. g[n + 1] = IF n + 1 \in later THEN Append(g[n], t[n + 1].id) ELSE g[n]
  <2>1. n + 1 \in 1..n + 1 /\ (n + 1) - 1 = n  OBVIOUS
  <2> QED  BY <1>2, <2>1 DEF IdsTo
<1> QED  BY <1>1, <1>2, <1>4, <1>5 DEF IdsTo, Longer

\* No records, no ids.
LEMMA IdsOfNone ==
    ASSUME NEW places
    PROVE  IdsAt(<<>>, places) = <<>>
<1>1. 0 \in Nat /\ 0 = Len(<<>>) /\ \A k \in 1..0 : <<>>[k].id \in Int  OBVIOUS
<1>2. PICK f \in [0..0 -> Seq(Int)] : IdsTo(f, <<>>, places, 0)  BY <1>1, IdsIs
<1> QED  BY <1>2 DEF IdsTo

-----------------------------------------------------------------------------
(* The symbols of some records.                                            *)

JoinedFrom(joined, seq, list, n) ==
    joined = [k \in 0..n |->
                IF k = 0 THEN seq
                ELSE IF Contains(joined[k - 1], list[k]) THEN joined[k - 1]
                ELSE Append(joined[k - 1], list[k])]

JoinedTo(joined, seq, list, n) ==
    /\ Joined(seq, list) = joined[n] /\ joined[0] = seq
    /\ \A k \in 1..n : joined[k] = IF Contains(joined[k - 1], list[k])
                                   THEN joined[k - 1]
                                   ELSE Append(joined[k - 1], list[k])

\* The reference satisfies its equations.
LEMMA JoinedIs ==
    ASSUME NEW seq, NEW list, NEW n, seq \in Seq(Symbols), n \in Nat, n = Len(list),
           \A k \in 1..n : list[k] \in Symbols
    PROVE  \E joined \in [0..n -> Seq(Symbols)] : JoinedTo(joined, seq, list, n)
<1>1. PICK F : F = [p \in Seq(Symbols) \X (1..n) |->
                      IF Contains(p[1], list[p[2]]) THEN p[1] ELSE Append(p[1], list[p[2]])]
  OBVIOUS
<1>2. ASSUME NEW x \in Seq(Symbols), NEW k \in 1..n
      PROVE  /\ F[<<x, k>>] = IF Contains(x, list[k]) THEN x ELSE Append(x, list[k])
             /\ F[<<x, k>>] \in Seq(Symbols)
  <2>1. F[<<x, k>>] = IF Contains(x, list[k]) THEN x ELSE Append(x, list[k])  BY <1>1
  <2>2. Append(x, list[k]) \in Seq(Symbols)  BY AppendProperties
  <2> QED  BY <2>1, <2>2
<1>3. PICK g \in [0..n -> Seq(Symbols)] : Steps(g, seq, F, n)
  <2>1. n \in 0..n  OBVIOUS
  <2> QED  BY <1>2, <2>1, Recursion
<1>4. /\ g[0] = seq
      /\ \A k \in 1..n : g[k] = IF Contains(g[k - 1], list[k]) THEN g[k - 1]
                                ELSE Append(g[k - 1], list[k])
  <2>1. g[0] = seq /\ \A k \in 1..n : g[k] = F[<<g[k - 1], k>>]
    <3>1. \A k \in 0..n : g[k] = IF k = 0 THEN seq ELSE F[<<g[k - 1], k>>]  BY <1>3 DEF Steps
    <3>2. 0 \in 0..n /\ \A k \in 1..n : k \in 0..n /\ k # 0  OBVIOUS
    <3> QED  BY <3>1, <3>2
  <2>2. \A k \in 1..n : g[k - 1] \in Seq(Symbols)  OBVIOUS
  <2> QED  BY <1>2, <2>1, <2>2
<1>5. JoinedFrom(g, seq, list, n)
  <2> DEFINE h == [k \in 0..n |->
                IF k = 0 THEN seq
                ELSE IF Contains(g[k - 1], list[k]) THEN g[k - 1]
                ELSE Append(g[k - 1], list[k])]
  <2>1. \A k \in 0..n : k = 0 \/ k \in 1..n  OBVIOUS
  <2>2. \A k \in 0..n : g[k] = h[k]  BY <1>4, <2>1
  <2>3. g = h  BY <2>2
  <2> QED  BY <2>3 DEF JoinedFrom
<1>6. Joined(seq, list) = (CHOOSE f : JoinedFrom(f, seq, list, n))[n]
  BY Zenon DEF Joined, JoinedFrom
<1>7. JoinedFrom(CHOOSE f : JoinedFrom(f, seq, list, n), seq, list, n)  BY <1>5, Zenon
<1>8. PICK f : JoinedFrom(f, seq, list, n) /\ Joined(seq, list) = f[n]  BY <1>6, <1>7
<1>9. f[0] = seq /\ \A k \in 1..n : f[k] = IF Contains(f[k - 1], list[k]) THEN f[k - 1]
                                ELSE Append(f[k - 1], list[k])
  <2>1. \A k \in 0..n : f[k] = IF k = 0 THEN seq ELSE IF Contains(f[k - 1], list[k]) THEN f[k - 1]
                                ELSE Append(f[k - 1], list[k])
    BY <1>8 DEF JoinedFrom
  <2>2. 0 \in 0..n /\ \A k \in 1..n : k \in 0..n /\ k # 0  OBVIOUS
  <2> QED  BY <2>1, <2>2
<1>10. f[0] = g[0]  BY <1>4, <1>9
<1>11. \A k \in 1..n : f[k - 1] = g[k - 1] => f[k] = g[k]  BY <1>4, <1>9
<1>12. f[n] = g[n]
  <2> DEFINE Same == {k \in 0..n : f[k] = g[k]}
  <2>1. 0 \in Same  BY <1>10
  <2>2. \A k \in 1..n : k - 1 \in Same => k \in Same
    <3>1. \A k \in 1..n : k \in 0..n  OBVIOUS
    <3> QED  BY <1>11, <3>1, Zenon
  <2>3. n \in Same
    <3> HIDE DEF Same
    <3> QED  BY <2>1, <2>2, EveryPlace
  <2> QED  BY <2>3
<1> QED  BY <1>4, <1>8, <1>12 DEF JoinedTo

\* Symbols joined to symbols.
LEMMA JoinedType ==
    ASSUME NEW seq \in Seq(Symbols), NEW list \in Seq(Symbols)
    PROVE  Joined(seq, list) \in Seq(Symbols)
<1>1. PICK n \in Nat : n = Len(list) /\ \A k \in 1..n : list[k] \in Symbols
  BY LenProperties, ElementOfSeq
<1>2. PICK j \in [0..n -> Seq(Symbols)] : JoinedTo(j, seq, list, n)  BY <1>1, JoinedIs
<1> QED  BY <1>2 DEF JoinedTo

\* One symbol joined.
LEMMA JoinedOne ==
    ASSUME NEW seq \in Seq(Symbols), NEW s \in Symbols
    PROVE  Joined(seq, <<s>>) = IF Contains(seq, s) THEN seq ELSE Append(seq, s)
<1>0. PICK list : list = <<s>>  OBVIOUS
<1>1. PICK n \in Nat : list = <<s>> /\ n = 1 /\ n = Len(list)  BY <1>0
<1>2. list[1] = s /\ \A k \in 1..n : list[k] \in Symbols  BY <1>1
<1>3. PICK j \in [0..n -> Seq(Symbols)] : JoinedTo(j, seq, list, n)
  BY <1>1, <1>2, JoinedIs
<1>4. j[1] = IF Contains(j[0], s) THEN j[0] ELSE Append(j[0], s)
  <2>1. 1 \in 1..n /\ 1 - 1 = 0  BY <1>1
  <2> QED  BY <1>2, <1>3, <2>1 DEF JoinedTo
<1> QED  BY <1>1, <1>3, <1>4 DEF JoinedTo

NamedFrom(named, recs, n) ==
    named = [k \in 0..n |->
                IF k = 0 THEN <<>> ELSE Joined(named[k - 1], SymbolsIn(recs[k]))]

NamedTo(named, recs, n) ==
    /\ Named(recs) = named[n] /\ named[0] = <<>>
    /\ \A k \in 1..n : named[k] = Joined(named[k - 1], SymbolsIn(recs[k]))

\* The reference satisfies its equations.
LEMMA NamedIs ==
    ASSUME NEW recs, NEW n \in Nat, n = Len(recs),
           \A k \in 1..n : SymbolsIn(recs[k]) \in Seq(Symbols)
    PROVE  \E named \in [0..n -> Seq(Symbols)] : NamedTo(named, recs, n)
<1>1. PICK F : F = [p \in Seq(Symbols) \X (1..n) |-> Joined(p[1], SymbolsIn(recs[p[2]]))]
  OBVIOUS
<1>2. ASSUME NEW x \in Seq(Symbols), NEW k \in 1..n
      PROVE  /\ F[<<x, k>>] = Joined(x, SymbolsIn(recs[k]))
             /\ F[<<x, k>>] \in Seq(Symbols)
  <2>1. F[<<x, k>>] = Joined(x, SymbolsIn(recs[k]))  BY <1>1
  <2> QED  BY <2>1, JoinedType
<1>3. PICK g \in [0..n -> Seq(Symbols)] : Steps(g, <<>>, F, n)
  <2>1. <<>> \in Seq(Symbols) /\ n \in 0..n  BY EmptySeq
  <2> QED  BY <1>2, <2>1, Recursion
<1>4. g[0] = <<>> /\ \A k \in 1..n : g[k] = Joined(g[k - 1], SymbolsIn(recs[k]))
  <2>1. g[0] = <<>> /\ \A k \in 1..n : g[k] = F[<<g[k - 1], k>>]  BY <1>3 DEF Steps
  <2>2. \A k \in 1..n : g[k - 1] \in Seq(Symbols)  OBVIOUS
  <2> QED  BY <1>2, <2>1, <2>2
<1>5. NamedFrom(g, recs, n)
  <2> DEFINE h == [k \in 0..n |->
                IF k = 0 THEN <<>> ELSE Joined(g[k - 1], SymbolsIn(recs[k]))]
  <2>1. \A k \in 0..n : k = 0 \/ k \in 1..n  OBVIOUS
  <2>2. \A k \in 0..n : g[k] = h[k]  BY <1>4, <2>1
  <2>3. g = h  BY <2>2
  <2> QED  BY <2>3 DEF NamedFrom
<1>6. Named(recs) = (CHOOSE f : NamedFrom(f, recs, n))[n]
  BY Zenon DEF Named, NamedFrom
<1>7. NamedFrom(CHOOSE f : NamedFrom(f, recs, n), recs, n)  BY <1>5, Zenon
<1>8. PICK f : NamedFrom(f, recs, n) /\ Named(recs) = f[n]  BY <1>6, <1>7
<1>9. f[0] = <<>> /\ \A k \in 1..n : f[k] = Joined(f[k - 1], SymbolsIn(recs[k]))
  <2>1. \A k \in 0..n : f[k] = IF k = 0 THEN <<>> ELSE Joined(f[k - 1], SymbolsIn(recs[k]))
    BY <1>8 DEF NamedFrom
  <2>2. 0 \in 0..n /\ \A k \in 1..n : k \in 0..n /\ k # 0  OBVIOUS
  <2> QED  BY <2>1, <2>2
<1>10. f[0] = g[0]  BY <1>4, <1>9
<1>11. \A k \in 1..n : f[k - 1] = g[k - 1] => f[k] = g[k]  BY <1>4, <1>9
<1>12. f[n] = g[n]
  <2> DEFINE Same == {k \in 0..n : f[k] = g[k]}
  <2>1. 0 \in Same  BY <1>10
  <2>2. \A k \in 1..n : k - 1 \in Same => k \in Same
    <3>1. \A k \in 1..n : k \in 0..n  OBVIOUS
    <3> QED  BY <1>11, <3>1, Zenon
  <2>3. n \in Same
    <3> HIDE DEF Same
    <3> QED  BY <2>1, <2>2, EveryPlace
  <2> QED  BY <2>3
<1> QED  BY <1>4, <1>8, <1>12 DEF NamedTo

\* The symbols named by one record more.
LEMMA NamedGrows ==
    ASSUME NEW recs, NEW t, NEW n \in Nat, n = Len(recs),
           Len(t) = n + 1, \A k \in 1..n : t[k] = recs[k],
           \A k \in 1..n + 1 : SymbolsIn(t[k]) \in Seq(Symbols)
    PROVE  /\ Named(recs) \in Seq(Symbols)
           /\ Named(t) = Joined(Named(recs), SymbolsIn(t[n + 1]))
<1>1. PICK f \in [0..n -> Seq(Symbols)] : NamedTo(f, recs, n)
  <2>1. \A k \in 1..n : SymbolsIn(recs[k]) \in Seq(Symbols)
    <3>1. \A k \in 1..n : k \in 1..n + 1 /\ SymbolsIn(recs[k]) = SymbolsIn(t[k])  OBVIOUS
    <3> QED  BY <3>1
  <2> QED  BY <2>1, NamedIs
<1>2. PICK g \in [0..n + 1 -> Seq(Symbols)] : NamedTo(g, t, n + 1)
  <2>1. PICK m \in Nat : m = n + 1  OBVIOUS
  <2>2. m = Len(t) /\ \A k \in 1..m : SymbolsIn(t[k]) \in Seq(Symbols)  BY <2>1
  <2>3. \E named \in [0..m -> Seq(Symbols)] : NamedTo(named, t, m)  BY <2>2, NamedIs
  <2> QED  BY <2>1, <2>3
<1>3. f[0] = g[0]  BY <1>1, <1>2 DEF NamedTo
<1>4. f[n] = g[n]
  <2>1. \A k \in 1..n : f[k - 1] = g[k - 1] => f[k] = g[k]
    <3>1. \A k \in 1..n : k \in 1..n + 1  OBVIOUS
    <3> QED  BY <1>1, <1>2, <3>1 DEF NamedTo
  <2> DEFINE Same == {k \in 0..n : f[k] = g[k]}
  <2>2. 0 \in Same  BY <1>3
  <2>3. \A k \in 1..n : k - 1 \in Same => k \in Same
    <3>1. \A k \in 1..n : k \in 0..n  OBVIOUS
    <3> QED  BY <2>1, <3>1, Zenon
  <2>4. n \in Same
    <3> HIDE DEF Same
    <3> QED  BY <2>2, <2>3, EveryPlace
  <2> QED  BY <2>4
<1>5. g[n + 1] = Joined(g[n], SymbolsIn(t[n + 1]))
  <2>1. n + 1 \in 1..n + 1 /\ (n + 1) - 1 = n  OBVIOUS
  <2> QED  BY <1>2, <2>1 DEF NamedTo
<1> QED  BY <1>1, <1>2, <1>4, <1>5 DEF NamedTo

\* Nobody is named by no records.
LEMMA NamedNone == Named(<<>>) = <<>>
<1>1. 0 \in Nat /\ 0 = Len(<<>>) /\ \A k \in 1..0 : SymbolsIn(<<>>[k]) \in Seq(Symbols)
  OBVIOUS
<1>2. PICK f \in [0..0 -> Seq(Symbols)] : NamedTo(f, <<>>, 0)  BY <1>1, NamedIs
<1> QED  BY <1>2 DEF NamedTo

-----------------------------------------------------------------------------
(* Ring buffers.                                                           *)

\* The larger of two numbers.
LEMMA MaxOfTwo ==
    ASSUME NEW a \in Int, NEW b \in Int
    PROVE  Max({a, b}) = IF a >= b THEN a ELSE b
<1>1. PICK m : m = IF a >= b THEN a ELSE b  OBVIOUS
<1>2. m \in {a, b} /\ \A y \in {a, b} : m >= y  BY <1>1
<1>3. \A x \in {a, b} : (\A y \in {a, b} : x >= y) => x = m  BY <1>1
<1>4. PICK x \in {a, b} : x = Max({a, b}) /\ \A y \in {a, b} : x >= y  BY <1>2 DEF Max
<1> QED  BY <1>1, <1>3, <1>4

\* r holds the last m elements of s.
EndOf(r, s, m) ==
    /\ r \in Seq(Int) /\ Len(r) = m
    /\ \A i \in 1..m : r[i] = s[Len(s) - m + i]

\* The newest n of a sequence.
LEMMA RecentIs ==
    ASSUME NEW s \in Seq(Int), NEW n \in Nat \ {0}
    PROVE  EndOf(Recent(s, n), s, IF Len(s) < n THEN Len(s) ELSE n)
<1>1. PICK k \in Nat : k = Len(s) /\ \A i \in 1..k : s[i] \in Int
  BY LenProperties, ElementOfSeq
<1>2. PICK m \in Nat : m = IF k < n THEN k ELSE n  BY <1>1
<1>3. m <= k /\ k - m + 1 \in Int /\ k - m + 1 >= 1  BY <1>1, <1>2
<1>4. Max({1, k - n + 1}) = k - m + 1
  <2>1. k - n + 1 \in Int  OBVIOUS
  <2>2. Max({1, k - n + 1}) = IF 1 >= k - n + 1 THEN 1 ELSE k - n + 1  BY <2>1, MaxOfTwo
  <2> QED  BY <1>2, <2>2
<1>5. PICK a \in Int : a = k - m + 1  BY <1>3
<1> DEFINE r == SubSeq(s, a, k)
<1>6. Recent(s, n) = r  BY <1>1, <1>4, <1>5 DEF Recent
<1>7. /\ r \in Seq(Int)
      /\ Len(r) = IF a <= k THEN k - a + 1 ELSE 0
      /\ \A i \in 1..k - a + 1 : r[i] = s[a + i - 1]
  <2>1. \A i \in a..k : s[i] \in Int  BY <1>1, <1>3, <1>5
  <2> QED  BY <1>5, <2>1, SubSeqProperties
<1>8. Len(r) = m /\ k - a + 1 = m  BY <1>3, <1>5, <1>7
<1>9. \A i \in 1..m : r[i] = s[k - m + i]
  <2>1. \A i \in 1..m : a + i - 1 = k - m + i  BY <1>5
  <2> QED  BY <1>7, <1>8, <2>1
<1> QED  BY <1>1, <1>2, <1>6, <1>7, <1>8, <1>9 DEF EndOf

\* Nothing of nothing.
LEMMA RecentNone ==
    ASSUME NEW n \in Nat \ {0}
    PROVE  Recent(<<>>, n) = <<>>
<1>1. Max({1, 0 - n + 1}) = 1
  <2>1. 0 - n + 1 \in Int /\ 1 >= 0 - n + 1  OBVIOUS
  <2> QED  BY <2>1, MaxOfTwo
<1>2. SubSeq(<<>>, 1, 0) = <<>>  BY SubSeqEmpty
<1> QED  BY <1>1, <1>2, EmptySeq DEF Recent

\* push() and shift() keep the newest n.
LEMMA PushedRecent ==
    ASSUME NEW s \in Seq(Int), NEW x \in Int, NEW n \in Nat \ {0}
    PROVE  Pushed(Recent(s, n), x, n) = Recent(Append(s, x), n)
<1>1. PICK k \in Nat : k = Len(s)  BY LenProperties
<1>2. PICK m \in Nat : m = IF k < n THEN k ELSE n  BY <1>1
<1>3. PICK r \in Seq(Int) : r = Recent(s, n) /\ Len(r) = m
                            /\ \A i \in 1..m : r[i] = s[k - m + i]
  <2>1. EndOf(Recent(s, n), s, IF Len(s) < n THEN Len(s) ELSE n)  BY RecentIs
  <2> QED  BY <1>1, <1>2, <2>1 DEF EndOf
<1>4. PICK t \in Seq(Int) : t = Append(s, x) /\ Len(t) = k + 1 /\ t[k + 1] = x
                            /\ \A i \in 1..k : t[i] = s[i]
  <2>1. /\ Append(s, x) \in Seq(Int) /\ Len(Append(s, x)) = Len(s) + 1
        /\ \A i \in 1..Len(s) : Append(s, x)[i] = s[i]
        /\ Append(s, x)[Len(s) + 1] = x
    BY AppendProperties
  <2> QED  BY <1>1, <2>1
<1>5. PICK p \in Nat : p = IF k + 1 < n THEN k + 1 ELSE n  BY <1>1
<1>6. PICK q \in Seq(Int) : q = Recent(t, n) /\ Len(q) = p
                            /\ \A i \in 1..p : q[i] = t[k + 1 - p + i]
  <2>1. EndOf(Recent(t, n), t, IF Len(t) < n THEN Len(t) ELSE n)  BY RecentIs
  <2>2. EndOf(Recent(t, n), t, p)  BY <1>4, <1>5, <2>1
  <2>3. PICK l \in Nat : l = Len(t) /\ l = k + 1  BY <1>4
  <2>4. \A i \in 1..p : l - p + i = k + 1 - p + i  BY <2>3
  <2>5. \A i \in 1..p : Recent(t, n)[i] = t[l - p + i]  BY <2>2, <2>3 DEF EndOf
  <2>6. \A i \in 1..p : Recent(t, n)[i] = t[k + 1 - p + i]
    <3> SUFFICES ASSUME NEW i \in 1..p PROVE Recent(t, n)[i] = t[k + 1 - p + i]  OBVIOUS
    <3> QED  BY <2>4, <2>5
  <2>7. Recent(t, n) \in Seq(Int) /\ Len(Recent(t, n)) = p  BY <2>2 DEF EndOf
  <2> QED  BY <2>6, <2>7
<1>7. PICK l \in Seq(Int) : l = Append(r, x) /\ Len(l) = m + 1 /\ l[m + 1] = x
                            /\ \A i \in 1..m : l[i] = r[i]
  <2>1. /\ Append(r, x) \in Seq(Int) /\ Len(Append(r, x)) = Len(r) + 1
        /\ \A i \in 1..Len(r) : Append(r, x)[i] = r[i]
        /\ Append(r, x)[Len(r) + 1] = x
    BY AppendProperties
  <2> QED  BY <1>3, <2>1
<1>8. \A i \in 1..m : l[i] = t[k - m + i]
  <2> SUFFICES ASSUME NEW i \in 1..m PROVE l[i] = t[k - m + i]  OBVIOUS
  <2>1. k - m + i \in 1..k  BY <1>2
  <2> QED  BY <1>3, <1>4, <1>7, <2>1
<1>9. CASE k < n
  <2>1. m = k /\ p = m + 1 /\ ~(m + 1 > n)  BY <1>2, <1>5, <1>9
  <2>2. Pushed(r, x, n) = l  BY <1>7, <2>1 DEF Pushed
  <2>3. \A i \in 1..m + 1 : l[i] = q[i]
    <3> SUFFICES ASSUME NEW i \in 1..m + 1 PROVE l[i] = q[i]  OBVIOUS
    <3>1. q[i] = t[i]
      <4>1. k + 1 - p + i = i  BY <2>1
      <4> QED  BY <1>6, <2>1, <4>1
    <3>2. CASE i = m + 1  BY <1>4, <1>7, <2>1, <3>1, <3>2
    <3>3. CASE i # m + 1
      <4>1. i \in 1..m /\ k - m + i = i  BY <2>1, <3>3
      <4> QED  BY <1>8, <3>1, <4>1
    <3> QED  BY <3>2, <3>3
  <2>4. l = q  BY <1>6, <1>7, <2>1, <2>3, SeqEqual
  <2> QED  BY <1>3, <1>4, <1>6, <2>2, <2>4
<1>10. CASE ~(k < n)
  <2>1. m = n /\ p = n /\ m + 1 > n /\ n <= k  BY <1>2, <1>5, <1>10
  <2>2. Pushed(r, x, n) = Tail(l)  BY <1>7, <2>1 DEF Pushed
  <2>3. l # <<>>  BY <1>7, EmptySeq
  <2>4. PICK u \in Seq(Int) : u = Tail(l) /\ Len(u) = m /\ \A i \in 1..m : u[i] = l[i + 1]
    <3>1. /\ Tail(l) \in Seq(Int) /\ Len(Tail(l)) = Len(l) - 1
          /\ \A i \in 1..Len(Tail(l)) : Tail(l)[i] = l[i + 1]
      BY <2>3, HeadTailProperties
    <3>2. Len(l) - 1 = m  BY <1>7
    <3> QED  BY <3>1, <3>2
  <2>5. \A i \in 1..m : u[i] = q[i]
    <3> SUFFICES ASSUME NEW i \in 1..m PROVE u[i] = q[i]  OBVIOUS
    <3>1. q[i] = t[k + 1 - n + i]  BY <1>6, <2>1
    <3>2. CASE i = m
      <4>1. k + 1 - n + i = k + 1  BY <2>1, <3>2
      <4> QED  BY <1>4, <1>7, <2>4, <3>1, <3>2, <4>1
    <3>3. CASE i # m
      <4>1. i + 1 \in 1..m /\ k - m + (i + 1) = k + 1 - n + i  BY <2>1, <3>3
      <4>2. l[i + 1] = t[k - m + (i + 1)]  BY <1>8, <4>1
      <4> QED  BY <2>4, <3>1, <4>1, <4>2
    <3> QED  BY <3>2, <3>3
  <2>6. u = q  BY <1>6, <2>1, <2>4, <2>5, SeqEqual
  <2> QED  BY <1>3, <1>4, <1>6, <2>2, <2>4, <2>6
<1> QED  BY <1>9, <1>10

Turned(r, s) ==
    /\ r \in Seq(Int) /\ Len(r) = Len(s)
    /\ \A i \in 1..Len(s) : r[i] = s[Len(s) - i + 1]

\* A sequence, reversed.
LEMMA ReverseIs ==
    ASSUME NEW s \in Seq(Int)
    PROVE  Turned(Reverse(s), s)
<1>1. PICK k \in Nat : k = Len(s) /\ \A i \in 1..k : s[i] \in Int
  BY LenProperties, ElementOfSeq
<1>2. PICK r : r = [i \in 1..k |-> s[k - i + 1]]  OBVIOUS
<1>3. \A i \in 1..k : k - i + 1 \in 1..k  OBVIOUS
<1>4. r \in [1..k -> Int]  BY <1>1, <1>2, <1>3
<1>5. r \in Seq(Int) /\ Len(r) = k  BY <1>4
<1>6. Reverse(s) = r  BY <1>1, <1>2 DEF Reverse
<1> QED  BY <1>1, <1>2, <1>5, <1>6 DEF Turned

\* unshift() and pop() keep the newest n, newest first.
LEMMA UnshiftedRecent ==
    ASSUME NEW s \in Seq(Int), NEW x \in Int, NEW n \in Nat \ {0}
    PROVE  Unshifted(Reverse(Recent(s, n)), x, n) = Reverse(Recent(Append(s, x), n))
<1>1. PICK k \in Nat : k = Len(s)  BY LenProperties
<1>2. PICK m \in Nat : m = IF k < n THEN k ELSE n  BY <1>1
<1>3. PICK r \in Seq(Int) : r = Recent(s, n) /\ Len(r) = m
                            /\ \A i \in 1..m : r[i] = s[k - m + i]
  <2>1. EndOf(Recent(s, n), s, IF Len(s) < n THEN Len(s) ELSE n)  BY RecentIs
  <2> QED  BY <1>1, <1>2, <2>1 DEF EndOf
<1>4. PICK t \in Seq(Int) : t = Append(s, x) /\ Len(t) = k + 1 /\ t[k + 1] = x
                            /\ \A i \in 1..k : t[i] = s[i]
  <2>1. /\ Append(s, x) \in Seq(Int) /\ Len(Append(s, x)) = Len(s) + 1
        /\ \A i \in 1..Len(s) : Append(s, x)[i] = s[i]
        /\ Append(s, x)[Len(s) + 1] = x
    BY AppendProperties
  <2> QED  BY <1>1, <2>1
<1>5. PICK p \in Nat : p = IF k + 1 < n THEN k + 1 ELSE n  BY <1>1
<1>6. PICK q \in Seq(Int) : q = Recent(t, n) /\ Len(q) = p
                            /\ \A i \in 1..p : q[i] = t[k + 1 - p + i]
  <2>1. EndOf(Recent(t, n), t, IF Len(t) < n THEN Len(t) ELSE n)  BY RecentIs
  <2>2. EndOf(Recent(t, n), t, p)  BY <1>4, <1>5, <2>1
  <2>3. PICK l \in Nat : l = Len(t) /\ l = k + 1  BY <1>4
  <2>4. \A i \in 1..p : l - p + i = k + 1 - p + i  BY <2>3
  <2>5. \A i \in 1..p : Recent(t, n)[i] = t[l - p + i]  BY <2>2, <2>3 DEF EndOf
  <2>6. \A i \in 1..p : Recent(t, n)[i] = t[k + 1 - p + i]
    <3> SUFFICES ASSUME NEW i \in 1..p PROVE Recent(t, n)[i] = t[k + 1 - p + i]  OBVIOUS
    <3> QED  BY <2>4, <2>5
  <2>7. Recent(t, n) \in Seq(Int) /\ Len(Recent(t, n)) = p  BY <2>2 DEF EndOf
  <2> QED  BY <2>6, <2>7
<1>7. PICK b \in Seq(Int) : b = Reverse(r) /\ Len(b) = m
                            /\ \A i \in 1..m : b[i] = s[k + 1 - i]
  <2>1. /\ Reverse(r) \in Seq(Int) /\ Len(Reverse(r)) = m
        /\ \A i \in 1..m : Reverse(r)[i] = r[m - i + 1]
    <3>1. Turned(Reverse(r), r)  BY ReverseIs
    <3> QED  BY <1>3, <3>1 DEF Turned
  <2>2. \A i \in 1..m : m - i + 1 \in 1..m /\ k - m + (m - i + 1) = k + 1 - i  OBVIOUS
  <2>3. ASSUME NEW i \in 1..m PROVE Reverse(r)[i] = s[k + 1 - i]
    <3>1. PICK j \in 1..m : j = m - i + 1 /\ k - m + j = k + 1 - i  BY <2>2
    <3>2. r[j] = s[k - m + j]  BY <1>3
    <3> QED  BY <2>1, <3>1, <3>2
  <2> QED  BY <2>1, <2>3
<1>8. PICK c \in Seq(Int) : c = Reverse(q) /\ Len(c) = p
                            /\ \A i \in 1..p : c[i] = t[k + 2 - i]
  <2>1. /\ Reverse(q) \in Seq(Int) /\ Len(Reverse(q)) = p
        /\ \A i \in 1..p : Reverse(q)[i] = q[p - i + 1]
    <3>1. Turned(Reverse(q), q)  BY ReverseIs
    <3> QED  BY <1>6, <3>1 DEF Turned
  <2>2. \A i \in 1..p : p - i + 1 \in 1..p /\ k + 1 - p + (p - i + 1) = k + 2 - i  OBVIOUS
  <2>3. ASSUME NEW i \in 1..p PROVE Reverse(q)[i] = t[k + 2 - i]
    <3>1. PICK j \in 1..p : j = p - i + 1 /\ k + 1 - p + j = k + 2 - i  BY <2>2
    <3>2. q[j] = t[k + 1 - p + j]  BY <1>6
    <3> QED  BY <2>1, <3>1, <3>2
  <2> QED  BY <2>1, <2>3
<1>9. PICK l \in Seq(Int) : l = <<x>> \o b /\ Len(l) = m + 1
                            /\ \A i \in 1..m + 1 : l[i] = t[k + 2 - i]
  <2>0. PICK o : o = <<x>>  OBVIOUS
  <2>1. o \in Seq(Int) /\ Len(o) = 1 /\ o[1] = x  BY <2>0
  <2>2. /\ o \o b \in Seq(Int) /\ Len(o \o b) = 1 + m
        /\ \A i \in 1..1 + m : (o \o b)[i] = IF i <= 1 THEN o[i] ELSE b[i - 1]
    <3>1. /\ o \o b \in Seq(Int) /\ Len(o \o b) = Len(o) + Len(b)
          /\ \A i \in 1..Len(o) + Len(b) :
                (o \o b)[i] = IF i <= Len(o) THEN o[i] ELSE b[i - Len(o)]
      BY <2>1, ConcatProperties
    <3> QED  BY <1>7, <2>1, <3>1
  <2>3. ASSUME NEW i \in 1..m + 1 PROVE (o \o b)[i] = t[k + 2 - i]
    <3>1. CASE i = 1
      <4>1. k + 2 - i = k + 1 /\ i \in 1..1 + m /\ i <= 1  BY <3>1
      <4> QED  BY <1>4, <2>1, <2>2, <3>1, <4>1
    <3>2. CASE i # 1
      <4>1. i \in 1..1 + m /\ ~(i <= 1) /\ i - 1 \in 1..m  BY <3>2
      <4>2. k + 1 - (i - 1) = k + 2 - i /\ k + 2 - i \in 1..k  BY <1>2, <4>1
      <4>3. (o \o b)[i] = b[i - 1]  BY <2>2, <4>1
      <4>4. b[i - 1] = s[k + 1 - (i - 1)]  BY <1>7, <4>1
      <4> QED  BY <1>4, <4>2, <4>3, <4>4
    <3> QED  BY <3>1, <3>2
  <2>4. 1 + m = m + 1  OBVIOUS
  <2> QED  BY <2>0, <2>1, <2>2, <2>3, <2>4
<1>10. CASE k < n
  <2>1. m = k /\ p = m + 1 /\ ~(m + 1 > n)  BY <1>2, <1>5, <1>10
  <2>2. Unshifted(b, x, n) = l  BY <1>9, <2>1 DEF Unshifted
  <2>3. l = c  BY <1>8, <1>9, <2>1, SeqEqual
  <2> QED  BY <1>3, <1>4, <1>6, <1>7, <1>8, <2>2, <2>3
<1>11. CASE ~(k < n)
  <2>1. m = n /\ p = n /\ m + 1 > n /\ n <= k  BY <1>2, <1>5, <1>11
  <2>2. Unshifted(b, x, n) = SubSeq(l, 1, m)
    <3>1. Len(l) - 1 = m  BY <1>9
    <3> QED  BY <1>9, <2>1, <3>1 DEF Unshifted, Front
  <2>3. PICK u \in Seq(Int) : u = SubSeq(l, 1, m) /\ Len(u) = m /\ \A i \in 1..m : u[i] = l[i]
    <3>1. \A i \in 1..m : l[i] \in Int
      <4>1. \A i \in 1..m : i \in 1..Len(l)  BY <1>9
      <4> QED  BY <4>1, ElementOfSeq
    <3>2. /\ SubSeq(l, 1, m) \in Seq(Int)
          /\ Len(SubSeq(l, 1, m)) = IF 1 <= m THEN m - 1 + 1 ELSE 0
          /\ \A i \in 1..m - 1 + 1 : SubSeq(l, 1, m)[i] = l[1 + i - 1]
      BY <3>1, SubSeqProperties
    <3>3. m - 1 + 1 = m /\ 1 <= m /\ \A i \in 1..m : 1 + i - 1 = i  BY <2>1
    <3> QED  BY <3>2, <3>3
  <2>4. \A i \in 1..m : u[i] = c[i]
    <3> SUFFICES ASSUME NEW i \in 1..m PROVE u[i] = c[i]  OBVIOUS
    <3>1. i \in 1..m + 1 /\ i \in 1..p  BY <2>1
    <3> QED  BY <1>8, <1>9, <2>3, <3>1
  <2>5. u = c  BY <1>8, <2>1, <2>3, <2>4, SeqEqual
  <2> QED  BY <1>3, <1>4, <1>6, <1>7, <1>8, <2>2, <2>3, <2>5
<1> QED  BY <1>10, <1>11

-----------------------------------------------------------------------------
(* The ids of a history, as it grows.                                      *)

\* The ids of the records of a type, and of the statuses of a symbol.
KindIds(recs, t) == IdsAt(recs, PlacesOf(recs, t))
StatusIds(recs, s) == IdsAt(recs, StatusPlaces(recs, s))

\* The ids of what was shown.
LEMMA HistoryIds ==
    ASSUME NEW recs, IsHistory(recs)
    PROVE  /\ Len(recs) \in Nat /\ DOMAIN recs = 1..Len(recs)
           /\ \A k \in 1..Len(recs) : IsRecord(recs[k]) /\ recs[k].id \in Int
<1>1. IsSeq(recs)  BY DEF IsHistory
<1>2. Len(recs) \in Nat /\ DOMAIN recs = 1..Len(recs)  BY <1>1, SeqFacts
<1> QED  BY <1>2 DEF IsHistory, IsRecord

\* No places, no ids.
LEMMA IdsNowhere ==
    ASSUME NEW recs, NEW places, IsHistory(recs), places = {}
    PROVE  IdsAt(recs, places) = <<>>
<1>1. PICK n \in Nat : n = Len(recs) /\ \A k \in 1..n : recs[k].id \in Int  BY HistoryIds
<1>2. PICK f \in [0..n -> Seq(Int)] : IdsTo(f, recs, places, n)  BY <1>1, IdsIs
<1>3. IdsAt(recs, places) = f[n] /\ f[0] = <<>> /\ \A k \in 1..n : f[k] = f[k - 1]
  BY <1>2 DEF IdsTo
<1> DEFINE None == {k \in 0..n : f[k] = <<>>}
<1>4. 0 \in None  BY <1>3
<1>5. \A k \in 1..n : k - 1 \in None => k \in None  BY <1>3
<1>6. n \in None
  <2> HIDE DEF None
  <2> QED  BY <1>4, <1>5, EveryPlace
<1> QED  BY <1>3, <1>6

\* Ids are numbers.
LEMMA IdsType ==
    ASSUME NEW recs, NEW places, IsHistory(recs)
    PROVE  IdsAt(recs, places) \in Seq(Int)
<1>1. PICK n \in Nat : n = Len(recs) /\ \A k \in 1..n : recs[k].id \in Int  BY HistoryIds
<1>2. PICK f \in [0..n -> Seq(Int)] : IdsTo(f, recs, places, n)  BY <1>1, IdsIs
<1> QED  BY <1>2 DEF IdsTo

\* One more record, at places that are otherwise the same.
LEMMA IdsAppend ==
    ASSUME NEW recs, NEW e, NEW t, NEW places, NEW later,
           IsHistory(recs), IsRecord(e), t = Append(recs, e),
           \A k \in DOMAIN recs : k \in later <=> k \in places
    PROVE  Longer(IdsAt(t, later), IdsAt(recs, places), Len(recs) + 1, later, e.id)
<1>1. /\ Len(t) = Len(recs) + 1 /\ t[Len(recs) + 1] = e
      /\ \A i \in 1..Len(recs) : t[i] = recs[i]
  BY SeqGrows DEF IsHistory
<1>2. PICK n \in Nat : /\ n = Len(recs) /\ DOMAIN recs = 1..n
                       /\ \A k \in 1..n : recs[k].id \in Int
  BY HistoryIds
<1>3. Len(t) = n + 1 /\ t[n + 1] = e /\ \A k \in 1..n : t[k] = recs[k]  BY <1>1, <1>2
<1>4. \A k \in 1..n + 1 : t[k].id \in Int
  <2> SUFFICES ASSUME NEW k \in 1..n + 1 PROVE t[k].id \in Int  OBVIOUS
  <2>1. k = n + 1 \/ k \in 1..n  OBVIOUS
  <2> QED  BY <1>2, <1>3, <2>1 DEF IsRecord
<1>5. \A k \in 1..n : k \in later <=> k \in places  BY <1>2
<1>6. Longer(IdsAt(t, later), IdsAt(recs, places), n + 1, later, t[n + 1].id)
  BY <1>2, <1>3, <1>4, <1>5, IdsGrow
<1> QED  BY <1>2, <1>3, <1>6

KindGrows(t, recs, kind, e) ==
    KindIds(t, kind) = IF e.t = kind THEN Append(KindIds(recs, kind), e.id)
                       ELSE KindIds(recs, kind)

\* A record more adds its id to those of its type, and to no other.
LEMMA KindIdsGrow ==
    ASSUME NEW recs, NEW e, NEW kind, NEW t,
           IsHistory(recs), IsRecord(e), t = Append(recs, e)
    PROVE  KindGrows(t, recs, kind, e)
<1>1. /\ DOMAIN recs = 1..Len(recs) /\ DOMAIN t = 1..Len(recs) + 1 /\ Len(recs) \in Nat
      /\ t[Len(recs) + 1] = e /\ \A i \in 1..Len(recs) : t[i] = recs[i]
  BY SeqGrows DEF IsHistory
<1>2. \A k \in DOMAIN recs : k \in PlacesOf(t, kind) <=> k \in PlacesOf(recs, kind)
  BY <1>1 DEF PlacesOf
<1>3. Len(recs) + 1 \in PlacesOf(t, kind) <=> e.t = kind
  BY <1>1 DEF PlacesOf
<1>4. Longer(IdsAt(t, PlacesOf(t, kind)), IdsAt(recs, PlacesOf(recs, kind)), Len(recs) + 1,
             PlacesOf(t, kind), e.id)
  BY <1>2, IdsAppend
<1> QED  BY <1>3, <1>4 DEF KindIds, KindGrows, Longer

StatusGrows(t, recs, s, e) ==
    StatusIds(t, s) = IF e.t = "status" /\ e.sym = s
                      THEN Append(StatusIds(recs, s), e.id) ELSE StatusIds(recs, s)

\* A status more adds its id to those of its symbol, and to no other.
LEMMA StatusIdsGrow ==
    ASSUME NEW recs, NEW e, NEW s, NEW t,
           IsHistory(recs), IsRecord(e), t = Append(recs, e)
    PROVE  StatusGrows(t, recs, s, e)
<1>1. /\ DOMAIN recs = 1..Len(recs) /\ DOMAIN t = 1..Len(recs) + 1 /\ Len(recs) \in Nat
      /\ t[Len(recs) + 1] = e /\ \A i \in 1..Len(recs) : t[i] = recs[i]
  BY SeqGrows DEF IsHistory
<1>2. \A k \in DOMAIN recs : k \in StatusPlaces(t, s) <=> k \in StatusPlaces(recs, s)
  BY <1>1 DEF PlacesOf, StatusPlaces
<1>3. Len(recs) + 1 \in StatusPlaces(t, s) <=> e.t = "status" /\ e.sym = s
  BY <1>1 DEF PlacesOf, StatusPlaces
<1>4. Longer(IdsAt(t, StatusPlaces(t, s)), IdsAt(recs, StatusPlaces(recs, s)), Len(recs) + 1,
             StatusPlaces(t, s), e.id)
  BY <1>2, IdsAppend
<1> QED  BY <1>3, <1>4 DEF StatusIds, StatusGrows, Longer

-----------------------------------------------------------------------------
(* The page.                                                               *)

Fields == StateFields \cup {"cards", "chart", "table", "latency"}

Shape(p) ==
    /\ DOMAIN p = Fields
    /\ p.symbols \in Seq(Symbols)
    /\ DOMAIN p.symIndex = Range(p.symbols)
    /\ \A i \in DOMAIN p.symbols : p.symIndex[p.symbols[i]] = i - 1

\* What the state holds of statuses and fills; no status is of a symbol not yet named.
DataOf(p, recs) ==
    /\ p.stats = [s \in Range(p.symbols) |-> LastOrNull(StatusIds(recs, s))]
    /\ p.priceHist = [s \in Range(p.symbols) |-> Recent(StatusIds(recs, s), MAX_PRICE_POINTS)]
    /\ p.fills = Reverse(Recent(KindIds(recs, "fill"), MAX_FILLS_ROWS))
    /\ p.latSamples = Recent(KindIds(recs, "fill"), MAX_LAT_SAMPLES)
    /\ \A k \in DOMAIN recs : recs[k].t = "status" => recs[k].sym \in Range(p.symbols)

Fits(p, recs) == Shape(p) /\ DataOf(p, recs) /\ PanelsCurrent(p)

\* Which fields a new symbol changes.
LEMMA NewSymbol ==
    ASSUME NEW p, NEW sym, DOMAIN p = Fields, sym \notin DOMAIN p.symIndex
    PROVE  LET q == ensureSym(p, sym) IN
           /\ DOMAIN q = Fields
           /\ q.symIndex = With(p.symIndex, sym, Len(p.symbols))
           /\ q.symbols = Append(p.symbols, sym)
           /\ q.priceHist = With(p.priceHist, sym, <<>>)
           /\ q.stats = With(p.stats, sym, NULL)
           /\ q.chart = Append(p.chart, [label |-> sym, data |-> <<>>])
           /\ \A f \in {"fills", "latSamples", "meta", "cards", "table", "latency"} : q[f] = p[f]
  BY DEF ensureSym, Fields, StateFields

\* ensureSym keeps state and panels: a new symbol has no status yet, gets the next place
\* in symbols, symIndex and the chart, and an old one changes nothing.
LEMMA EnsureFits ==
    ASSUME NEW p, NEW recs, NEW sym, NEW q,
           IsHistory(recs), Fits(p, recs), sym \in Symbols, q = ensureSym(p, sym)
    PROVE  /\ Fits(q, recs) /\ q.meta = p.meta /\ sym \in Range(q.symbols)
           /\ q.symbols = IF Contains(p.symbols, sym) THEN p.symbols ELSE Append(p.symbols, sym)
<1>1. PICK n \in Nat : n = Len(p.symbols) /\ DOMAIN p.symbols = 1..n
  BY LenProperties DEF Fits, Shape
<1>2. Contains(p.symbols, sym) <=> sym \in Range(p.symbols)
  BY <1>1 DEF Contains, Range
<1>3. CASE sym \in Range(p.symbols)
  <2>1. q = p  BY <1>3 DEF ensureSym, Fits, Shape
  <2> QED  BY <1>2, <1>3, <2>1
<1>4. CASE sym \notin Range(p.symbols)
  <2>1. /\ DOMAIN q = Fields
        /\ q.symIndex = With(p.symIndex, sym, n)
        /\ q.symbols = Append(p.symbols, sym)
        /\ q.priceHist = With(p.priceHist, sym, <<>>)
        /\ q.stats = With(p.stats, sym, NULL)
        /\ q.chart = Append(p.chart, [label |-> sym, data |-> <<>>])
        /\ q.fills = p.fills /\ q.latSamples = p.latSamples /\ q.meta = p.meta
        /\ q.cards = p.cards /\ q.table = p.table /\ q.latency = p.latency
    BY <1>1, <1>4, NewSymbol DEF Fits, Shape
  <2>2. /\ q.symbols \in Seq(Symbols) /\ DOMAIN q.symbols = 1..n + 1
        /\ \A i \in 1..n : q.symbols[i] = p.symbols[i]
        /\ q.symbols[n + 1] = sym
    BY <1>1, <2>1, Appended DEF Fits, Shape
  <2>3. Range(q.symbols) = Range(p.symbols) \cup {sym}
    <3>1. Range(p.symbols) = {p.symbols[i] : i \in 1..n}  BY <1>1 DEF Range
    <3>2. Range(q.symbols) = {q.symbols[i] : i \in 1..n + 1}  BY <2>2 DEF Range
    <3>3. \A i \in 1..n + 1 : i = n + 1 \/ i \in 1..n  OBVIOUS
    <3>4. n + 1 \in 1..n + 1 /\ \A i \in 1..n : i \in 1..n + 1  OBVIOUS
    <3> QED  BY <2>2, <3>1, <3>2, <3>3, <3>4
  <2>4. Shape(q)
    <3>1. DOMAIN q.symIndex = Range(q.symbols)  BY <2>1, <2>3 DEF With, Fits, Shape
    <3>2. ASSUME NEW i \in 1..n + 1 PROVE q.symIndex[q.symbols[i]] = i - 1
      <4>1. CASE i = n + 1  BY <2>1, <2>2, <4>1 DEF With
      <4>2. CASE i # n + 1
        <5>0. i \in 1..n  BY <4>2
        <5>1. i \in 1..n /\ p.symbols[i] \in Range(p.symbols)  BY <1>1, <5>0 DEF Range
        <5>2. p.symbols[i] # sym  BY <1>4, <5>1
        <5>3. p.symbols[i] \in DOMAIN p.symIndex  BY <5>1 DEF Fits, Shape
        <5>4. q.symIndex[p.symbols[i]] = p.symIndex[p.symbols[i]]
          BY <2>1, <5>2, <5>3 DEF With
        <5> QED  BY <1>1, <2>2, <5>1, <5>4 DEF Fits, Shape
      <4> QED  BY <4>1, <4>2
    <3> QED  BY <2>1, <2>2, <3>1, <3>2 DEF Shape
  <2>5. StatusIds(recs, sym) = <<>>
    <3>1. StatusPlaces(recs, sym) = {}
      BY <1>4 DEF StatusPlaces, PlacesOf, Fits, DataOf
    <3> QED  BY <3>1, IdsNowhere DEF StatusIds
  <2>6. DataOf(q, recs)
    <3>1. /\ DOMAIN p.stats = Range(p.symbols) /\ DOMAIN p.priceHist = Range(p.symbols)
          /\ \A s \in Range(p.symbols) :
                /\ p.stats[s] = LastOrNull(StatusIds(recs, s))
                /\ p.priceHist[s] = Recent(StatusIds(recs, s), MAX_PRICE_POINTS)
      BY DEF Fits, DataOf
    <3>2. LastOrNull(StatusIds(recs, sym)) = NULL  BY <2>5 DEF LastOrNull
    <3>3. Recent(StatusIds(recs, sym), MAX_PRICE_POINTS) = <<>>
      BY <2>5, RecentNone, BuffersAssumption
    <3>4. q.stats = [s \in Range(q.symbols) |-> LastOrNull(StatusIds(recs, s))]
      BY <1>4, <2>1, <2>3, <3>1, <3>2 DEF With
    <3>5. q.priceHist = [s \in Range(q.symbols) |-> Recent(StatusIds(recs, s), MAX_PRICE_POINTS)]
      BY <1>4, <2>1, <2>3, <3>1, <3>3 DEF With
    <3> QED  BY <2>1, <2>3, <3>4, <3>5 DEF Fits, DataOf
  <2>7. PanelsCurrent(q)
    <3>1. PICK U : /\ \A i \in 1..n : [label |-> p.symbols[i],
                                       data |-> p.priceHist[p.symbols[i]]] \in U
                   /\ [label |-> sym, data |-> <<>>] \in U
      <4> DEFINE W == {[label |-> p.symbols[i], data |-> p.priceHist[p.symbols[i]]] : i \in 1..n}
                        \cup {[label |-> sym, data |-> <<>>]}
      <4>1. /\ \A i \in 1..n : [label |-> p.symbols[i],
                                       data |-> p.priceHist[p.symbols[i]]] \in W
            /\ [label |-> sym, data |-> <<>>] \in W
        OBVIOUS
      <4> QED  BY <4>1
    <3>2. p.chart = [i \in 1..n |-> [label |-> p.symbols[i],
                                     data |-> p.priceHist[p.symbols[i]]]]
      BY <1>1 DEF Fits, PanelsCurrent
    <3>3. p.chart \in Seq(U) /\ Len(p.chart) = n  BY <3>1, <3>2
    <3>4. /\ q.chart \in Seq(U) /\ DOMAIN q.chart = 1..n + 1
          /\ q.chart[n + 1] = [label |-> sym, data |-> <<>>]
          /\ \A i \in 1..n : q.chart[i] = p.chart[i]
      BY <2>1, <3>1, <3>3, Appended
    <3>5. /\ q.priceHist[sym] = <<>> /\ q.stats[sym] = NULL
          /\ \A s \in Range(p.symbols) : q.priceHist[s] = p.priceHist[s] /\ q.stats[s] = p.stats[s]
      BY <1>4, <2>1 DEF With, Fits, DataOf
    <3>6. \A i \in 1..n : p.symbols[i] \in Range(p.symbols)  BY <1>1 DEF Range
    <3>7. q.chart = [i \in 1..n + 1 |-> [label |-> q.symbols[i],
                                         data |-> q.priceHist[q.symbols[i]]]]
      <4> DEFINE c == [i \in 1..n + 1 |-> [label |-> q.symbols[i],
                                           data |-> q.priceHist[q.symbols[i]]]]
      <4>1. ASSUME NEW i \in 1..n + 1 PROVE q.chart[i] = c[i]
        <5>1. CASE i = n + 1  BY <2>2, <3>4, <3>5, <5>1
        <5>2. CASE i # n + 1
          <6>1. i \in 1..n  BY <5>2
          <6> QED  BY <2>2, <3>2, <3>4, <3>5, <3>6, <6>1
        <5> QED  BY <5>1, <5>2
      <4>2. q.chart = [i \in DOMAIN q.chart |-> q.chart[i]]  BY <3>4
      <4> QED  BY <3>4, <4>1, <4>2
    <3>8. \A s \in Range(q.symbols) : q.stats[s] # NULL =>
            [sym |-> s, stat |-> q.stats[s]] \in Range(q.cards)
      BY <2>1, <2>3, <3>5 DEF Fits, PanelsCurrent
    <3> QED  BY <2>1, <2>2, <3>7, <3>8 DEF Fits, PanelsCurrent
  <2> QED  BY <1>2, <1>4, <2>1, <2>3, <2>4, <2>6, <2>7 DEF Fits
<1> QED  BY <1>3, <1>4

PagesFrom(pages, p, list, n) ==
    pages = [k \in 0..n |-> IF k = 0 THEN p ELSE ensureSym(pages[k - 1], list[k])]

\* The pages between the symbols of a list.
LEMMA PagesExist ==
    ASSUME NEW p, NEW list, NEW n \in Nat
    PROVE  \E g : PagesFrom(g, p, list, n)
<1> DEFINE Bad == {m \in 0..n : ~\E g : PagesFrom(g, p, list, m)}
<1>1. SUFFICES ASSUME Bad # {} PROVE FALSE
  <2>1. n \notin Bad => \E g : PagesFrom(g, p, list, n)  OBVIOUS
  <2> QED  BY <2>1
<1>2. PICK m \in Bad : \A k \in Bad : m <= k
  <2>1. Bad \subseteq Nat  OBVIOUS
  <2> HIDE DEF Bad
  <2> QED  BY <1>1, <2>1, SmallestElement
<1>3. m \in 0..n /\ m # 0
  <2> SUFFICES ASSUME m = 0 PROVE FALSE  OBVIOUS
  <2> DEFINE z == [k \in 0..0 |-> p]
  <2>1. PagesFrom(z, p, list, 0)  BY DEF PagesFrom
  <2> QED  BY <1>2, <2>1
<1>4. m \in 1..n /\ m - 1 \in Nat /\ m - 1 \in 0..n /\ m - 1 \notin Bad
  <2>1. m \in 1..n /\ m - 1 \in Nat /\ m - 1 \in 0..n  BY <1>3
  <2> HIDE DEF Bad
  <2> QED  BY <1>2, <2>1
<1>5. PICK g : PagesFrom(g, p, list, m - 1)  BY <1>4
<1> DEFINE Step(f, k) == IF k = 0 THEN p ELSE ensureSym(f[k - 1], list[k])
           h == [k \in 0..m |-> IF k < m THEN g[k] ELSE ensureSym(g[m - 1], list[m])]
<1>6. \A k \in 0..m - 1 : g[k] = Step(g, k)  BY <1>5 DEF PagesFrom
<1>7. \A k \in 0..m : h[k] = Step(h, k)
  <2> SUFFICES ASSUME NEW k \in 0..m PROVE h[k] = Step(h, k)  OBVIOUS
  <2>1. k # 0 => k - 1 \in 0..m /\ k - 1 < m /\ h[k - 1] = g[k - 1]  BY <1>4
  <2>2. Step(h, k) = Step(g, k)  BY <2>1
  <2>3. CASE k < m  BY <1>4, <1>6, <2>2, <2>3
  <2>4. CASE k = m  BY <1>3, <1>4, <2>2, <2>4
  <2> QED  BY <1>4, <2>3, <2>4
<1>8. PagesFrom(h, p, list, m)
  <2> DEFINE f == [k \in 0..m |-> Step(h, k)]
  <2>1. \A k \in 0..m : h[k] = f[k]  BY <1>7
  <2>2. h = f  BY <2>1
  <2> QED  BY <2>2 DEF PagesFrom
<1> QED  BY <1>2, <1>8

\* A page that fits some records, with these symbols and this meta record.
FitsWith(p, recs, symbols, meta) == Fits(p, recs) /\ p.symbols = symbols /\ p.meta = meta

\* handleMeta: the symbols of the list, one after the other.
LEMMA MetaFits ==
    ASSUME NEW p, NEW recs, NEW rec, NEW q,
           IsHistory(recs), Fits(p, recs), IsRecord(rec), rec.t = "meta", q = handleMeta(p, rec)
    PROVE  FitsWith(q, recs, Joined(p.symbols, rec.symbols), rec.id)
<1>1. PICK list : list = rec.symbols  OBVIOUS
<1>2. PICK n \in Nat : n = Len(list) /\ \A k \in 1..n : list[k] \in Symbols
  <2>1. list \in Seq(Symbols)  BY <1>1 DEF IsRecord
  <2> QED  BY <2>1, LenProperties, ElementOfSeq
<1>3. PICK o : o = [p EXCEPT !.meta = rec.id]  OBVIOUS
<1>4. Fits(o, recs) /\ o.meta = rec.id /\ o.symbols = p.symbols
  <2>1. DOMAIN p = Fields  BY DEF Fits, Shape
  <2>2. /\ DOMAIN o = Fields /\ o.meta = rec.id
        /\ o.symbols = p.symbols /\ o.symIndex = p.symIndex /\ o.stats = p.stats
        /\ o.priceHist = p.priceHist /\ o.fills = p.fills /\ o.latSamples = p.latSamples
        /\ o.cards = p.cards /\ o.chart = p.chart /\ o.table = p.table /\ o.latency = p.latency
    BY <1>3, <2>1 DEF Fields, StateFields
  <2>3. Shape(o)  BY <2>2 DEF Fits, Shape
  <2>4. DataOf(o, recs)  BY <2>2 DEF Fits, DataOf
  <2>5. PanelsCurrent(o)  BY <2>2 DEF Fits, PanelsCurrent
  <2> QED  BY <2>2, <2>3, <2>4, <2>5 DEF Fits
<1>5. handleMeta(p, rec) = (CHOOSE f : PagesFrom(f, o, list, n))[n]
  BY <1>1, <1>2, <1>3, Zenon DEF handleMeta, PagesFrom
<1>6. PICK g : PagesFrom(g, o, list, n) /\ q = g[n]
  <2>1. PagesFrom(CHOOSE f : PagesFrom(f, o, list, n), o, list, n)  BY PagesExist, Zenon
  <2> QED  BY <1>5, <2>1
<1>7. g[0] = o /\ \A k \in 1..n : g[k] = ensureSym(g[k - 1], list[k])
  <2>1. \A k \in 0..n : g[k] = IF k = 0 THEN o ELSE ensureSym(g[k - 1], list[k])
    BY <1>6 DEF PagesFrom
  <2>2. 0 \in 0..n /\ \A k \in 1..n : k \in 0..n /\ k # 0  OBVIOUS
  <2> QED  BY <2>1, <2>2
<1>8. PICK j \in [0..n -> Seq(Symbols)] : JoinedTo(j, p.symbols, list, n)
  <2>1. p.symbols \in Seq(Symbols)  BY DEF Fits, Shape
  <2> QED  BY <1>2, <2>1, JoinedIs
<1> DEFINE Good == {k \in 0..n : Fits(g[k], recs) /\ g[k].meta = rec.id /\ g[k].symbols = j[k]}
<1>9. 0 \in Good  BY <1>4, <1>7, <1>8 DEF JoinedTo
<1>10. \A k \in 1..n : k - 1 \in Good => k \in Good
  <2> SUFFICES ASSUME NEW k \in 1..n, k - 1 \in Good PROVE k \in Good  OBVIOUS
  <2>1. PICK a, b : a = g[k - 1] /\ b = g[k] /\ b = ensureSym(a, list[k])  BY <1>7
  <2>2. Fits(a, recs) /\ a.meta = rec.id /\ a.symbols = j[k - 1]  BY <2>1
  <2>3. /\ Fits(b, recs) /\ b.meta = a.meta
        /\ b.symbols = IF Contains(a.symbols, list[k]) THEN a.symbols
                       ELSE Append(a.symbols, list[k])
    BY <1>2, <2>1, <2>2, EnsureFits
  <2>4. b.symbols = j[k]  BY <1>8, <2>2, <2>3 DEF JoinedTo
  <2>5. Fits(b, recs) /\ b.meta = rec.id /\ b.symbols = j[k]  BY <2>2, <2>3, <2>4
  <2>6. Fits(g[k], recs) /\ g[k].meta = rec.id /\ g[k].symbols = j[k]  BY <2>1, <2>5
  <2>7. k \in 0..n  OBVIOUS
  <2> QED  BY <2>6, <2>7
<1>11. n \in Good
  <2> HIDE DEF Good
  <2> QED  BY <1>9, <1>10, EveryPlace
<1> QED  BY <1>1, <1>6, <1>8, <1>11 DEF JoinedTo, FitsWith

\* A record was added to those the data is of.
LEMMA NamedStatuses ==
    ASSUME NEW recs, NEW e, NEW t, NEW syms, IsHistory(recs), t = Append(recs, e),
           \A k \in DOMAIN recs : recs[k].t = "status" => recs[k].sym \in syms,
           e.t = "status" => e.sym \in syms
    PROVE  \A k \in DOMAIN t : t[k].t = "status" => t[k].sym \in syms
<1>1. PICK n \in Nat : /\ DOMAIN recs = 1..n /\ DOMAIN t = 1..n + 1 /\ t[n + 1] = e
                       /\ \A i \in 1..n : t[i] = recs[i]
  BY SeqGrows DEF IsHistory
<1> SUFFICES ASSUME NEW k \in 1..n + 1 PROVE t[k].t = "status" => t[k].sym \in syms
  BY <1>1
<1>2. k = n + 1 \/ k \in 1..n  OBVIOUS
<1> QED  BY <1>1, <1>2

\* handleStatus: the newest status and price of one symbol, its cards and its curve.
LEMMA StatusFits ==
    ASSUME NEW p, NEW recs, NEW rec, NEW e, NEW t, NEW q,
           IsHistory(recs), Fits(p, recs), IsRecord(rec), IsRecord(e), t = Append(recs, e),
           rec.t = "status", e.t = "status", e.id = rec.id, e.sym = rec.sym,
           q = handleStatus(p, rec)
    PROVE  FitsWith(q, t, Joined(p.symbols, <<rec.sym>>), p.meta)
<1>1. PICK s \in Symbols, id \in Int : s = rec.sym /\ id = rec.id  BY DEF IsRecord
<1>2. PICK o : o = ensureSym(p, s)  OBVIOUS
<1>3. /\ Fits(o, recs) /\ o.meta = p.meta /\ s \in Range(o.symbols)
      /\ o.symbols = IF Contains(p.symbols, s) THEN p.symbols ELSE Append(p.symbols, s)
  BY <1>1, <1>2, EnsureFits
<1>4. o.symbols = Joined(p.symbols, <<s>>)
  BY <1>1, <1>3, JoinedOne DEF Fits, Shape
<1>5. PICK a : a = [o EXCEPT !.stats[s] = id,
                              !.priceHist[s] = Pushed(@, id, MAX_PRICE_POINTS)]
  OBVIOUS
<1>6. /\ DOMAIN a = Fields
      /\ a.stats = [o.stats EXCEPT ![s] = id]
      /\ a.priceHist = [o.priceHist EXCEPT ![s] = Pushed(o.priceHist[s], id, MAX_PRICE_POINTS)]
      /\ a.symbols = o.symbols /\ a.symIndex = o.symIndex /\ a.meta = o.meta
      /\ a.fills = o.fills /\ a.latSamples = o.latSamples
      /\ a.chart = o.chart /\ a.table = o.table /\ a.latency = o.latency
  <2>1. DOMAIN o = Fields  BY <1>3 DEF Fits, Shape
  <2> QED  BY <1>5, <2>1 DEF Fields, StateFields
<1>7. q = updatePriceChart(renderCards(a))  BY <1>1, <1>2, <1>5 DEF handleStatus
<1>8. /\ DOMAIN q = Fields
      /\ q.cards = [i \in DOMAIN o.symbols |->
                      [sym |-> o.symbols[i], stat |-> a.stats[o.symbols[i]]]]
      /\ q.chart = [i \in DOMAIN o.chart |->
                      IF i \in DOMAIN o.symbols
                      THEN [o.chart[i] EXCEPT !.data = a.priceHist[o.symbols[i]]]
                      ELSE o.chart[i]]
      /\ q.stats = a.stats /\ q.priceHist = a.priceHist
      /\ q.symbols = o.symbols /\ q.symIndex = o.symIndex /\ q.meta = o.meta
      /\ q.fills = o.fills /\ q.latSamples = o.latSamples
      /\ q.table = o.table /\ q.latency = o.latency
  <2>1. PICK b : b = renderCards(a)  OBVIOUS
  <2>2. /\ DOMAIN b = Fields
        /\ b.cards = [i \in DOMAIN o.symbols |->
                        [sym |-> o.symbols[i], stat |-> a.stats[o.symbols[i]]]]
        /\ b.stats = a.stats /\ b.priceHist = a.priceHist
        /\ b.symbols = o.symbols /\ b.symIndex = o.symIndex /\ b.meta = o.meta
        /\ b.fills = o.fills /\ b.latSamples = o.latSamples
        /\ b.chart = o.chart /\ b.table = o.table /\ b.latency = o.latency
    BY <1>6, <2>1 DEF renderCards, Fields, StateFields
  <2>3. q = updatePriceChart(b)  BY <1>7, <2>1
  <2> QED  BY <2>2, <2>3 DEF updatePriceChart, Fields, StateFields
<1>9. Shape(q)  BY <1>3, <1>8 DEF Fits, Shape
<1>10. /\ DOMAIN o.stats = Range(o.symbols) /\ DOMAIN o.priceHist = Range(o.symbols)
       /\ \A x \in Range(o.symbols) :
             /\ o.stats[x] = LastOrNull(StatusIds(recs, x))
             /\ o.priceHist[x] = Recent(StatusIds(recs, x), MAX_PRICE_POINTS)
  BY <1>3 DEF Fits, DataOf
<1>11. \A x : StatusIds(t, x) = IF s = x THEN Append(StatusIds(recs, x), id)
                                ELSE StatusIds(recs, x)
  <2> SUFFICES ASSUME NEW x
               PROVE  StatusIds(t, x) = IF s = x THEN Append(StatusIds(recs, x), id)
                                        ELSE StatusIds(recs, x)
    OBVIOUS
  <2>1. StatusGrows(t, recs, x, e)  BY StatusIdsGrow
  <2> QED  BY <1>1, <2>1 DEF StatusGrows
<1>12. DataOf(q, t)
  <2>1. q.stats = [x \in Range(q.symbols) |-> LastOrNull(StatusIds(t, x))]
    <3>1. LastOrNull(StatusIds(t, s)) = id
      <4>1. PICK l \in Seq(Int) : l = StatusIds(recs, s)  BY IdsType DEF StatusIds
      <4>2. Append(l, id) # <<>> /\ Last(Append(l, id)) = id
        <5>1. PICK k \in Nat : k = Len(l)  BY LenProperties
        <5>2. Len(Append(l, id)) = k + 1 /\ Append(l, id)[k + 1] = id  BY <5>1, AppendProperties
        <5>3. Append(l, id) # <<>>  BY <5>2, EmptySeq
        <5> QED  BY <5>2, <5>3 DEF Last
      <4> QED  BY <1>11, <4>1, <4>2 DEF LastOrNull
    <3> QED  BY <1>3, <1>6, <1>8, <1>10, <1>11, <3>1
  <2>2. q.priceHist = [x \in Range(q.symbols) |-> Recent(StatusIds(t, x), MAX_PRICE_POINTS)]
    <3>1. Pushed(o.priceHist[s], id, MAX_PRICE_POINTS)
            = Recent(StatusIds(t, s), MAX_PRICE_POINTS)
      <4>1. PICK l \in Seq(Int) : l = StatusIds(recs, s)  BY IdsType DEF StatusIds
      <4>2. MAX_PRICE_POINTS \in Nat \ {0}  BY BuffersAssumption
      <4>3. Pushed(Recent(l, MAX_PRICE_POINTS), id, MAX_PRICE_POINTS)
              = Recent(Append(l, id), MAX_PRICE_POINTS)
        BY <4>2, PushedRecent
      <4> QED  BY <1>3, <1>10, <1>11, <4>1, <4>3
    <3> QED  BY <1>3, <1>6, <1>8, <1>10, <1>11, <3>1
  <2>3. KindIds(t, "fill") = KindIds(recs, "fill")
    <3>1. KindGrows(t, recs, "fill", e)  BY KindIdsGrow
    <3> QED  BY <3>1 DEF KindGrows
  <2>4. \A k \in DOMAIN t : t[k].t = "status" => t[k].sym \in Range(q.symbols)
    BY <1>1, <1>3, <1>8, NamedStatuses DEF Fits, DataOf
  <2> QED  BY <1>3, <1>8, <2>1, <2>2, <2>3, <2>4 DEF Fits, DataOf
<1>13. PanelsCurrent(q)
  <2>1. q.chart = [i \in DOMAIN q.symbols |->
                     [label |-> q.symbols[i], data |-> q.priceHist[q.symbols[i]]]]
    <3>1. o.chart = [i \in DOMAIN o.symbols |->
                       [label |-> o.symbols[i], data |-> o.priceHist[o.symbols[i]]]]
      BY <1>3 DEF Fits, PanelsCurrent
    <3>2. \A i \in DOMAIN o.symbols :
             [o.chart[i] EXCEPT !.data = a.priceHist[o.symbols[i]]]
               = [label |-> q.symbols[i], data |-> q.priceHist[q.symbols[i]]]
      BY <1>8, <3>1
    <3>3. DOMAIN o.chart = DOMAIN o.symbols /\ DOMAIN q.symbols = DOMAIN o.symbols
      BY <1>8, <3>1
    <3> QED  BY <1>8, <3>2, <3>3
  <2>2. \A x \in Range(q.symbols) : [sym |-> x, stat |-> q.stats[x]] \in Range(q.cards)
    <3> SUFFICES ASSUME NEW x \in Range(q.symbols)
                 PROVE  [sym |-> x, stat |-> q.stats[x]] \in Range(q.cards)
      OBVIOUS
    <3>1. PICK i \in DOMAIN o.symbols : x = o.symbols[i]  BY <1>8 DEF Range
    <3>2. i \in DOMAIN q.cards /\ q.cards[i] = [sym |-> x, stat |-> q.stats[x]]
      BY <1>8, <3>1
    <3> QED  BY <3>2 DEF Range
  <2> QED  BY <1>3, <1>8, <2>1, <2>2 DEF Fits, PanelsCurrent
<1> QED  BY <1>1, <1>3, <1>4, <1>8, <1>9, <1>12, <1>13 DEF Fits, FitsWith

\* handleFill: the newest fill in table and samples.
LEMMA FillFits ==
    ASSUME NEW p, NEW recs, NEW rec, NEW e, NEW t, NEW q,
           IsHistory(recs), Fits(p, recs), IsRecord(rec), IsRecord(e), t = Append(recs, e),
           rec.t = "fill", e.t = "fill", e.id = rec.id, e.sym = rec.sym,
           q = handleFill(p, rec)
    PROVE  FitsWith(q, t, Joined(p.symbols, <<rec.sym>>), p.meta)
<1>1. PICK s \in Symbols, id \in Int : s = rec.sym /\ id = rec.id  BY DEF IsRecord
<1>2. PICK o : o = ensureSym(p, s)  OBVIOUS
<1>3. /\ Fits(o, recs) /\ o.meta = p.meta
      /\ o.symbols = IF Contains(p.symbols, s) THEN p.symbols ELSE Append(p.symbols, s)
  BY <1>1, <1>2, EnsureFits
<1>4. o.symbols = Joined(p.symbols, <<s>>)
  BY <1>1, <1>3, JoinedOne DEF Fits, Shape
<1>5. PICK a : a = [o EXCEPT !.fills = Unshifted(@, id, MAX_FILLS_ROWS),
                              !.latSamples = Pushed(@, id, MAX_LAT_SAMPLES)]
  OBVIOUS
<1>6. /\ DOMAIN a = Fields
      /\ a.fills = Unshifted(o.fills, id, MAX_FILLS_ROWS)
      /\ a.latSamples = Pushed(o.latSamples, id, MAX_LAT_SAMPLES)
      /\ a.symbols = o.symbols /\ a.symIndex = o.symIndex /\ a.meta = o.meta
      /\ a.stats = o.stats /\ a.priceHist = o.priceHist
      /\ a.cards = o.cards /\ a.chart = o.chart
  <2>1. DOMAIN o = Fields  BY <1>3 DEF Fits, Shape
  <2> QED  BY <1>5, <2>1 DEF Fields, StateFields
<1>7. q = renderLatency(renderFillsTable(a))  BY <1>1, <1>2, <1>5 DEF handleFill
<1>8. /\ DOMAIN q = Fields
      /\ q.fills = a.fills /\ q.table = a.fills /\ q.latSamples = a.latSamples
      /\ a.latSamples # <<>> => q.latency = a.latSamples
      /\ q.symbols = o.symbols /\ q.symIndex = o.symIndex /\ q.meta = o.meta
      /\ q.stats = o.stats /\ q.priceHist = o.priceHist
      /\ q.cards = o.cards /\ q.chart = o.chart
  <2>1. PICK b : b = renderFillsTable(a)  OBVIOUS
  <2>2. /\ DOMAIN b = Fields
        /\ b.fills = a.fills /\ b.table = a.fills /\ b.latSamples = a.latSamples
        /\ b.symbols = o.symbols /\ b.symIndex = o.symIndex /\ b.meta = o.meta
        /\ b.stats = o.stats /\ b.priceHist = o.priceHist
        /\ b.cards = o.cards /\ b.chart = o.chart
    BY <1>6, <2>1 DEF renderFillsTable, Fields, StateFields
  <2>3. q = renderLatency(b)  BY <1>7, <2>1
  <2> QED  BY <2>2, <2>3 DEF renderLatency, Fields, StateFields
<1>9. Shape(q)  BY <1>3, <1>8 DEF Fits, Shape
<1>10. PICK l \in Seq(Int) : l = KindIds(recs, "fill")  BY IdsType DEF KindIds
<1>11. KindIds(t, "fill") = Append(l, id)
  <2>1. KindGrows(t, recs, "fill", e)  BY KindIdsGrow
  <2> QED  BY <1>1, <1>10, <2>1 DEF KindGrows
<1>12. \A x : StatusIds(t, x) = StatusIds(recs, x)
  <2> SUFFICES ASSUME NEW x PROVE StatusIds(t, x) = StatusIds(recs, x)  OBVIOUS
  <2>1. StatusGrows(t, recs, x, e)  BY StatusIdsGrow
  <2> QED  BY <2>1 DEF StatusGrows
<1>13. DataOf(q, t)
  <2>1. q.fills = Reverse(Recent(KindIds(t, "fill"), MAX_FILLS_ROWS))
    <3>1. MAX_FILLS_ROWS \in Nat \ {0}  BY BuffersAssumption
    <3>2. Unshifted(Reverse(Recent(l, MAX_FILLS_ROWS)), id, MAX_FILLS_ROWS)
            = Reverse(Recent(Append(l, id), MAX_FILLS_ROWS))
      BY <3>1, UnshiftedRecent
    <3>3. o.fills = Reverse(Recent(l, MAX_FILLS_ROWS))  BY <1>3, <1>10 DEF Fits, DataOf
    <3> QED  BY <1>6, <1>8, <1>11, <3>2, <3>3
  <2>2. q.latSamples = Recent(KindIds(t, "fill"), MAX_LAT_SAMPLES)
    <3>1. MAX_LAT_SAMPLES \in Nat \ {0}  BY BuffersAssumption
    <3>2. Pushed(Recent(l, MAX_LAT_SAMPLES), id, MAX_LAT_SAMPLES)
            = Recent(Append(l, id), MAX_LAT_SAMPLES)
      BY <3>1, PushedRecent
    <3>3. o.latSamples = Recent(l, MAX_LAT_SAMPLES)  BY <1>3, <1>10 DEF Fits, DataOf
    <3> QED  BY <1>6, <1>8, <1>11, <3>2, <3>3
  <2>3. \A k \in DOMAIN t : t[k].t = "status" => t[k].sym \in Range(q.symbols)
    BY <1>3, <1>8, NamedStatuses DEF Fits, DataOf
  <2> QED  BY <1>3, <1>8, <1>12, <2>1, <2>2, <2>3 DEF Fits, DataOf
<1>14. PanelsCurrent(q)  BY <1>3, <1>8 DEF Fits, PanelsCurrent
<1> QED  BY <1>1, <1>3, <1>4, <1>8, <1>9, <1>13, <1>14 DEF Fits, FitsWith

-----------------------------------------------------------------------------
(* The page and the history of what it was shown.                          *)

Good(p, recs) ==
    /\ Shape(p) /\ DataOf(p, recs)
    /\ p.symbols = Named(recs) /\ p.meta = LastOrNull(KindIds(recs, "meta"))

\* The symbols named by a history and one record.
LEMMA NamedAppend ==
    ASSUME NEW recs, NEW e, NEW t, IsHistory(recs), IsRecord(e), t = Append(recs, e)
    PROVE  Named(t) = Joined(Named(recs), SymbolsIn(e))
<1>1. /\ Len(t) = Len(recs) + 1 /\ t[Len(recs) + 1] = e
      /\ \A i \in 1..Len(recs) : t[i] = recs[i]
  BY SeqGrows DEF IsHistory
<1>2. PICK n \in Nat : n = Len(recs) /\ \A k \in 1..n : IsRecord(recs[k])  BY HistoryIds
<1>3. Len(t) = n + 1 /\ t[n + 1] = e /\ \A k \in 1..n : t[k] = recs[k]  BY <1>1, <1>2
<1>4. \A r : IsRecord(r) => SymbolsIn(r) \in Seq(Symbols)
  BY DEF IsRecord, SymbolsIn
<1>5. \A k \in 1..n + 1 : SymbolsIn(t[k]) \in Seq(Symbols)
  <2> SUFFICES ASSUME NEW k \in 1..n + 1 PROVE SymbolsIn(t[k]) \in Seq(Symbols)  OBVIOUS
  <2>1. k = n + 1 \/ k \in 1..n  OBVIOUS
  <2>2. IsRecord(t[k])  BY <1>2, <1>3, <2>1
  <2> QED  BY <1>4, <2>2
<1>6. Named(t) = Joined(Named(recs), SymbolsIn(t[n + 1]))
  BY <1>2, <1>3, <1>5, NamedGrows
<1> QED  BY <1>3, <1>6

\* processRecord: a page that follows a history follows the longer one after any record.
LEMMA RecordGood ==
    ASSUME NEW p, NEW recs, NEW rec, NEW e, NEW t, NEW q, NEW n,
           IsHistory(recs), Good(p, recs), PanelsCurrent(p), IsRecord(rec),
           e = With(rec, "at", n), t = Append(recs, e), q = Processed(p, rec)
    PROVE  Good(q, t) /\ PanelsCurrent(q)
<1>1. /\ IsRecord(e) /\ e.t = rec.t /\ e.id = rec.id
      /\ rec.t = "meta" => e.symbols = rec.symbols
      /\ rec.t # "meta" => e.sym = rec.sym
  BY ShownRecord
<1>2. Named(t) = Joined(p.symbols, SymbolsIn(e))  BY <1>1, NamedAppend DEF Good
<1>3. Fits(p, recs)  BY DEF Good, Fits
<1>4. PICK l \in Seq(Int) : l = KindIds(recs, "meta")  BY IdsType DEF KindIds
<1>5. KindIds(t, "meta") = IF e.t = "meta" THEN Append(l, e.id) ELSE l
  <2>1. KindGrows(t, recs, "meta", e)  BY <1>1, KindIdsGrow
  <2> QED  BY <1>4, <2>1 DEF KindGrows
<1>6. CASE rec.t = "status"
  <2>1. q = handleStatus(p, rec)  BY <1>6 DEF Processed
  <2>2. FitsWith(q, t, Joined(p.symbols, <<rec.sym>>), p.meta)
    BY <1>1, <1>3, <1>6, <2>1, StatusFits
  <2>3. SymbolsIn(e) = <<rec.sym>> /\ KindIds(t, "meta") = l  BY <1>1, <1>5, <1>6 DEF SymbolsIn
  <2> QED  BY <1>2, <1>4, <2>2, <2>3 DEF FitsWith, Fits, Good
<1>7. CASE rec.t = "fill"
  <2>1. q = handleFill(p, rec)  BY <1>7 DEF Processed
  <2>2. FitsWith(q, t, Joined(p.symbols, <<rec.sym>>), p.meta)
    BY <1>1, <1>3, <1>7, <2>1, FillFits
  <2>3. SymbolsIn(e) = <<rec.sym>> /\ KindIds(t, "meta") = l  BY <1>1, <1>5, <1>7 DEF SymbolsIn
  <2> QED  BY <1>2, <1>4, <2>2, <2>3 DEF FitsWith, Fits, Good
<1>8. CASE rec.t = "meta"
  <2>1. q = handleMeta(p, rec)  BY <1>8 DEF Processed
  <2>2. Fits(q, recs) /\ q.meta = rec.id /\ q.symbols = Joined(p.symbols, rec.symbols)
    <3>1. FitsWith(q, recs, Joined(p.symbols, rec.symbols), rec.id)
      BY <1>3, <1>8, <2>1, MetaFits
    <3> QED  BY <3>1 DEF FitsWith
  <2>3. SymbolsIn(e) = rec.symbols  BY <1>1, <1>8 DEF SymbolsIn
  <2>4. LastOrNull(KindIds(t, "meta")) = rec.id
    <3>1. PICK id \in Int : id = rec.id /\ id = e.id  BY <1>1 DEF IsRecord
    <3>2. PICK k \in Nat : k = Len(l)  BY LenProperties
    <3>3. Len(Append(l, id)) = k + 1 /\ Append(l, id)[k + 1] = id  BY <3>2, AppendProperties
    <3>4. Append(l, id) # <<>>  BY <3>3, EmptySeq
    <3>5. KindIds(t, "meta") = Append(l, id)  BY <1>1, <1>5, <1>8, <3>1
    <3> QED  BY <3>1, <3>3, <3>4, <3>5 DEF LastOrNull, Last
  <2>5. KindIds(t, "fill") = KindIds(recs, "fill")
    <3>1. KindGrows(t, recs, "fill", e)  BY <1>1, KindIdsGrow
    <3> QED  BY <1>1, <1>8, <3>1 DEF KindGrows
  <2>6. \A x : StatusIds(t, x) = StatusIds(recs, x)
    <3>1. e.t # "status"  BY <1>1, <1>8
    <3> SUFFICES ASSUME NEW x PROVE StatusIds(t, x) = StatusIds(recs, x)  OBVIOUS
    <3>2. StatusGrows(t, recs, x, e)  BY <1>1, StatusIdsGrow
    <3> QED  BY <3>1, <3>2 DEF StatusGrows
  <2>7. \A k \in DOMAIN t : t[k].t = "status" => t[k].sym \in Range(q.symbols)
    <3>1. e.t # "status"  BY <1>1, <1>8
    <3> QED  BY <2>2, <3>1, NamedStatuses DEF Fits, DataOf
  <2>8. DataOf(q, t)  BY <2>2, <2>5, <2>6, <2>7 DEF Fits, DataOf
  <2> QED  BY <1>2, <2>2, <2>3, <2>4, <2>8 DEF Fits, Good
<1> QED  BY <1>6, <1>7, <1>8 DEF IsRecord

\* A page without data, whatever its latency panel says.
LEMMA EmptyGood ==
    ASSUME NEW p, DOMAIN p = Fields,
           p.symbols = <<>>, p.symIndex = <<>>, p.stats = <<>>, p.priceHist = <<>>,
           p.fills = <<>>, p.latSamples = <<>>, p.meta = NULL
    PROVE  Good(p, <<>>)
<1>1. <<>> \in Seq(Symbols) /\ DOMAIN <<>> = {} /\ IsSeq(<<>>)  BY EmptySeq, NoRecords
<1>2. Range(<<>>) = {}  BY <1>1 DEF Range
<1>3. IsHistory(<<>>)  BY <1>1 DEF IsHistory
<1>4. Shape(p)  BY <1>1, <1>2 DEF Shape
<1>5. KindIds(<<>>, "fill") = <<>> /\ KindIds(<<>>, "meta") = <<>>  BY IdsOfNone DEF KindIds
<1>6. Reverse(<<>>) = <<>>
  <2>1. <<>> \in Seq(Int)  BY EmptySeq
  <2>2. Turned(Reverse(<<>>), <<>>)  BY <2>1, ReverseIs
  <2>3. Reverse(<<>>) \in Seq(Int) /\ Len(Reverse(<<>>)) = 0  BY <2>2, EmptySeq DEF Turned
  <2> QED  BY <2>3, EmptySeq
<1>7. DataOf(p, <<>>)
  <2>1. /\ Recent(<<>>, MAX_FILLS_ROWS) = <<>> /\ Recent(<<>>, MAX_LAT_SAMPLES) = <<>>
    BY RecentNone, BuffersAssumption
  <2>2. [s \in {} |-> LastOrNull(StatusIds(<<>>, s))] = <<>>  OBVIOUS
  <2>3. [s \in {} |-> Recent(StatusIds(<<>>, s), MAX_PRICE_POINTS)] = <<>>  OBVIOUS
  <2> QED  BY <1>1, <1>2, <1>5, <1>6, <2>1, <2>2, <2>3 DEF DataOf
<1> QED  BY <1>4, <1>5, <1>7, NamedNone DEF Good, LastOrNull

\* Its panels show that it has none.
LEMMA EmptyPanels ==
    ASSUME NEW p, DOMAIN p = Fields, p.symbols = <<>>, p.fills = <<>>, p.latSamples = <<>>,
           p.table = <<>>, p.chart = <<>>
    PROVE  PanelsCurrent(p)
<1>1. DOMAIN <<>> = {}  BY NoRecords
<1>2. Range(<<>>) = {}  BY <1>1 DEF Range
<1>3. [i \in {} |-> [label |-> p.symbols[i], data |-> p.priceHist[p.symbols[i]]]] = <<>>
  OBVIOUS
<1> QED  BY <1>1, <1>2, <1>3 DEF PanelsCurrent

\* A page that was restored shows what was stored.
LEMMA RebuiltGood ==
    ASSUME NEW r, NEW recs, NEW q, Good(r, recs), q = rebuildFromState(r)
    PROVE  Good(q, recs) /\ PanelsCurrent(q)
<1>1. DOMAIN r = Fields  BY DEF Good, Shape
<1>2. PICK a : a = [r EXCEPT !.chart = [i \in DOMAIN r.symbols |->
                                          [label |-> r.symbols[i], data |-> <<>>]]]
  OBVIOUS
<1>3. /\ DOMAIN a = Fields
      /\ a.chart = [i \in DOMAIN r.symbols |-> [label |-> r.symbols[i], data |-> <<>>]]
      /\ \A f \in StateFields : a[f] = r[f]
  BY <1>1, <1>2 DEF Fields, StateFields
<1>4. PICK b : b = updatePriceChart(a)  OBVIOUS
<1>5. /\ DOMAIN b = Fields
      /\ b.chart = [i \in DOMAIN a.chart |->
                      IF i \in DOMAIN a.symbols
                      THEN [a.chart[i] EXCEPT !.data = a.priceHist[a.symbols[i]]]
                      ELSE a.chart[i]]
      /\ \A f \in StateFields : b[f] = r[f]
  BY <1>3, <1>4 DEF updatePriceChart, Fields, StateFields
<1>6. PICK c : c = renderCards(b)  OBVIOUS
<1>7. /\ DOMAIN c = Fields /\ c.chart = b.chart
      /\ c.cards = [i \in DOMAIN b.symbols |->
                      [sym |-> b.symbols[i], stat |-> b.stats[b.symbols[i]]]]
      /\ \A f \in StateFields : c[f] = r[f]
  BY <1>5, <1>6 DEF renderCards, Fields, StateFields
<1>8. PICK d : d = renderFillsTable(c)  OBVIOUS
<1>9. /\ DOMAIN d = Fields /\ d.chart = b.chart /\ d.cards = c.cards /\ d.table = c.fills
      /\ \A f \in StateFields : d[f] = r[f]
  BY <1>7, <1>8 DEF renderFillsTable, Fields, StateFields
<1>10. q = renderLatency(d)  BY <1>2, <1>4, <1>6, <1>8 DEF rebuildFromState
<1>11. /\ DOMAIN q = Fields /\ q.chart = b.chart /\ q.cards = c.cards /\ q.table = c.fills
       /\ r.latSamples # <<>> => q.latency = r.latSamples
       /\ \A f \in StateFields : q[f] = r[f]
  BY <1>9, <1>10 DEF renderLatency, Fields, StateFields
<1>12. /\ r["symbols"] = q["symbols"] /\ r["symIndex"] = q["symIndex"]
       /\ r["stats"] = q["stats"] /\ r["priceHist"] = q["priceHist"]
       /\ r["fills"] = q["fills"] /\ r["latSamples"] = q["latSamples"]
       /\ r["meta"] = q["meta"]
  BY <1>11 DEF StateFields
<1>13. Good(q, recs)
  <2>1. Shape(q)  BY <1>11, <1>12 DEF Good, Shape
  <2>2. DataOf(q, recs)  BY <1>12 DEF Good, DataOf
  <2> QED  BY <1>12, <2>1, <2>2 DEF Good
<1>14. PanelsCurrent(q)
  <2>1. /\ a["symbols"] = r["symbols"] /\ a["priceHist"] = r["priceHist"]
        /\ b["symbols"] = r["symbols"] /\ b["stats"] = r["stats"]
        /\ c["fills"] = r["fills"]
    BY <1>3, <1>5, <1>7 DEF StateFields
  <2>2. q.chart = [i \in DOMAIN q.symbols |->
                     [label |-> q.symbols[i], data |-> q.priceHist[q.symbols[i]]]]
    <3>1. \A i \in DOMAIN r.symbols :
             [a.chart[i] EXCEPT !.data = r.priceHist[r.symbols[i]]]
               = [label |-> r.symbols[i], data |-> r.priceHist[r.symbols[i]]]
      BY <1>3
    <3>2. DOMAIN a.chart = DOMAIN r.symbols  BY <1>3
    <3>3. b.chart = [i \in DOMAIN r.symbols |->
                       [a.chart[i] EXCEPT !.data = r.priceHist[r.symbols[i]]]]
      BY <1>5, <2>1, <3>2
    <3>4. b.chart = [i \in DOMAIN r.symbols |->
                       [label |-> r.symbols[i], data |-> r.priceHist[r.symbols[i]]]]
      BY <3>1, <3>3
    <3> QED  BY <1>11, <1>12, <3>4
  <2>3. \A x \in Range(q.symbols) : [sym |-> x, stat |-> q.stats[x]] \in Range(q.cards)
    <3> SUFFICES ASSUME NEW x \in Range(q.symbols)
                 PROVE  [sym |-> x, stat |-> q.stats[x]] \in Range(q.cards)
      OBVIOUS
    <3>1. PICK i \in DOMAIN r.symbols : x = r.symbols[i]  BY <1>12 DEF Range
    <3>2. i \in DOMAIN q.cards /\ q.cards[i] = [sym |-> x, stat |-> q.stats[x]]
      BY <1>7, <1>11, <1>12, <2>1, <3>1
    <3> QED  BY <3>2 DEF Range
  <2> QED  BY <1>11, <1>12, <2>1, <2>2, <2>3 DEF PanelsCurrent
<1> QED  BY <1>13, <1>14

-----------------------------------------------------------------------------
\* What the session storage holds is the state of the records it is said to hold.
Stored(st, recs) ==
    /\ DOMAIN st = StateFields
    /\ \A p : DOMAIN p = Fields /\ (\A f \in StateFields : p[f] = st[f]) => Good(p, recs)

StateInv ==
    /\ Good(page, shown) /\ PanelsCurrent(page)
    /\ snapshot = Nothing \/ Stored(snapshot.state, snapshot.shown)

\* Restrict keeps the fields that the storage is to hold.
LEMMA GoodStored ==
    ASSUME NEW p, NEW recs, NEW st, Good(p, recs), st = Restrict(p, StateFields)
    PROVE  Stored(st, recs)
<1>1. DOMAIN st = StateFields /\ \A f \in StateFields : st[f] = p[f]  BY DEF Restrict
<1> SUFFICES ASSUME NEW q, DOMAIN q = Fields, \A f \in StateFields : q[f] = st[f]
             PROVE  Good(q, recs)
  BY <1>1 DEF Stored
<1>2. \A f \in StateFields : q[f] = p[f]  BY <1>1
<1>3. /\ q["symbols"] = p["symbols"] /\ q["symIndex"] = p["symIndex"]
      /\ q["stats"] = p["stats"] /\ q["priceHist"] = p["priceHist"]
      /\ q["fills"] = p["fills"] /\ q["latSamples"] = p["latSamples"]
      /\ q["meta"] = p["meta"]
  BY <1>2 DEF StateFields
<1>4. Shape(q)  BY <1>3 DEF Good, Shape
<1>5. DataOf(q, recs)  BY <1>3 DEF Good, DataOf
<1> QED  BY <1>3, <1>4, <1>5 DEF Good

\* The page as it is loaded first.
LEMMA InitState ==
    ASSUME Init
    PROVE  StateInv
<1>1. page = EmptyPage /\ shown = <<>> /\ snapshot = Nothing  BY DEF Init
<1>2. PICK p : p = EmptyPage  OBVIOUS
<1>3. /\ DOMAIN p = Fields
      /\ p.symbols = <<>> /\ p.symIndex = <<>> /\ p.stats = <<>> /\ p.priceHist = <<>>
      /\ p.fills = <<>> /\ p.latSamples = <<>> /\ p.meta = NULL
      /\ p.table = <<>> /\ p.chart = <<>>
  BY <1>2 DEF EmptyPage, Fields, StateFields
<1>4. Good(p, <<>>) /\ PanelsCurrent(p)  BY <1>3, EmptyGood, EmptyPanels
<1> QED  BY <1>1, <1>2, <1>4 DEF StateInv

\* A record that is shown, and perhaps saved.
LEMMA ShowState ==
    ASSUME StateInv, IsHistory(shown), NEW rec, IsRecord(rec), processRecord(rec)
    PROVE  StateInv'
<1>1. PICK p, q, s, t, e : /\ p = page /\ q = page' /\ s = shown /\ t = shown'
                           /\ e = With(rec, "at", now)
  OBVIOUS
<1>2. q = Processed(p, rec) /\ t = Append(s, e) /\ saveState  BY <1>1 DEF processRecord
<1>3. Good(q, t) /\ PanelsCurrent(q)
  BY <1>1, <1>2, RecordGood DEF StateInv
<1>4. \/ snapshot' = snapshot
      \/ snapshot' = [state |-> Restrict(q, StateFields), shown |-> t]
  BY <1>1, <1>2 DEF saveState
<1>5. snapshot' = Nothing \/ Stored(snapshot.state, snapshot.shown)'
  <2>1. CASE snapshot' = snapshot  BY <2>1 DEF StateInv, Stored
  <2>2. CASE snapshot' = [state |-> Restrict(q, StateFields), shown |-> t]
    <3>1. PICK st : st = Restrict(q, StateFields)  OBVIOUS
    <3>2. Stored(st, t)  BY <1>3, <3>1, GoodStored
    <3>3. snapshot'.state = st /\ snapshot'.shown = t  BY <2>2, <3>1
    <3> QED  BY <3>2, <3>3
  <2> QED  BY <1>4, <2>1, <2>2
<1> QED  BY <1>1, <1>3, <1>5 DEF StateInv

\* A reload restores a page that follows what was saved, or an empty one.
LEMMA RefreshState ==
    ASSUME StateInv, Refresh
    PROVE  StateInv'
<1>1. page' = rebuildFromState(loadState) /\ shown' = snapshot.shown /\ snapshot' = snapshot
  BY DEF Refresh
<1>2. PICK r, st, recs : r = loadState /\ st = snapshot.state /\ recs = snapshot.shown
  OBVIOUS
<1>3. DOMAIN EmptyPage = Fields  BY DEF EmptyPage, Fields, StateFields
<1>4. /\ DOMAIN r = Fields
      /\ \A f \in Fields : r[f] = IF f \in DOMAIN st THEN st[f] ELSE EmptyPage[f]
  BY <1>2, <1>3 DEF loadState
<1>5. Good(r, recs)
  <2>1. CASE snapshot = Nothing
    <3>1. st = <<>> /\ recs = <<>> /\ DOMAIN st = {}  BY <1>2, <2>1, NoRecords DEF Nothing
    <3>2. \A f \in Fields : r[f] = EmptyPage[f]  BY <1>4, <3>1
    <3>3. /\ r["symbols"] = <<>> /\ r["symIndex"] = <<>> /\ r["stats"] = <<>>
          /\ r["priceHist"] = <<>> /\ r["fills"] = <<>> /\ r["latSamples"] = <<>>
          /\ r["meta"] = NULL
      BY <3>2 DEF EmptyPage, Fields, StateFields
    <3> QED  BY <1>4, <3>1, <3>3, EmptyGood
  <2>2. CASE Stored(snapshot.state, snapshot.shown)
    <3>1. Stored(st, recs)  BY <1>2, <2>2
    <3>2. \A f \in StateFields : r[f] = st[f]  BY <1>4, <3>1 DEF Stored, Fields
    <3> QED  BY <1>4, <3>1, <3>2 DEF Stored
  <2> QED  BY <2>1, <2>2 DEF StateInv
<1>6. PICK q : q = page' /\ q = rebuildFromState(r)  BY <1>1, <1>2
<1>7. Good(q, recs) /\ PanelsCurrent(q)  BY <1>5, <1>6, RebuiltGood
<1>8. (snapshot = Nothing \/ Stored(snapshot.state, snapshot.shown))'
  BY <1>1 DEF StateInv, Stored
<1> QED  BY <1>1, <1>2, <1>6, <1>7, <1>8 DEF StateInv

\* The clean slate of a loop follows nothing.
LEMMA WipeState ==
    ASSUME StateInv, Wipe
    PROVE  StateInv'
<1>1. page' = [EmptyPage EXCEPT !.latency = page.latency] /\ shown' = <<>>
      /\ snapshot' = snapshot
  BY DEF Wipe, live
<1>2. PICK p : p = page'  OBVIOUS
<1>3. /\ DOMAIN p = Fields
      /\ p.symbols = <<>> /\ p.symIndex = <<>> /\ p.stats = <<>> /\ p.priceHist = <<>>
      /\ p.fills = <<>> /\ p.latSamples = <<>> /\ p.meta = NULL
      /\ p.table = <<>> /\ p.chart = <<>>
  BY <1>1, <1>2 DEF EmptyPage, Fields, StateFields
<1>4. Good(p, <<>>) /\ PanelsCurrent(p)  BY <1>3, EmptyGood, EmptyPanels
<1> QED  BY <1>1, <1>2, <1>4 DEF StateInv, Stored

\* A step that touches neither page nor storage.
LEMMA StateKept ==
    ASSUME StateInv, UNCHANGED <<page, shown, snapshot>>
    PROVE  StateInv'
<1>1. Good(page, shown)' /\ PanelsCurrent(page)'
  <2>1. PICK p, s : p = page /\ s = shown /\ p = page' /\ s = shown'  OBVIOUS
  <2>2. Good(p, s) /\ PanelsCurrent(p)  BY <2>1 DEF StateInv
  <2> QED  BY <2>1, <2>2
<1>2. (snapshot = Nothing \/ Stored(snapshot.state, snapshot.shown))'
  BY DEF StateInv, Stored
<1> QED  BY <1>1, <1>2 DEF StateInv

\* Every step of trader, socket, page and user.
LEMMA StateStep ==
    ASSUME HistoryInv, StateInv, [Next]_vars
    PROVE  StateInv'
<1>1. IsHistory(shown)  BY DEF HistoryInv, PageTypes
<1>2. CASE Receive
  <2>1. CASE Head(wire).t = "garbled"
    <3>1. UNCHANGED <<page, shown, snapshot>>  BY <1>2, <2>1 DEF Receive
    <3> QED  BY <3>1, StateKept
  <2>2. CASE Head(wire).t # "garbled"
    <3>1. Head(wire) \in Frames
      <4>1. wire \in Seq(Frames) /\ wire # <<>>  BY <1>2 DEF HistoryInv, PageTypes, Receive
      <4> QED  BY <4>1, HeadTailProperties
    <3>2. PICK rec : rec = Head(wire)  OBVIOUS
    <3>3. IsRecord(rec) /\ processRecord(rec)
      BY <1>2, <2>2, <3>1, <3>2, FrameRecord DEF Receive
    <3> QED  BY <1>1, <3>3, ShowState
  <2> QED  BY <2>1, <2>2
<1>3. CASE Play
  <2>1. PICK rec : rec = replay.records[replay.i]  OBVIOUS
  <2>2. IsRecord(rec) /\ processRecord(rec)
    BY <1>3, <2>1 DEF Play, Replaying, HistoryInv, ReplayInv
  <2> QED  BY <1>1, <2>2, ShowState
<1>4. CASE Refresh  BY <1>4, RefreshState
<1>5. CASE Wipe  BY <1>5, WipeState
<1>6. CASE \/ TraderStarts \/ WriteMeta \/ WriteRecord \/ TraderStops
           \/ Opened \/ Closed \/ Retry \/ Tick \/ FetchFails \/ Fetched \/ UNCHANGED vars
  <2>1. UNCHANGED <<page, shown, snapshot>>
    BY <1>6 DEF TraderStarts, WriteMeta, WriteRecord, TraderStops, Opened, Closed, Retry, Tick,
                FetchFails, Fetched, PageSame, live, vars
  <2> QED  BY <2>1, StateKept
<1> QED  BY <1>2, <1>3, <1>4, <1>5, <1>6 DEF Next

\* The page follows what it was shown, and so would the page restored from the storage.
THEOREM StateInvariant == Spec => []StateInv
<1>1. Init => StateInv  BY InitState
<1>2. HistoryInv /\ StateInv /\ [Next]_vars => StateInv'  BY StateStep
<1> QED  BY <1>1, <1>2, HistoryInvariant, PTL DEF Spec

\* For any buffer sizes, symbols, records, faults, reloads and files: the seven fields of
\* the state are what the records shown say, computed from those records alone.
THEOREM StateFollows == Spec => []StateFollowsRecords
<1>1. StateInv => StateFollowsRecords
  <2>1. ASSUME NEW p, NEW recs, Good(p, recs) PROVE StateIsOf(p, recs)
    BY <2>1 DEF Good, Shape, DataOf, StateIsOf, KindIds, StatusIds
  <2> QED  BY <2>1 DEF StateInv, StateFollowsRecords
<1> QED  BY <1>1, StateInvariant, PTL

\* For the same: cards, chart, table and latency figures show the state, after every
\* handler, restore and wipe.
THEOREM PanelsFollow == Spec => []PanelsFollowState
<1>1. StateInv => PanelsFollowState  BY DEF StateInv, PanelsFollowState
<1> QED  BY <1>1, StateInvariant, PTL
=============================================================================
