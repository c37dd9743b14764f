-------------------------- MODULE ArithmeticLemmas --------------------------
(***************************************************************************)
(* The arithmetic the proofs share: remainders, which is what unsigned     *)
(* counters and quantities keep, and sums over finite sets, for every set  *)
(* and every function of weights: what SumFunctionOnSet of the community   *)
(* modules computes.  Where a proof by induction would do, a smallest      *)
(* counterexample does, of numbers or of finite sets.                      *)
(***************************************************************************)
EXTENDS Functions, FiniteSetTheorems, WellFoundedInduction, TLAPS

-----------------------------------------------------------------------------
(* Remainders.                                                             *)

\* Division with remainder.
LEMMA DivMod ==
    ASSUME NEW a \in Int, NEW n \in Nat \ {0}
    PROVE  /\ a = n * (a \div n) + (a % n)
           /\ a % n \in 0..n - 1
           /\ a \div n \in Int
  OBVIOUS

\* The remainder is determined.
LEMMA ModUnique ==
    ASSUME NEW n \in Nat \ {0}, NEW q \in Int, NEW r \in 0..n - 1
    PROVE  (n * q + r) % n = r
<1> DEFINE a == n * q + r
<1>1. a \in Int  OBVIOUS
<1>2. a = n * (a \div n) + (a % n) /\ a % n \in 0..n - 1 /\ a \div n \in Int
  BY <1>1, DivMod
<1> DEFINE d == q - (a \div n)
<1>3. n * d = (a % n) - r  BY <1>2
<1>4. d \in Int  BY <1>2
<1>5. -n < n * d /\ n * d < n  BY <1>2, <1>3
<1>6. d >= 1 => n * d >= n  BY <1>4
<1>7. d <= -1 => n * d <= -n  BY <1>4
<1>8. d = 0  BY <1>4, <1>5, <1>6, <1>7
<1> QED  BY <1>2, <1>3, <1>8

\* A remainder may be taken before an addition or after it.
LEMMA ModPlus ==
    ASSUME NEW x \in Int, NEW y \in Int, NEW m \in Nat \ {0}
    PROVE  ((x % m) + y) % m = (x + y) % m
<1> DEFINE r == x % m
           z == r + y
<1>1. x = m * (x \div m) + r /\ r \in Int /\ x \div m \in Int  BY DivMod
<1>2. z \in Int  BY <1>1
<1>3. z = m * (z \div m) + (z % m) /\ z % m \in 0..m - 1 /\ z \div m \in Int
  <2> HIDE DEF z
  <2> QED  BY <1>2, DivMod
<1>4. PICK q \in Int, k \in Int, s \in 0..m - 1 :
          x = m * q + r /\ r + y = m * k + s /\ s = z % m
  BY <1>1, <1>3
<1>5. x + y = m * (q + k) + s
  <2>1. m * (q + k) = m * q + m * k /\ m * q \in Int /\ m * k \in Int  OBVIOUS
  <2>2. x + y = m * q + (r + y)  BY <1>1, <1>4, <2>1
  <2> HIDE DEF r, z
  <2> QED  BY <1>4, <2>1, <2>2
<1>6. (m * (q + k) + s) % m = s
  <2>1. q + k \in Int  OBVIOUS
  <2> QED  BY <2>1, ModUnique
<1> QED  BY <1>4, <1>5, <1>6

-----------------------------------------------------------------------------
(* Smallest counterexamples.                                               *)

\* A non-empty set of naturals has a least element.
LEMMA SmallestElement ==
    ASSUME NEW S, S \subseteq Nat, S # {}
    PROVE  \E m \in S : \A k \in S : m <= k
<1>1. PICK x \in S : \A y \in S : <<y, x>> \notin OpToRel(<, Nat)
  BY NatLessThanWellFounded, WFMin, Zenon
<1>2. \A y \in S : ~(y < x)  BY <1>1, Zenon DEF OpToRel
<1> QED  BY <1>2

\* A non-empty family of finite sets has a member none of whose parts, short of
\* one element, is in the family.
LEMMA SmallestSet ==
    ASSUME NEW F, F # {}, \A A \in F : IsFiniteSet(A)
    PROVE  \E A \in F : \A x \in A : A \ {x} \notin F
<1> DEFINE N == {Cardinality(A) : A \in F}
<1>1. N \subseteq Nat /\ N # {}  BY FS_CardinalityType
<1>2. PICK n \in N : \A k \in N : n <= k  BY <1>1, SmallestElement
<1>3. PICK A \in F : Cardinality(A) = n  BY <1>2
<1>4. ASSUME NEW x \in A, A \ {x} \in F PROVE FALSE
  <2>1. Cardinality(A \ {x}) = n - 1  BY <1>3, <1>4, FS_RemoveElement
  <2>2. n <= n - 1  BY <1>2, <1>4, <2>1
  <2> QED  BY <1>1, <2>2
<1> QED  BY <1>4

-----------------------------------------------------------------------------
(* The recursive function behind a sum.                                    *)

One(s) == CHOOSE x \in s : TRUE

\* g adds the weights of every set of D, one element after the other.
AddsOn(g, w, D) ==
    g = [s \in D |-> IF s = {} THEN 0 ELSE w[One(s)] + g[s \ {One(s)}]]

\* g does so for every part of S.
Adds(g, w, S) == AddsOn(g, w, SUBSET S)

\* The library's definition, with its recursive function named.
LEMMA SumIs ==
    ASSUME NEW w, NEW S
    PROVE  SumFunctionOnSet(w, S) = (CHOOSE g : Adds(g, w, S))[S]
  BY Zenon DEF SumFunctionOnSet, FoldFunctionOnSet, MapThenFoldSet, Adds, AddsOn, One

\* What CHOOSE takes from a set that is not empty is in it.
LEMMA OneOf ==
    ASSUME NEW s, s # {}
    PROVE  One(s) \in s
  BY DEF One

Parts(S, n) == {t \in SUBSET S : Cardinality(t) <= n}

\* There is such a function, up to every number of elements.
LEMMA AddsUpTo ==
    ASSUME NEW w, NEW S, IsFiniteSet(S), NEW n \in Nat
    PROVE  \E g : AddsOn(g, w, Parts(S, n))
<1> DEFINE B(m) == Parts(S, m)
           Good(g, m) == AddsOn(g, w, B(m))
           Bad == {m \in Nat : ~\E g : Good(g, m)}
<1>1. SUFFICES ASSUME Bad # {} PROVE FALSE  OBVIOUS
<1>2. PICK m \in Bad : \A k \in Bad : m <= k  BY <1>1, SmallestElement
<1>3. \A t \in SUBSET S : IsFiniteSet(t) /\ Cardinality(t) \in Nat
  BY FS_Subset, FS_CardinalityType
<1>4. m # 0
  <2> SUFFICES ASSUME m = 0 PROVE FALSE  OBVIOUS
  <2> DEFINE z == [s \in B(0) |-> 0]
  <2>1. \A s \in B(0) : s = {}
    <3> SUFFICES ASSUME NEW s \in B(0) PROVE s = {}  OBVIOUS
    <3>1. Cardinality(s) = 0  BY <1>3 DEF Parts
    <3> QED  BY <1>3, <3>1, FS_EmptySet DEF Parts
  <2>2. Good(z, 0)  BY <2>1 DEF AddsOn
  <2> QED  BY <1>2, <2>2
<1>5. m - 1 \in Nat /\ m - 1 \notin Bad
  <2>1. m \in Nat  BY <1>2
  <2> HIDE DEF Bad
  <2> QED  BY <1>2, <1>4, <2>1
<1>6. PICK g : Good(g, m - 1)  BY <1>5
<1> DEFINE h == [s \in B(m) |-> IF s \in B(m - 1) THEN g[s]
                               ELSE w[One(s)] + g[s \ {One(s)}]]
<1>7. ASSUME NEW s \in B(m), s # {} PROVE s \ {One(s)} \in B(m - 1)
  <2>1. One(s) \in s  BY <1>7, OneOf
  <2>2. Cardinality(s \ {One(s)}) = Cardinality(s) - 1  BY <1>3, <2>1, FS_RemoveElement DEF Parts
  <2> QED  BY <1>2, <1>3, <2>2 DEF Parts
<1>8. B(m - 1) \subseteq B(m)  BY <1>2, <1>3 DEF Parts
<1>9. {} \in B(m - 1)  BY <1>5, FS_EmptySet DEF Parts
<1>10. ASSUME NEW s \in B(m)
       PROVE  h[s] = IF s = {} THEN 0 ELSE w[One(s)] + h[s \ {One(s)}]
  <2> HIDE DEF B
  <2>1. CASE s = {}
    <3>1. g[{}] = 0  BY <1>6, <1>9, Zenon DEF AddsOn
    <3> QED  BY <1>9, <2>1, <3>1
  <2>2. CASE s # {}
    <3>1. s \ {One(s)} \in B(m - 1)  BY <1>7, <2>2
    <3>2. h[s \ {One(s)}] = g[s \ {One(s)}]  BY <1>8, <3>1
    <3>3. s \in B(m - 1) => g[s] = w[One(s)] + g[s \ {One(s)}]
      BY <1>6, <2>2 DEF AddsOn
    <3> QED  BY <2>2, <3>2, <3>3
  <2> QED  BY <2>1, <2>2
<1>11. Good(h, m)
  <2> DEFINE k == [s \in B(m) |-> IF s = {} THEN 0 ELSE w[One(s)] + h[s \ {One(s)}]]
  <2>1. \A s \in B(m) : h[s] = k[s]  BY <1>10
  <2> HIDE DEF B
  <2>2. h = k  BY <2>1
  <2> QED  BY <2>2 DEF AddsOn
<1> QED  BY <1>2, <1>11

\* There is a function that adds a finite set up, and CHOOSE finds one.
LEMMA AddsExists ==
    ASSUME NEW w, NEW S, IsFiniteSet(S)
    PROVE  Adds(CHOOSE g : Adds(g, w, S), w, S)
<1>1. PICK n \in Nat : n = Cardinality(S)  BY FS_CardinalityType
<1>2. Parts(S, n) = SUBSET S
  BY <1>1, FS_Subset DEF Parts
<1>3. \E g : AddsOn(g, w, Parts(S, n))
  BY AddsUpTo
<1>4. \E g : Adds(g, w, S)  BY <1>2, <1>3 DEF Adds
<1> QED  BY <1>4, Zenon

\* Functions that add the parts of two sets agree on the parts of both.
LEMMA AddsUnique ==
    ASSUME NEW w, NEW S, IsFiniteSet(S), NEW T, T \subseteq S,
           NEW g, Adds(g, w, S), NEW h, Adds(h, w, T)
    PROVE  g[T] = h[T]
<1> DEFINE F == {s \in SUBSET T : g[s] # h[s]}
<1>1. SUFFICES ASSUME F # {} PROVE FALSE  BY Zenon
<1>2. \A A \in F : IsFiniteSet(A)  BY FS_Subset
<1>3. PICK s \in F : \A x \in s : s \ {x} \notin F  BY <1>1, <1>2, SmallestSet
<1>4. s # {}  BY <1>3 DEF Adds, AddsOn
<1>5. One(s) \in s  BY <1>4, OneOf
<1>6. g[s \ {One(s)}] = h[s \ {One(s)}]  BY <1>3, <1>5
<1>7. g[s] = w[One(s)] + g[s \ {One(s)}]  BY <1>3, <1>4 DEF Adds, AddsOn
<1>8. h[s] = w[One(s)] + h[s \ {One(s)}]  BY <1>3, <1>4 DEF Adds, AddsOn
<1> QED  BY <1>3, <1>6, <1>7, <1>8

\* The sum of a finite set by its recursive equation.
LEMMA SumEquation ==
    ASSUME NEW w, NEW S, IsFiniteSet(S)
    PROVE  SumFunctionOnSet(w, S) =
              IF S = {} THEN 0 ELSE w[One(S)] + SumFunctionOnSet(w, S \ {One(S)})
<1> DEFINE g == CHOOSE f : Adds(f, w, S)
           T == S \ {One(S)}
           h == CHOOSE f : Adds(f, w, T)
<1>1. Adds(g, w, S)  BY AddsExists
<1>2. IsFiniteSet(T)  BY FS_Subset
<1>3. Adds(h, w, T)  BY <1>2, AddsExists
<1> HIDE DEF g, h
<1>4. g[T] = h[T]  BY <1>1, <1>3, AddsUnique
<1>5. g[S] = IF S = {} THEN 0 ELSE w[One(S)] + g[T]  BY <1>1 DEF Adds, AddsOn
<1>6. SumFunctionOnSet(w, S) = g[S]  BY SumIs DEF g
<1>7. SumFunctionOnSet(w, T) = h[T]  BY SumIs DEF h
<1> QED  BY <1>4, <1>5, <1>6, <1>7

-----------------------------------------------------------------------------
(* The laws of sums.                                                       *)

\* The sum over no elements.
LEMMA SumEmpty ==
    ASSUME NEW w
    PROVE  SumFunctionOnSet(w, {}) = 0
  BY SumEquation, FS_EmptySet

\* A finite sum of integers is an integer.
LEMMA SumInt ==
    ASSUME NEW w, NEW S, IsFiniteSet(S), \A x \in S : w[x] \in Int
    PROVE  SumFunctionOnSet(w, S) \in Int
<1> DEFINE F == {A \in SUBSET S : SumFunctionOnSet(w, A) \notin Int}
<1>1. SUFFICES ASSUME F # {} PROVE FALSE  BY Zenon
<1>2. \A A \in F : IsFiniteSet(A)  BY FS_Subset
<1>3. PICK A \in F : \A x \in A : A \ {x} \notin F  BY <1>1, <1>2, SmallestSet
<1>4. CASE A = {}  BY <1>3, <1>4, SumEmpty
<1>5. CASE A # {}
  <2>1. One(A) \in A  BY <1>5, OneOf
  <2>2. SumFunctionOnSet(w, A \ {One(A)}) \in Int  BY <1>3, <2>1
  <2>3. SumFunctionOnSet(w, A) = w[One(A)] + SumFunctionOnSet(w, A \ {One(A)})
    BY <1>2, <1>5, SumEquation
  <2> QED  BY <1>3, <2>1, <2>2, <2>3
<1> QED  BY <1>4, <1>5

\* A finite sum of natural numbers is a natural number.
LEMMA SumNat ==
    ASSUME NEW w, NEW S, IsFiniteSet(S), \A x \in S : w[x] \in Nat
    PROVE  SumFunctionOnSet(w, S) \in Nat
<1> DEFINE F == {A \in SUBSET S : SumFunctionOnSet(w, A) \notin Nat}
<1>1. SUFFICES ASSUME F # {} PROVE FALSE  BY Zenon
<1>2. \A A \in F : IsFiniteSet(A)  BY FS_Subset
<1>3. PICK A \in F : \A x \in A : A \ {x} \notin F  BY <1>1, <1>2, SmallestSet
<1>4. CASE A = {}  BY <1>3, <1>4, SumEmpty
<1>5. CASE A # {}
  <2>1. One(A) \in A  BY <1>5, OneOf
  <2>2. SumFunctionOnSet(w, A \ {One(A)}) \in Nat  BY <1>3, <2>1
  <2>3. SumFunctionOnSet(w, A) = w[One(A)] + SumFunctionOnSet(w, A \ {One(A)})
    BY <1>2, <1>5, SumEquation
  <2> QED  BY <1>3, <2>1, <2>2, <2>3
<1> QED  BY <1>4, <1>5

\* Any element can be taken out first.
LEMMA SumRemove ==
    ASSUME NEW w, NEW S, IsFiniteSet(S), \A y \in S : w[y] \in Int, NEW x \in S
    PROVE  SumFunctionOnSet(w, S) = w[x] + SumFunctionOnSet(w, S \ {x})
<1> DEFINE F == {A \in SUBSET S : \E y \in A :
                    SumFunctionOnSet(w, A) # w[y] + SumFunctionOnSet(w, A \ {y})}
<1>1. SUFFICES ASSUME F # {} PROVE FALSE  BY Zenon
<1>2. \A A \in SUBSET S : IsFiniteSet(A) /\ SumFunctionOnSet(w, A) \in Int
  BY FS_Subset, SumInt
<1>3. PICK A \in F : \A z \in A : A \ {z} \notin F  BY <1>1, <1>2, SmallestSet
<1>4. PICK y \in A : SumFunctionOnSet(w, A) # w[y] + SumFunctionOnSet(w, A \ {y})
  BY <1>3
<1> DEFINE z == One(A)
<1>5. z \in A  BY <1>4, OneOf
<1>6. SumFunctionOnSet(w, A) = w[z] + SumFunctionOnSet(w, A \ {z})
  BY <1>2, <1>3, <1>4, SumEquation
<1> HIDE DEF z
<1>7. z # y  BY <1>4, <1>6
<1>8. y \in A \ {z} /\ z \in A \ {y} /\ A \in SUBSET S /\ y \in S
  BY <1>3, <1>4, <1>5, <1>7
<1>9. SumFunctionOnSet(w, A \ {z}) = w[y] + SumFunctionOnSet(w, (A \ {z}) \ {y})
  BY <1>3, <1>5, <1>8
<1>10. A \ {y} \notin F  BY <1>3, <1>4
<1>11. SumFunctionOnSet(w, A \ {y}) = w[z] + SumFunctionOnSet(w, (A \ {y}) \ {z})
  BY <1>8, <1>10
<1>12. (A \ {z}) \ {y} = (A \ {y}) \ {z}  OBVIOUS
<1>13. SumFunctionOnSet(w, (A \ {y}) \ {z}) \in Int  BY <1>2, <1>8
<1>14. w[y] \in Int /\ w[z] \in Int  BY <1>5, <1>8
<1>15. SumFunctionOnSet(w, (A \ {z}) \ {y}) = SumFunctionOnSet(w, (A \ {y}) \ {z})
  BY <1>12
<1> HIDE DEF F
<1> QED  BY <1>4, <1>6, <1>9, <1>11, <1>13, <1>14, <1>15

\* Any element can be added.
LEMMA SumAdd ==
    ASSUME NEW w, NEW S, IsFiniteSet(S), NEW x, x \notin S,
           \A y \in S \cup {x} : w[y] \in Int
    PROVE  SumFunctionOnSet(w, S \cup {x}) = w[x] + SumFunctionOnSet(w, S)
<1>1. IsFiniteSet(S \cup {x})  BY FS_AddElement
<1>2. (S \cup {x}) \ {x} = S  OBVIOUS
<1>3. SumFunctionOnSet(w, S \cup {x}) = w[x] + SumFunctionOnSet(w, (S \cup {x}) \ {x})
  BY <1>1, SumRemove
<1> QED  BY <1>2, <1>3

\* Only the weights of the elements count.
LEMMA SumAgree ==
    ASSUME NEW v, NEW w, NEW S, IsFiniteSet(S), \A x \in S : v[x] = w[x]
    PROVE  SumFunctionOnSet(v, S) = SumFunctionOnSet(w, S)
<1> DEFINE F == {A \in SUBSET S : SumFunctionOnSet(v, A) # SumFunctionOnSet(w, A)}
<1>1. SUFFICES ASSUME F # {} PROVE FALSE  BY Zenon
<1>2. \A A \in F : IsFiniteSet(A)  BY FS_Subset
<1>3. PICK A \in F : \A x \in A : A \ {x} \notin F  BY <1>1, <1>2, SmallestSet
<1>4. A # {}  BY <1>3, SumEmpty
<1>5. One(A) \in A  BY <1>4, OneOf
<1>6. SumFunctionOnSet(v, A \ {One(A)}) = SumFunctionOnSet(w, A \ {One(A)})
  BY <1>3, <1>5
<1>7. SumFunctionOnSet(v, A) = v[One(A)] + SumFunctionOnSet(v, A \ {One(A)})
  BY <1>2, <1>4, SumEquation
<1>8. SumFunctionOnSet(w, A) = w[One(A)] + SumFunctionOnSet(w, A \ {One(A)})
  BY <1>2, <1>4, SumEquation
<1> QED  BY <1>3, <1>5, <1>6, <1>7, <1>8

\* One weight changes.
LEMMA SumChange ==
    ASSUME NEW v, NEW w, NEW S, IsFiniteSet(S), NEW x \in S,
           \A y \in S : v[y] \in Int /\ w[y] \in Int,
           \A y \in S \ {x} : v[y] = w[y]
    PROVE  SumFunctionOnSet(v, S) = SumFunctionOnSet(w, S) - w[x] + v[x]
<1> DEFINE R == S \ {x}
<1>1. IsFiniteSet(R)  BY FS_Subset
<1>2. SumFunctionOnSet(v, R) = SumFunctionOnSet(w, R)  BY <1>1, SumAgree
<1>3. SumFunctionOnSet(w, R) \in Int  BY <1>1, SumInt
<1>4. SumFunctionOnSet(v, S) = v[x] + SumFunctionOnSet(v, R)  BY SumRemove
<1>5. SumFunctionOnSet(w, S) = w[x] + SumFunctionOnSet(w, R)  BY SumRemove
<1> HIDE DEF R
<1> QED  BY <1>2, <1>3, <1>4, <1>5

\* Two sets without a common element.
LEMMA SumUnion ==
    ASSUME NEW w, NEW S, IsFiniteSet(S), NEW T, IsFiniteSet(T), S \cap T = {},
           \A x \in S \cup T : w[x] \in Int
    PROVE  SumFunctionOnSet(w, S \cup T) = SumFunctionOnSet(w, S) + SumFunctionOnSet(w, T)
<1> DEFINE F == {A \in SUBSET T : SumFunctionOnSet(w, S \cup A)
                                    # SumFunctionOnSet(w, S) + SumFunctionOnSet(w, A)}
<1>1. SUFFICES ASSUME F # {} PROVE FALSE  BY Zenon
<1>2. \A A \in SUBSET T : IsFiniteSet(A)  BY FS_Subset
<1>3. PICK A \in F : \A x \in A : A \ {x} \notin F  BY <1>1, <1>2, SmallestSet
<1>4. SumFunctionOnSet(w, S) \in Int  BY SumInt
<1>5. A # {}
  <2> SUFFICES ASSUME A = {} PROVE FALSE  OBVIOUS
  <2>1. S \cup A = S  OBVIOUS
  <2> QED  BY <1>3, <1>4, <2>1, SumEmpty
<1>6. PICK x \in A : TRUE  BY <1>5
<1> DEFINE B == A \ {x}
<1>7. A \in SUBSET T /\ B \in SUBSET T /\ x \in T /\ x \notin S \cup B
  BY <1>3, <1>6
<1>8. SumFunctionOnSet(w, S \cup B) = SumFunctionOnSet(w, S) + SumFunctionOnSet(w, B)
  BY <1>3, <1>6, <1>7
<1>9. S \cup A = (S \cup B) \cup {x}  BY <1>6
<1>10. IsFiniteSet(S \cup B)  BY <1>2, <1>7, FS_Union
<1> HIDE DEF B
<1>11. SumFunctionOnSet(w, S \cup A) = w[x] + SumFunctionOnSet(w, S \cup B)
  BY <1>7, <1>9, <1>10, SumAdd
<1>12. SumFunctionOnSet(w, A) = w[x] + SumFunctionOnSet(w, B)
  BY <1>2, <1>6, <1>7, SumRemove DEF B
<1>13. SumFunctionOnSet(w, B) \in Int /\ w[x] \in Int  BY <1>2, <1>7, SumInt
<1> QED  BY <1>3, <1>4, <1>8, <1>11, <1>12, <1>13

\* With natural weights a part adds up to no more than the whole.
LEMMA SumOfPart ==
    ASSUME NEW w, NEW S, IsFiniteSet(S), \A x \in S : w[x] \in Nat, NEW T, T \subseteq S
    PROVE  SumFunctionOnSet(w, T) <= SumFunctionOnSet(w, S)
<1>1. IsFiniteSet(T) /\ IsFiniteSet(S \ T)  BY FS_Subset
<1>2. SumFunctionOnSet(w, T) \in Nat /\ SumFunctionOnSet(w, S \ T) \in Nat
  BY <1>1, SumNat
<1>3. T \cup (S \ T) = S /\ T \cap (S \ T) = {}  OBVIOUS
<1>4. SumFunctionOnSet(w, S) = SumFunctionOnSet(w, T) + SumFunctionOnSet(w, S \ T)
  BY <1>1, <1>3, SumUnion
<1> QED  BY <1>2, <1>4

\* What the sets P[i], i in A, hold together.
Merged(P, A) == UNION {P[i] : i \in A}

\* A sum over parts that have no element in common, part by part.
LEMMA SumOfParts ==
    ASSUME NEW v, NEW P, NEW I, IsFiniteSet(I), IsFiniteSet(Merged(P, I)),
           \A i, j \in I : i # j => P[i] \cap P[j] = {},
           \A x \in Merged(P, I) : v[x] \in Int,
           NEW w, \A i \in I : w[i] = SumFunctionOnSet(v, P[i])
    PROVE  SumFunctionOnSet(w, I) = SumFunctionOnSet(v, Merged(P, I))
<1> DEFINE F == {A \in SUBSET I : SumFunctionOnSet(w, A) # SumFunctionOnSet(v, Merged(P, A))}
<1>1. SUFFICES ASSUME F # {} PROVE FALSE  BY Zenon
<1>2. \A A \in SUBSET I : IsFiniteSet(A)  BY FS_Subset
<1>3. PICK A \in F : \A z \in A : A \ {z} \notin F  BY <1>1, <1>2, SmallestSet
<1>4. A \in SUBSET I /\ IsFiniteSet(A)  BY <1>2, <1>3
<1>5. A # {}
  <2> SUFFICES ASSUME A = {} PROVE FALSE  OBVIOUS
  <2>1. Merged(P, {}) = {}  BY DEF Merged
  <2> QED  BY <1>3, <2>1, SumEmpty
<1>6. PICK x \in A : TRUE  BY <1>5
<1> DEFINE B == A \ {x}
<1>7. B \in SUBSET I /\ IsFiniteSet(B)  BY <1>2, <1>4
<1>8. SumFunctionOnSet(w, B) = SumFunctionOnSet(v, Merged(P, B))  BY <1>3, <1>6, <1>7
<1>9. /\ Merged(P, A) = Merged(P, B) \cup P[x] /\ Merged(P, B) \cap P[x] = {}
      /\ Merged(P, A) \subseteq Merged(P, I)
  BY <1>4, <1>6 DEF Merged
<1>10. IsFiniteSet(Merged(P, B)) /\ IsFiniteSet(P[x])  BY <1>9, FS_Subset
<1>11. \A y \in Merged(P, B) \cup P[x] : v[y] \in Int  BY <1>9
<1>12. SumFunctionOnSet(v, Merged(P, A))
         = SumFunctionOnSet(v, Merged(P, B)) + SumFunctionOnSet(v, P[x])
  <2> HIDE DEF B, F
  <2>1. PICK S, T : S = Merged(P, B) /\ T = P[x]  OBVIOUS
  <2>2. IsFiniteSet(S) /\ IsFiniteSet(T) /\ S \cap T = {} /\ \A y \in S \cup T : v[y] \in Int
    BY <1>9, <1>10, <1>11, <2>1
  <2>3. SumFunctionOnSet(v, S \cup T) = SumFunctionOnSet(v, S) + SumFunctionOnSet(v, T)
    BY <2>2, SumUnion
  <2> QED  BY <1>9, <2>1, <2>3
<1>13. \A i \in A : w[i] \in Int
  <2> SUFFICES ASSUME NEW i \in A PROVE SumFunctionOnSet(v, P[i]) \in Int  BY <1>4
  <2>1. P[i] \subseteq Merged(P, I)  BY <1>4 DEF Merged
  <2>2. IsFiniteSet(P[i]) /\ \A y \in P[i] : v[y] \in Int  BY <2>1, FS_Subset
  <2> QED  BY <2>2, SumInt
<1>14. SumFunctionOnSet(w, A) = w[x] + SumFunctionOnSet(w, B)
  BY <1>4, <1>6, <1>13, SumRemove
<1>15. SumFunctionOnSet(w, B) \in Int  BY <1>7, <1>13, SumInt
<1>16. w[x] = SumFunctionOnSet(v, P[x]) /\ w[x] \in Int  BY <1>4, <1>6, <1>13
<1>17. SumFunctionOnSet(w, A) # SumFunctionOnSet(v, Merged(P, A))  BY <1>3
<1> HIDE DEF B, F
<1> QED  BY <1>8, <1>12, <1>14, <1>15, <1>16, <1>17

\* A sum over a set seen through a function that keeps its elements apart.
LEMMA SumOfImage ==
    ASSUME NEW S, IsFiniteSet(S), NEW f, \A x, y \in S : f[x] = f[y] => x = y,
           NEW w, \A x \in S : w[x] \in Int, NEW v, \A x \in S : v[f[x]] = w[x]
    PROVE  SumFunctionOnSet(v, {f[x] : x \in S}) = SumFunctionOnSet(w, S)
<1>1. PICK P : P = [x \in S |-> {f[x]}]  OBVIOUS
<1>2. PICK T : T = {f[x] : x \in S}  OBVIOUS
<1>3. Merged(P, S) = T  BY <1>1, <1>2 DEF Merged
<1>4. IsFiniteSet(T)
  <2>1. PICK g : g = [x \in S |-> f[x]]  OBVIOUS
  <2>2. g \in Surjection(S, T)  BY <1>2, <2>1 DEF Surjection
  <2> QED  BY <2>2, FS_Surjection
<1>5. \A y \in T : v[y] \in Int  BY <1>2
<1>6. \A x, y \in S : x # y => P[x] \cap P[y] = {}  BY <1>1
<1>7. ASSUME NEW x \in S PROVE w[x] = SumFunctionOnSet(v, P[x])
  <2>1. v[f[x]] \in Int /\ P[x] = {f[x]}  BY <1>1
  <2>2. SumFunctionOnSet(v, {} \cup {f[x]}) = v[f[x]] + SumFunctionOnSet(v, {})
    BY <2>1, FS_EmptySet, SumAdd
  <2>3. {} \cup {f[x]} = {f[x]}  OBVIOUS
  <2> QED  BY <2>1, <2>2, <2>3, SumEmpty
<1>8. SumFunctionOnSet(w, S) = SumFunctionOnSet(v, Merged(P, S))
  BY <1>3, <1>4, <1>5, <1>6, <1>7, SumOfParts
<1> QED  BY <1>2, <1>3, <1>8

\* With no weight above m a sum is at most m times the number of elements.
LEMMA SumBound ==
    ASSUME NEW w, NEW m \in Nat, NEW S, IsFiniteSet(S), \A x \in S : w[x] \in 0..m
    PROVE  SumFunctionOnSet(w, S) <= Cardinality(S) * m
<1> DEFINE F == {A \in SUBSET S : ~(SumFunctionOnSet(w, A) <= Cardinality(A) * m)}
<1>1. SUFFICES ASSUME F # {} PROVE FALSE  BY Zenon
<1>2. \A A \in SUBSET S : IsFiniteSet(A)  BY FS_Subset
<1>3. PICK A \in F : \A z \in A : A \ {z} \notin F  BY <1>1, <1>2, SmallestSet
<1>4. A \in SUBSET S /\ IsFiniteSet(A)  BY <1>2, <1>3
<1>5. A # {}
  <2> SUFFICES ASSUME A = {} PROVE FALSE  OBVIOUS
  <2>1. SumFunctionOnSet(w, A) = 0 /\ Cardinality(A) = 0  BY SumEmpty, FS_EmptySet
  <2> QED  BY <1>3, <2>1
<1>6. PICK x \in A : TRUE  BY <1>5
<1>7. A \ {x} \in SUBSET S /\ IsFiniteSet(A \ {x})  BY <1>2, <1>4
<1>8. SumFunctionOnSet(w, A \ {x}) <= Cardinality(A \ {x}) * m  BY <1>3, <1>6, <1>7
<1>9. \A y \in A : w[y] \in Int  BY <1>4
<1>10. SumFunctionOnSet(w, A) = w[x] + SumFunctionOnSet(w, A \ {x})
  BY <1>4, <1>6, <1>9, SumRemove
<1>11. SumFunctionOnSet(w, A \ {x}) \in Int  BY <1>7, <1>9, SumInt
<1>12. PICK n \in Nat : n = Cardinality(A \ {x})  BY <1>7, FS_CardinalityType
<1>13. Cardinality(A) \in Nat /\ n = Cardinality(A) - 1
  BY <1>4, <1>6, <1>12, FS_RemoveElement, FS_CardinalityType
<1>14. Cardinality(A) = n + 1  BY <1>13
<1>15. (n + 1) * m = n * m + m /\ n * m \in Nat  OBVIOUS
<1>16. w[x] \in Nat /\ w[x] <= m  BY <1>4, <1>6
<1>17. ~(SumFunctionOnSet(w, A) <= (n + 1) * m)  BY <1>3, <1>14
<1>18. SumFunctionOnSet(w, A \ {x}) <= n * m  BY <1>8, <1>12
<1> HIDE DEF F
<1> QED  BY <1>10, <1>11, <1>15, <1>16, <1>17, <1>18

-----------------------------------------------------------------------------
(* Arithmetic.                                                             *)

\* Unsigned subtraction and addition stay in the width of the type.
LEMMA ModBound ==
    ASSUME NEW x \in Int, NEW m \in Nat \ {0}
    PROVE  x % m \in 0..m - 1
  BY SMT
=============================================================================
