---------------------------- MODULE NaturalFacts ----------------------------
(***************************************************************************)
(* Facts about natural numbers, and about totals of integers, that the     *)
(* proofs of several components use.                                       *)
(* Induction is stated over a set instead of a predicate, so that it can   *)
(* be cited: the least element of the counterexamples is one too many.     *)
(***************************************************************************)
EXTENDS Integers, Totals, FiniteSetTheorems, TLAPS

LessThan == {p \in Nat \X Nat : p[1] < p[2]}

\* Every descent in the natural numbers ends.
LEMMA LessThanWellFounded == IsWellFoundedOn(LessThan, Nat)
BY NatLessThanWellFounded DEF OpToRel, LessThan

\* A set of natural numbers has a least element.
LEMMA LeastNatural ==
    ASSUME NEW T, T \subseteq Nat, T # {}
    PROVE  \E x \in T : \A y \in T : x <= y
<1>1. PICK x \in T : \A y \in T : ~ (<<y, x>> \in LessThan)
  BY LessThanWellFounded, WFMin
<1>2. ASSUME NEW y \in T
      PROVE  x <= y
  <2>1. x \in Nat /\ y \in Nat
    OBVIOUS
  <2>2. CASE y < x
    <3>1. <<y, x>> \in Nat \X Nat /\ <<y, x>>[1] < <<y, x>>[2]
      BY <2>1, <2>2
    <3>2. <<y, x>> \in LessThan
      BY <3>1 DEF LessThan
    <3> QED BY <1>1, <3>2
  <2> QED BY <2>1, <2>2
<1> QED BY <1>2

\* A bounded one has a greatest element.
LEMMA GreatestNatural ==
    ASSUME NEW T, T \subseteq Nat, T # {}, NEW n \in Nat, \A i \in T : i <= n
    PROVE  \E x \in T : \A y \in T : y <= x
<1> DEFINE U == {n - i : i \in T}
<1>1. U \subseteq Nat
  <2>1. ASSUME NEW i \in T
        PROVE  n - i \in Nat
    <3>1. i \in Nat /\ i <= n
      OBVIOUS
    <3> QED BY <3>1
  <2> QED BY <2>1
<1>2. U # {}
  OBVIOUS
<1> HIDE DEF U
<1>3. PICK u \in U : \A v \in U : u <= v
  BY <1>1, <1>2, LeastNatural
<1>4. PICK x \in T : u = n - x
  BY DEF U
<1>5. ASSUME NEW y \in T
      PROVE  y <= x
  <2>1. n - y \in U
    BY DEF U
  <2>2. n - x <= n - y /\ x \in Nat /\ y \in Nat
    BY <1>3, <1>4, <2>1
  <2> QED BY <2>2
<1> QED BY <1>5

\* A set that has 0, and with every number the next, has them all.
LEMMA NaturalInduction ==
    ASSUME NEW T, 0 \in T, \A n \in Nat : n \in T => n + 1 \in T
    PROVE  \A n \in Nat : n \in T
<1> DEFINE U == {n \in Nat : n \notin T}
<1> SUFFICES ASSUME U # {}
             PROVE  FALSE
  OBVIOUS
<1>1. U \subseteq Nat
  OBVIOUS
<1> HIDE DEF U
<1>2. PICK u \in U : \A v \in U : u <= v
  BY <1>1, LeastNatural
<1>3. u \in Nat /\ u \notin T /\ u # 0
  BY DEF U
<1>4. u - 1 \in Nat /\ ~ (u <= u - 1)
  BY <1>3
<1>5. u - 1 \in T
  BY <1>2, <1>4 DEF U
<1>6. (u - 1) + 1 \in T /\ (u - 1) + 1 = u
  BY <1>3, <1>4, <1>5
<1> QED BY <1>3, <1>6

\* Powers of two are counted as subsets: one more element doubles them.
LEMMA PowerOfTwo ==
    ASSUME NEW n \in Nat
    PROVE  /\ 2^n \in Nat \ {0}
           /\ 2^(n + 1) = 2 * 2^n
           /\ \A m \in 0..n : 2^m <= 2^n
<1> DEFINE A == SUBSET (1..n)
           B == {s \cup {n + 1} : s \in A}
           F == [s \in A |-> s \cup {n + 1}]
<1>1. IsFiniteSet(1..n) /\ Cardinality(1..n) = n
  BY FS_Interval
<1>2. IsFiniteSet(A) /\ Cardinality(A) = 2^n
  BY <1>1, FS_SUBSET
<1>3. Cardinality(A) \in Nat /\ Cardinality(A) # 0
  <2>1. {} \in A
    OBVIOUS
  <2> QED BY <1>2, <2>1, FS_CardinalityType, FS_EmptySet
<1>4. Cardinality(SUBSET (1..n + 1)) = 2^(n + 1)
  <2>1. IsFiniteSet(1..n + 1) /\ Cardinality(1..n + 1) = n + 1
    BY FS_Interval
  <2> QED BY <2>1, FS_SUBSET
<1>5. F \in Bijection(A, B)
  <2>1. F \in [A -> B]
    OBVIOUS
  <2>2. ASSUME NEW s \in A, NEW t \in A, F[s] = F[t]
        PROVE  s = t
    <3>1. n + 1 \notin s /\ n + 1 \notin t
      OBVIOUS
    <3>2. s \cup {n + 1} = t \cup {n + 1}
      BY <2>2
    <3> QED BY <3>1, <3>2
  <2>3. \A b \in B : \E s \in A : F[s] = b
    OBVIOUS
  <2> QED BY <2>1, <2>2, <2>3 DEF Bijection, Injection, Surjection, IsInjective
<1>6. IsFiniteSet(B) /\ Cardinality(B) = Cardinality(A)
  BY <1>2, <1>5, FS_Bijection DEF ExistsBijection
<1>7. SUBSET (1..n + 1) = A \cup B
  <2>1. ASSUME NEW s \in SUBSET (1..n + 1)
        PROVE  s \in A \cup B
    <3>1. CASE n + 1 \notin s
      <4>1. 1..n + 1 = (1..n) \cup {n + 1}
        OBVIOUS
      <4> QED BY <3>1, <4>1
    <3>2. CASE n + 1 \in s
      <4>1. 1..n + 1 = (1..n) \cup {n + 1}
        OBVIOUS
      <4>2. s \ {n + 1} \in A /\ s = (s \ {n + 1}) \cup {n + 1}
        BY <3>2, <4>1
      <4> QED BY <4>2
    <3> QED BY <3>1, <3>2
  <2>2. ASSUME NEW s \in A \cup B
        PROVE  s \in SUBSET (1..n + 1)
    <3>1. 1..n \subseteq 1..n + 1 /\ n + 1 \in 1..n + 1
      OBVIOUS
    <3> QED BY <3>1
  <2> QED BY <2>1, <2>2
<1>8. A \cap B = {}
  <2>1. \A s \in A : n + 1 \notin s
    OBVIOUS
  <2> QED BY <2>1
<1>9. Cardinality(A \cup B) = Cardinality(A) + Cardinality(A)
  <2> HIDE DEF A, B
  <2> QED BY <1>2, <1>3, <1>6, <1>8, FS_Union, FS_EmptySet
<1>10. \A m \in 0..n : 2^m <= 2^n
  <2> TAKE m \in 0..n
  <2>1. IsFiniteSet(1..m) /\ Cardinality(1..m) = m
    BY FS_Interval
  <2>2. Cardinality(SUBSET (1..m)) = 2^m
    BY <2>1, FS_SUBSET
  <2>3. SUBSET (1..m) \subseteq A
    <3>1. 1..m \subseteq 1..n
      OBVIOUS
    <3> QED BY <3>1
  <2> HIDE DEF A
  <2> QED BY <1>2, <2>2, <2>3, FS_Subset
<1> HIDE DEF A, B
<1>11. 2^n \in Nat \ {0}
  BY <1>2, <1>3
<1>12. Cardinality(A \cup B) = 2^n + 2^n
  BY <1>2, <1>9
<1>13. Cardinality(A \cup B) = 2^(n + 1)
  BY <1>4, <1>7
<1>14. 2^(n + 1) = 2^n + 2^n
  BY <1>12, <1>13
<1>15. \A x \in Nat : x + x = 2 * x
  OBVIOUS
<1> QED BY <1>10, <1>11, <1>14, <1>15
\* A product grows with its factors.
LEMMA ProductGrows ==
    ASSUME NEW x \in Nat, NEW y \in Nat, NEW z \in Nat, x <= y
    PROVE  z * x <= z * y /\ x * z <= y * z
<1>1. y - x \in Nat
  OBVIOUS
<1>2. z * (y - x) \in Nat /\ z * (y - x) = z * y - z * x
  BY <1>1
<1>3. z * x = x * z /\ z * y = y * z /\ z * x \in Nat /\ z * y \in Nat
  OBVIOUS
<1> QED BY <1>2, <1>3

\* What integer division leaves is less than the divisor.
LEMMA Division ==
    ASSUME NEW m \in Nat, NEW d \in Nat \ {0}
    PROVE  m \div d \in Nat /\ d * (m \div d) <= m /\ m < d * (m \div d) + d
OBVIOUS

\* The quotient is the most that fits.
LEMMA Quotient ==
    ASSUME NEW m \in Nat, NEW d \in Nat \ {0}, NEW k \in Nat, k * d <= m
    PROVE  k <= m \div d
<1> DEFINE e == m \div d
<1>1. e \in Nat /\ m < d * e + d
  BY Division
<1> HIDE DEF e
<1>2. CASE e + 1 <= k
  <2>1. k - (e + 1) \in Nat
    BY <1>1, <1>2
  <2>2. d * (k - (e + 1)) \in Nat /\ d * (k - (e + 1)) = d * k - (d * e + d)
    BY <1>1, <2>1
  <2>6. d * k = k * d /\ d * k \in Nat /\ d * e \in Nat
    BY <1>1
  <2> QED BY <1>1, <2>2, <2>6
<1>3. CASE ~ (e + 1 <= k)
  BY <1>1, <1>3 DEF e
<1> QED BY <1>2, <1>3

\* A finite set of natural numbers has a greatest one.
LEMMA GreatestOfFinite ==
    ASSUME NEW S, S \subseteq Nat, IsFiniteSet(S), S # {}
    PROVE  \E m \in S : \A n \in S : n <= m
<1> DEFINE HasMax(U) == \E m \in U : \A n \in U : n <= m
           T == {k \in Nat : \A U \in SUBSET Nat :
                               IsFiniteSet(U) /\ Cardinality(U) = k + 1 => HasMax(U)}
<1>1. 0 \in T
  <2> SUFFICES ASSUME NEW U \in SUBSET Nat, IsFiniteSet(U), Cardinality(U) = 1
               PROVE  HasMax(U)
    OBVIOUS
  <2>1. PICK x : U = {x}
    BY FS_Singleton
  <2>2. x \in Nat
    BY <2>1
  <2> QED BY <2>1, <2>2
<1>2. ASSUME NEW k \in Nat, k \in T
      PROVE  k + 1 \in T
  <2> SUFFICES ASSUME NEW U \in SUBSET Nat, IsFiniteSet(U), Cardinality(U) = (k + 1) + 1
               PROVE  HasMax(U)
    OBVIOUS
  <2>0. U # {}
    <3>1. Cardinality({}) = 0 /\ (k + 1) + 1 # 0
      BY FS_EmptySet
    <3> QED BY <3>1
  <2>1. PICK x \in U : TRUE
    BY <2>0
  <2>2. IsFiniteSet(U \ {x}) /\ Cardinality(U \ {x}) = k + 1
    BY <2>1, FS_RemoveElement
  <2> DEFINE V == U \ {x}
  <2>3. V \in SUBSET Nat
    OBVIOUS
  <2>4. IsFiniteSet(V) /\ Cardinality(V) = k + 1
    BY <2>2
  <2> HIDE DEF V
  <2>5. HasMax(V)
    BY <1>2, <2>4, <2>3
  <2>6. PICK m \in U \ {x} : \A n \in U \ {x} : n <= m
    BY <2>5 DEF V
  <2>7. m \in Nat /\ x \in Nat
    BY <2>1
  <2>8. CASE x <= m
    BY <2>1, <2>6, <2>7, <2>8
  <2>9. CASE m <= x
    <3>1. \A n \in U : n <= x
      BY <2>1, <2>6, <2>7, <2>9
    <3> QED BY <3>1
  <2> QED BY <2>7, <2>8, <2>9
<1> HIDE DEF T
<1>3. \A n \in Nat : n \in T
  BY <1>1, <1>2, NaturalInduction
<1>4. Cardinality(S) \in Nat /\ Cardinality(S) # 0
  BY FS_CardinalityType, FS_EmptySet
<1>5. Cardinality(S) - 1 \in T /\ (Cardinality(S) - 1) + 1 = Cardinality(S)
  BY <1>3, <1>4
<1> QED BY <1>5 DEF T

-----------------------------------------------------------------------------
(* Totals. *)

\* The function that adds up is there, and does what its equation says.
LEMMA TotalSteps ==
    ASSUME NEW a \in Seq(Int)
    PROVE  \E sum \in [0..Len(a) -> Int] :
              /\ sum[0] = 0
              /\ \A i \in 1..Len(a) : sum[i] = sum[i - 1] + a[i]
              /\ Total(a) = sum[Len(a)]
<1> DEFINE n == Len(a)
           Adds(g, m) == g = [i \in 0..m |-> IF i = 0 THEN 0 ELSE g[i - 1] + a[i]]
           T == {m \in Nat : \E g : Adds(g, m)}
<1>1. n \in Nat /\ \A i \in 1..n : a[i] \in Int
  OBVIOUS
<1>2. 0 \in T
  <2> DEFINE g == [i \in 0..0 |-> 0]
  <2>1. Adds(g, 0)
    OBVIOUS
  <2> QED BY <2>1
<1>3. ASSUME NEW m \in Nat, m \in T
      PROVE  m + 1 \in T
  <2>1. PICK g : Adds(g, m)
    BY <1>3
  <2> DEFINE h == [i \in 0..(m + 1) |-> IF i = m + 1 THEN g[m] + a[i] ELSE g[i]]
  <2>2. ASSUME NEW i \in 0..(m + 1)
        PROVE  h[i] = IF i = 0 THEN 0 ELSE h[i - 1] + a[i]
    <3>1. CASE i = 0
      <4>1. g[0] = 0 /\ 0 \in 0..(m + 1) /\ 0 # m + 1
        BY <2>1
      <4> QED BY <3>1, <4>1
    <3>2. CASE i = m + 1
      <4>1. h[i - 1] = g[m] /\ i # 0
        BY <3>2
      <4> QED BY <3>2, <4>1
    <3>3. CASE i # 0 /\ i # m + 1
      <4>1. i \in 0..m /\ i - 1 \in 0..(m + 1) /\ i - 1 # m + 1
        BY <3>3
      <4>2. h[i - 1] = g[i - 1] /\ h[i] = g[i]
        BY <3>3, <4>1
      <4>3. g[i] = g[i - 1] + a[i]
        BY <2>1, <3>3, <4>1
      <4> QED BY <3>3, <4>2, <4>3
    <3> QED BY <3>1, <3>2, <3>3
  <2>3. h = [i \in 0..(m + 1) |-> h[i]]
    OBVIOUS
  <2> HIDE DEF h
  <2>4. [i \in 0..(m + 1) |-> h[i]] = [i \in 0..(m + 1) |-> IF i = 0 THEN 0 ELSE h[i - 1] + a[i]]
    BY <2>2, Zenon
  <2>5. Adds(h, m + 1)
    BY <2>3, <2>4, Zenon
  <2> HIDE DEF Adds
  <2>6. \E f : Adds(f, m + 1)
    BY <2>5
  <2> QED BY <2>6
<1>4. \E g : Adds(g, n)
  <2> HIDE DEF T
  <2>1. n \in T
    BY <1>1, <1>2, <1>3, NaturalInduction
  <2> QED BY <2>1 DEF T
<1> DEFINE sum == CHOOSE g : Adds(g, n)
<1>5. Adds(sum, n)
  BY <1>4
<1>6. Total(a) = sum[n]
  BY DEF Total
<1> HIDE DEF sum
<1>7. sum[0] = 0 /\ \A i \in 1..n : sum[i] = sum[i - 1] + a[i]
  BY <1>1, <1>5
<1>8. \A i \in 0..n : sum[i] \in Int
  <2> DEFINE U == {m \in Nat : m <= n => sum[m] \in Int}
  <2>1. 0 \in U
    BY <1>7
  <2>2. ASSUME NEW m \in Nat, m \in U
        PROVE  m + 1 \in U
    <3>1. CASE m + 1 <= n
      <4>1. m + 1 \in 1..n /\ (m + 1) - 1 = m /\ m <= n
        BY <1>1, <3>1
      <4>2. sum[m + 1] = sum[m] + a[m + 1]
        BY <1>7, <4>1
      <4> QED BY <1>1, <2>2, <4>1, <4>2
    <3>2. CASE ~(m + 1 <= n)
      BY <3>2
    <3> QED BY <3>1, <3>2
  <2> HIDE DEF U
  <2>3. \A m \in Nat : m \in U
    BY <2>1, <2>2, NaturalInduction
  <2> QED BY <1>1, <2>3 DEF U
<1>9. sum \in [0..n -> Int]
  <2>1. sum = [i \in 0..n |-> sum[i]]
    BY <1>5
  <2> QED BY <1>8, <2>1
<1> QED BY <1>6, <1>7, <1>9

\* A total is an integer; of no amounts it is zero.
LEMMA TotalInteger ==
    /\ \A a \in Seq(Int) : Total(a) \in Int
    /\ Total(<<>>) = 0
<1>1. ASSUME NEW a \in Seq(Int)
      PROVE  Total(a) \in Int /\ (Len(a) = 0 => Total(a) = 0)
  <2>1. PICK sum \in [0..Len(a) -> Int] : sum[0] = 0 /\ Total(a) = sum[Len(a)]
    BY TotalSteps
  <2>2. Len(a) \in 0..Len(a)
    OBVIOUS
  <2> QED BY <2>1, <2>2
<1>2. <<>> \in Seq(Int) /\ Len(<<>>) = 0
  OBVIOUS
<1> QED BY <1>1, <1>2

\* One more amount adds itself.
LEMMA TotalAppended ==
    ASSUME NEW a \in Seq(Int), NEW x \in Int
    PROVE  Total(Append(a, x)) = Total(a) + x
<1> DEFINE n == Len(a)
           b == Append(a, x)
<1>1. /\ n \in Nat /\ b \in Seq(Int) /\ Len(b) = n + 1 /\ b[n + 1] = x
      /\ \A i \in 1..n : b[i] = a[i]
  OBVIOUS
<1> HIDE DEF n, b
<1>2. PICK s \in [0..n -> Int] :
         s[0] = 0 /\ Total(a) = s[n] /\ \A i \in 1..n : s[i] = s[i - 1] + a[i]
  BY TotalSteps DEF n
<1>3. PICK t \in [0..(n + 1) -> Int] :
         t[0] = 0 /\ Total(b) = t[n + 1] /\ \A i \in 1..(n + 1) : t[i] = t[i - 1] + b[i]
  <2>1. PICK t \in [0..Len(b) -> Int] :
           t[0] = 0 /\ Total(b) = t[Len(b)] /\ \A i \in 1..Len(b) : t[i] = t[i - 1] + b[i]
    BY <1>1, TotalSteps
  <2> QED BY <1>1, <2>1
<1> DEFINE T == {m \in Nat : m <= n => t[m] = s[m]}
<1>4. 0 \in T
  BY <1>2, <1>3
<1>5. ASSUME NEW m \in Nat, m \in T
      PROVE  m + 1 \in T
  <2>1. CASE m + 1 <= n
    <3>1. m + 1 \in 1..n /\ m + 1 \in 1..(n + 1) /\ (m + 1) - 1 = m /\ m <= n
      BY <1>1, <2>1
    <3>2. t[m + 1] = t[m] + b[m + 1] /\ s[m + 1] = s[m] + a[m + 1]
      BY <1>2, <1>3, <3>1
    <3>3. b[m + 1] = a[m + 1] /\ t[m] = s[m]
      BY <1>1, <1>5, <3>1
    <3> QED BY <3>2, <3>3
  <2>2. CASE ~(m + 1 <= n)
    BY <2>2
  <2> QED BY <2>1, <2>2
<1> HIDE DEF T
<1>6. n \in T
  BY <1>1, <1>4, <1>5, NaturalInduction
<1>7. t[n] = s[n]
  BY <1>1, <1>6 DEF T
<1>8. t[n + 1] = t[n] + x
  <2>1. n + 1 \in 1..(n + 1) /\ (n + 1) - 1 = n
    BY <1>1
  <2> QED BY <1>1, <1>3, <2>1
<1> QED BY <1>2, <1>3, <1>7, <1>8 DEF b

\* The same, said of the elements.
LEMMA TotalExtended ==
    ASSUME NEW a \in Seq(Int), NEW b \in Seq(Int), NEW x \in Int,
           Len(b) = Len(a) + 1, b[Len(a) + 1] = x, \A i \in 1..Len(a) : b[i] = a[i]
    PROVE  Total(b) = Total(a) + x
<1>1. b = Append(a, x)
  <2>1. Append(a, x) \in Seq(Int) /\ Len(Append(a, x)) = Len(b)
    OBVIOUS
  <2>2. \A i \in 1..Len(b) : b[i] = Append(a, x)[i]
    OBVIOUS
  <2> QED BY <2>1, <2>2
<1> QED BY <1>1, TotalAppended

=============================================================================
