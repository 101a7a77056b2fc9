------------------------------ MODULE TotalsProofs ------------------------------
(***************************************************************************)
(* What Total adds up to.  A sum over a finite set is a recursion over its *)
(* subsets: it has one solution, any element can be taken out first, and a *)
(* change in one place changes the total by as much.                       *)
(*                                                                         *)
(* Induction is done by the least counterexample: a set of numbers that is *)
(* not empty has a least one (LeastNumber), and SubsetInduction says the   *)
(* same of finite sets, about a set of subsets instead of a predicate.     *)
(***************************************************************************)
EXTENDS Totals, FiniteSets, Sequences, WellFoundedInduction, FiniteSetTheorems, TLAPS

\* Every nonempty set of numbers has a least one.
LEMMA LeastNumber ==
    ASSUME NEW T \in SUBSET Nat, T # {}
    PROVE  \E m \in T : \A n \in T : m <= n
<1> DEFINE R == OpToRel(<, Nat)
<1>1. IsWellFoundedOn(R, Nat)
  BY NatLessThanWellFounded
<1>2. \A m, n \in Nat : <<n, m>> \in R <=> n < m
  BY DEF OpToRel
<1> HIDE DEF R
<1>3. PICK m \in T : \A n \in T : ~(<<n, m>> \in R)
  BY <1>1, WFMin
<1>4. ASSUME NEW n \in T PROVE m <= n
  <2>1. m \in Nat /\ n \in Nat /\ ~(<<n, m>> \in R)
    BY <1>3
  <2>2. ~(n < m)
    BY <1>2, <2>1
  <2> QED BY <2>1, <2>2
<1> QED BY <1>4

\* What holds of a finite set whenever it holds of the set without any one of
\* its elements holds of every finite set.
LEMMA SubsetInduction ==
    ASSUME NEW D, IsFiniteSet(D), NEW T,
           \A s \in SUBSET D : (\A x \in s : s \ {x} \in T) => s \in T
    PROVE  SUBSET D \subseteq T
<1> SUFFICES ASSUME NEW r \in SUBSET D, r \notin T PROVE FALSE
  OBVIOUS
<1>1. ASSUME NEW s \in SUBSET D PROVE IsFiniteSet(s) /\ Cardinality(s) \in Nat
  <2>1. IsFiniteSet(s)
    BY FS_Subset
  <2> QED BY <2>1, FS_CardinalityType
<1> DEFINE N == {Cardinality(s) : s \in (SUBSET D) \ T}
<1>2. N \in SUBSET Nat /\ N # {}
  BY <1>1
<1>3. PICK m \in N : \A n \in N : m <= n
  <2> HIDE DEF N
  <2> QED BY <1>2, LeastNumber
<1>4. PICK s \in SUBSET D : s \notin T /\ m = Cardinality(s)
  OBVIOUS
<1>5. ASSUME NEW x \in s PROVE s \ {x} \in T
  <2>1. Cardinality(s \ {x}) = Cardinality(s) - 1
    <3>1. IsFiniteSet(s)
      BY <1>1
    <3> QED BY <3>1, FS_RemoveElement
  <2>3. s \ {x} \in SUBSET D
    OBVIOUS
  <2>2. ~(Cardinality(s) <= Cardinality(s \ {x}))
    <3>1. Cardinality(s) \in Nat
      BY <1>1
    <3> QED BY <2>1, <3>1
  <2>4. Cardinality(s \ {x}) \notin N
    <3> HIDE DEF N
    <3> QED BY <1>3, <1>4, <2>2
  <2> QED BY <2>3, <2>4
<1> QED BY <1>4, <1>5

--------------------------------------------------------------------------------
\* The sum as a recursion over the subsets of the domain

\* The element the fold takes out of a set first.
Pick(s) == CHOOSE x \in s : TRUE

\* One step of the recursion that adds up f.
Add(f, g) ==
    [s \in SUBSET DOMAIN f |-> IF s = {} THEN 0 ELSE f[Pick(s)] + g[s \ {Pick(s)}]]

\* Its solution: the sum of f over each subset of its domain.
Sum(f) == CHOOSE g : g = Add(f, g)

\* The picked element is one.
LEMMA PickIn == ASSUME NEW s, s # {} PROVE Pick(s) \in s
BY DEF Pick

\* The fold of Functions is this sum.
LEMMA TotalIsSum == ASSUME NEW f PROVE Total(f) = Sum(f)[DOMAIN f]
BY DEF Total, FoldFunction, FoldFunctionOnSet, MapThenFoldSet, Add, Sum, Pick

\* The recursion has a solution.
LEMMA SumExists ==
    ASSUME NEW f, IsFiniteSet(DOMAIN f) PROVE \E g : g = Add(f, g)
<1> DEFINE D == DOMAIN f
           Upto(n, g) == /\ g = [s \in SUBSET D |-> g[s]]
                         /\ \A s \in SUBSET D : Cardinality(s) <= n => g[s] = Add(f, g)[s]
           Bad == {n \in Nat : ~\E g : Upto(n, g)}
<1>1. ASSUME NEW s \in SUBSET D PROVE IsFiniteSet(s) /\ Cardinality(s) \in Nat
  <2>1. IsFiniteSet(s)
    BY FS_Subset
  <2> QED BY <2>1, FS_CardinalityType
<1>2. Bad = {}
  <2> SUFFICES ASSUME Bad # {} PROVE FALSE
    OBVIOUS
  <2>1. PICK n \in Bad : \A m \in Bad : n <= m
    <3>1. Bad \in SUBSET Nat
      OBVIOUS
    <3> HIDE DEF Bad
    <3> QED BY <3>1, LeastNumber
  <2>2. CASE n = 0
    <3> DEFINE g == [s \in SUBSET D |-> 0]
    <3>1. ASSUME NEW s \in SUBSET D, Cardinality(s) <= 0 PROVE s = {}
      BY <1>1, <3>1, FS_EmptySet
    <3>2. Upto(0, g)
      BY <3>1 DEF Add
    <3> HIDE DEF g, Upto
    <3> QED BY <2>2, <3>2
  <2>3. CASE n # 0
    <3>1. n - 1 \in Nat /\ n \in Nat
      BY <2>3
    <3>2. n - 1 \notin Bad
      <4> HIDE DEF Bad
      <4> QED BY <2>1, <3>1
    <3>3. PICK g : Upto(n - 1, g)
      BY <3>1, <3>2
    <3> DEFINE h == Add(f, g)
    <3>4. ASSUME NEW s \in SUBSET D, Cardinality(s) <= n PROVE h[s] = Add(f, h)[s]
      <4>1. CASE s = {}
        BY <4>1 DEF Add
      <4>2. CASE s # {}
        <5> DEFINE t == s \ {Pick(s)}
        <5>1. t \in SUBSET D /\ Cardinality(t) = Cardinality(s) - 1
          BY <1>1, <4>2, PickIn, FS_RemoveElement
        <5>2. Cardinality(t) <= n - 1
          BY <1>1, <3>1, <3>4, <5>1
        <5>3. g[t] = h[t]
          BY <3>3, <5>1, <5>2
        <5>4. h[s] = f[Pick(s)] + g[t] /\ Add(f, h)[s] = f[Pick(s)] + h[t]
          <6> HIDE DEF t
          <6>1. \A k : Add(f, k)[s] = f[Pick(s)] + k[s \ {Pick(s)}]
            BY <4>2 DEF Add
          <6> QED BY <6>1 DEF t
        <5> QED BY <5>3, <5>4
      <4> QED BY <4>1, <4>2
    <3>5. Upto(n, h)
      BY <3>4 DEF Add
    <3> HIDE DEF Upto, h
    <3> QED BY <3>5
  <2> QED BY <2>2, <2>3
<1>3. Cardinality(D) \in Nat
  BY <1>1
<1>4. PICK g : Upto(Cardinality(D), g)
  BY <1>2, <1>3
<1>5. \A s \in SUBSET D : Cardinality(s) <= Cardinality(D)
  BY FS_Subset
<1>6. DOMAIN Add(f, g) = SUBSET D /\ Add(f, g) = [s \in SUBSET D |-> Add(f, g)[s]]
  BY DEF Add
<1>7. \A s \in SUBSET D : g[s] = Add(f, g)[s]
  BY <1>4, <1>5
<1> QED BY <1>4, <1>6, <1>7

\* It has one only, and with it the sum of every part is what is left without
\* the picked element, and that element.
LEMMA SumEquation ==
    ASSUME NEW f, IsFiniteSet(DOMAIN f)
    PROVE  /\ Sum(f)[{}] = 0
           /\ \A s \in SUBSET DOMAIN f :
                 s # {} => Sum(f)[s] = f[Pick(s)] + Sum(f)[s \ {Pick(s)}]
<1>1. Sum(f) = Add(f, Sum(f))
  BY SumExists DEF Sum
<1>2. \A s \in SUBSET DOMAIN f :
         Add(f, Sum(f))[s] = IF s = {} THEN 0 ELSE f[Pick(s)] + Sum(f)[s \ {Pick(s)}]
  BY DEF Add
<1> QED BY <1>1, <1>2

\* The sum of integers is an integer.
LEMMA SumType ==
    ASSUME NEW D, IsFiniteSet(D), NEW f \in [D -> Int]
    PROVE  \A s \in SUBSET D : Sum(f)[s] \in Int
<1> DEFINE T == {s \in SUBSET D : Sum(f)[s] \in Int}
<1>1. ASSUME NEW s \in SUBSET D, \A x \in s : s \ {x} \in T PROVE s \in T
  <2>1. CASE s = {}
    BY <2>1, SumEquation
  <2>2. CASE s # {}
    <3>1. Pick(s) \in s /\ f[Pick(s)] \in Int
      BY <2>2, PickIn
    <3>2. Sum(f)[s] = f[Pick(s)] + Sum(f)[s \ {Pick(s)}]
      BY <2>2, SumEquation
    <3>3. Sum(f)[s \ {Pick(s)}] \in Int
      BY <1>1, <3>1
    <3> QED BY <3>1, <3>2, <3>3
  <2> QED BY <2>1, <2>2
<1> HIDE DEF T
<1>2. SUBSET D \subseteq T
  BY <1>1, SubsetInduction
<1> QED BY <1>2 DEF T

\* Numbers that are not negative have a sum that is not negative.
LEMMA SumNatural ==
    ASSUME NEW D, IsFiniteSet(D), NEW f \in [D -> Nat]
    PROVE  \A s \in SUBSET D : Sum(f)[s] \in Nat
<1> DEFINE T == {s \in SUBSET D : Sum(f)[s] \in Nat}
<1>1. ASSUME NEW s \in SUBSET D, \A x \in s : s \ {x} \in T PROVE s \in T
  <2>1. CASE s = {}
    BY <2>1, SumEquation
  <2>2. CASE s # {}
    <3>1. Pick(s) \in s /\ f[Pick(s)] \in Nat
      BY <2>2, PickIn
    <3>2. Sum(f)[s] = f[Pick(s)] + Sum(f)[s \ {Pick(s)}]
      BY <2>2, SumEquation
    <3>3. Sum(f)[s \ {Pick(s)}] \in Nat
      BY <1>1, <3>1
    <3> QED BY <3>1, <3>2, <3>3
  <2> QED BY <2>1, <2>2
<1> HIDE DEF T
<1>2. SUBSET D \subseteq T
  BY <1>1, SubsetInduction
<1> QED BY <1>2 DEF T

\* Any element can be taken out first.
LEMMA SumTake ==
    ASSUME NEW D, IsFiniteSet(D), NEW f \in [D -> Int], NEW r \in SUBSET D, NEW y \in r
    PROVE  Sum(f)[r] = f[y] + Sum(f)[r \ {y}]
<1> DEFINE T == {s \in SUBSET D : \A x \in s : Sum(f)[s] = f[x] + Sum(f)[s \ {x}]}
<1>1. ASSUME NEW s \in SUBSET D, \A x \in s : s \ {x} \in T PROVE s \in T
  <2>1. ASSUME NEW x \in s PROVE Sum(f)[s] = f[x] + Sum(f)[s \ {x}]
    <3> DEFINE p == Pick(s)
               b == s \ {p, x}
    <3>1. p \in s /\ Sum(f)[s] = f[p] + Sum(f)[s \ {p}]
      BY PickIn, SumEquation
    <3>2. CASE x = p
      BY <3>1, <3>2
    <3>3. CASE x # p
      <4>1. x \in s \ {p} /\ p \in s \ {x} /\ (s \ {p}) \ {x} = b /\ (s \ {x}) \ {p} = b
        BY <3>1, <3>3
      <4>2. s \ {p} \in T /\ s \ {x} \in T
        BY <1>1, <3>1
      <4>3. Sum(f)[s \ {p}] = f[x] + Sum(f)[b] /\ Sum(f)[s \ {x}] = f[p] + Sum(f)[b]
        BY <4>1, <4>2
      <4>4. f[x] \in Int /\ f[p] \in Int /\ Sum(f)[b] \in Int
        BY <3>1, SumType
      <4> QED BY <3>1, <4>3, <4>4
    <3> QED BY <3>2, <3>3
  <2> QED BY <2>1
<1>2. SUBSET D \subseteq T
  <2> HIDE DEF T
  <2> QED BY <1>1, SubsetInduction
<1> QED BY <1>2

\* Functions that agree on a set have the same sum over it.
LEMMA SumAgree ==
    ASSUME NEW D, IsFiniteSet(D), NEW f \in [D -> Int],
           NEW E, IsFiniteSet(E), NEW g \in [E -> Int],
           NEW r \in SUBSET D, r \subseteq E, \A x \in r : f[x] = g[x]
    PROVE  Sum(f)[r] = Sum(g)[r]
<1> DEFINE T == {s \in SUBSET r : Sum(f)[s] = Sum(g)[s]}
<1>1. ASSUME NEW s \in SUBSET r, \A x \in s : s \ {x} \in T PROVE s \in T
  <2>1. CASE s = {}
    BY <2>1, SumEquation
  <2>2. CASE s # {}
    <3>1. PICK x : x \in s
      BY <2>2
    <3>0. s \in SUBSET D /\ s \in SUBSET E
      OBVIOUS
    <3>2. Sum(f)[s] = f[x] + Sum(f)[s \ {x}]
      BY <3>0, <3>1, SumTake
    <3>3. Sum(g)[s] = g[x] + Sum(g)[s \ {x}]
      BY <3>0, <3>1, SumTake
    <3>4. Sum(f)[s \ {x}] = Sum(g)[s \ {x}] /\ f[x] = g[x]
      BY <1>1, <3>1
    <3> QED BY <3>2, <3>3, <3>4
  <2> QED BY <2>1, <2>2
<1>2. SUBSET r \subseteq T
  <2>1. IsFiniteSet(r)
    BY FS_Subset
  <2> HIDE DEF T
  <2> QED BY <1>1, <2>1, SubsetInduction
<1> QED BY <1>2

--------------------------------------------------------------------------------
\* The total of integers is an integer.
LEMMA TotalType ==
    ASSUME NEW D, IsFiniteSet(D), NEW f \in [D -> Int] PROVE Total(f) \in Int
BY TotalIsSum, SumType

\* A change in one place changes the total by as much.
LEMMA TotalUpdate ==
    ASSUME NEW D, IsFiniteSet(D), NEW f \in [D -> Int], NEW g \in [D -> Int], NEW x \in D,
           \A y \in D \ {x} : f[y] = g[y]
    PROVE  Total(g) = Total(f) + g[x] - f[x]
<1>1. ASSUME NEW h \in [D -> Int] PROVE Sum(h)[D] = h[x] + Sum(h)[D \ {x}]
  <2>1. PICK r \in SUBSET D : r = D
    OBVIOUS
  <2>2. x \in r
    BY <2>1
  <2>3. Sum(h)[r] = h[x] + Sum(h)[r \ {x}]
    BY <2>2, SumTake
  <2> QED BY <2>1, <2>3
<1>2. Sum(f)[D \ {x}] = Sum(g)[D \ {x}] /\ Sum(f)[D \ {x}] \in Int
  BY SumAgree, SumType
<1>3. f[x] \in Int /\ g[x] \in Int /\ Total(f) = Sum(f)[D] /\ Total(g) = Sum(g)[D]
  BY TotalIsSum
<1>4. Sum(f)[D] = f[x] + Sum(f)[D \ {x}] /\ Sum(g)[D] = g[x] + Sum(g)[D \ {x}]
  BY <1>1
<1> QED BY <1>2, <1>3, <1>4

\* Nothing adds up to nothing.
LEMMA TotalZero ==
    ASSUME NEW D, IsFiniteSet(D), NEW f \in [D -> Int], \A x \in D : f[x] = 0
    PROVE  Total(f) = 0
<1> DEFINE T == {s \in SUBSET D : Sum(f)[s] = 0}
<1>1. ASSUME NEW s \in SUBSET D, \A x \in s : s \ {x} \in T PROVE s \in T
  <2>1. CASE s = {}
    BY <2>1, SumEquation
  <2>2. CASE s # {}
    <3>1. PICK x : x \in s
      BY <2>2
    <3>2. Sum(f)[s] = f[x] + Sum(f)[s \ {x}] /\ Sum(f)[s \ {x}] = 0 /\ f[x] = 0
      BY <1>1, <3>1, SumTake
    <3> QED BY <3>2
  <2> QED BY <2>1, <2>2
<1>2. SUBSET D \subseteq T
  <2> HIDE DEF T
  <2> QED BY <1>1, SubsetInduction
<1> QED BY <1>2, TotalIsSum

--------------------------------------------------------------------------------
\* Sequences

\* A sequence is a function on a finite interval.
LEMMA SeqIsFunction ==
    ASSUME NEW s \in Seq(Int)
    PROVE  s \in [1..Len(s) -> Int] /\ IsFiniteSet(1..Len(s)) /\ Len(s) \in Nat
BY FS_Interval

\* A sum over an interval, without its last or its first number.
LEMMA IntervalTake ==
    ASSUME NEW s \in Seq(Int), NEW m \in Int, NEW n \in Int, 1 <= m, m <= n, n <= Len(s)
    PROVE  /\ Sum(s)[m..n] = s[n] + Sum(s)[m..n - 1]
           /\ Sum(s)[m..n] = s[m] + Sum(s)[m + 1..n]
           /\ Sum(s)[m + 1..n] \in Int /\ s[m] \in Int
<1>1. PICK D : D = 1..Len(s)
  OBVIOUS
<1>2. s \in [D -> Int] /\ IsFiniteSet(D) /\ Len(s) \in Nat
  BY <1>1, SeqIsFunction
<1>3. PICK r : r = m..n
  OBVIOUS
<1>4. /\ r \in SUBSET D /\ m \in r /\ n \in r /\ r \ {n} = m..n - 1 /\ r \ {m} = m + 1..n
      /\ m + 1..n \in SUBSET D /\ m \in D
  BY <1>1, <1>2, <1>3
<1>8. r \in SUBSET D
  BY <1>4
<1>9. ASSUME NEW x \in r PROVE Sum(s)[r] = s[x] + Sum(s)[r \ {x}]
  <2>1. IsFiniteSet(D) /\ s \in [D -> Int]
    BY <1>2
  <2> QED BY <2>1, <1>8, SumTake
<1>5. Sum(s)[r] = s[n] + Sum(s)[r \ {n}]
  BY <1>4, <1>9
<1>6. Sum(s)[r] = s[m] + Sum(s)[r \ {m}]
  BY <1>4, <1>9
<1>7. Sum(s)[m + 1..n] \in Int
  BY <1>2, <1>4, SumType
<1> QED BY <1>2, <1>3, <1>4, <1>5, <1>6, <1>7

\* The empty sequence.
LEMMA TotalEmpty == Total(<<>>) = 0
BY FS_EmptySet, SumEquation, TotalIsSum

\* One element more at the end.
LEMMA TotalAppend ==
    ASSUME NEW s \in Seq(Int), NEW x \in Int PROVE Total(Append(s, x)) = Total(s) + x
<1> DEFINE n == Len(s)
           t == Append(s, x)
<1>1. n \in Nat /\ t \in Seq(Int) /\ Len(t) = n + 1 /\ t[n + 1] = x
      /\ \A k \in 1..n : t[k] = s[k]
  OBVIOUS
<1> HIDE DEF t
<1>2. PICK D, E : D = 1..n /\ E = 1..n + 1
  OBVIOUS
<1>3. s \in [D -> Int] /\ IsFiniteSet(D) /\ t \in [E -> Int] /\ IsFiniteSet(E)
  BY <1>1, <1>2, SeqIsFunction
<1>4. D \in SUBSET D /\ D \subseteq E /\ \A k \in D : s[k] = t[k]
  BY <1>1, <1>2
<1>5. Sum(t)[D] = Sum(s)[D] /\ Sum(s)[D] \in Int
  BY <1>3, <1>4, SumAgree, SumType
<1>6. Sum(t)[1..n + 1] = t[n + 1] + Sum(t)[1..n + 1 - 1]
  BY <1>1, IntervalTake
<1>7. n + 1 - 1 = n
  BY <1>1
<1>8. Total(t) = Sum(t)[E] /\ Total(s) = Sum(s)[D]
  BY <1>3, TotalIsSum
<1> QED BY <1>1, <1>2, <1>5, <1>6, <1>7, <1>8 DEF t

\* One element less at the beginning.
LEMMA TotalTail ==
    ASSUME NEW s \in Seq(Int), s # <<>> PROVE Total(Tail(s)) = Total(s) - s[1]
<1> DEFINE n == Len(s)
           t == Tail(s)
           Bad == {k \in 0..n - 1 : Sum(t)[1..k] # Sum(s)[2..k + 1]}
<1>1. n \in Nat \ {0} /\ t \in Seq(Int) /\ Len(t) = n - 1
      /\ \A k \in 1..n - 1 : t[k] = s[k + 1]
  OBVIOUS
<1> HIDE DEF t
<1>2. PICK D, E : D = 1..n /\ E = 1..n - 1
  OBVIOUS
<1>0. s \in [D -> Int] /\ IsFiniteSet(D) /\ t \in [E -> Int] /\ IsFiniteSet(E)
  BY <1>1, <1>2, SeqIsFunction
<1>3. Bad = {}
  <2> SUFFICES ASSUME Bad # {} PROVE FALSE
    OBVIOUS
  <2>1. PICK m \in Bad : \A k \in Bad : m <= k
    <3>1. Bad \in SUBSET Nat
      BY <1>1
    <3> HIDE DEF Bad
    <3> QED BY <3>1, LeastNumber
  <2>2. m \in 0..n - 1
    OBVIOUS
  <2>3. CASE m = 0
    <3>1. 1..m = {} /\ 2..m + 1 = {}
      BY <2>3
    <3>2. Sum(t)[{}] = 0 /\ Sum(s)[{}] = 0
      BY <1>0, SumEquation
    <3> QED BY <3>1, <3>2
  <2>4. CASE m # 0
    <3>1. m \in Int /\ 1 <= m /\ m <= n - 1 /\ m + 1 \in Int /\ m + 1 - 1 = m
          /\ m - 1 \in 0..n - 1 /\ m - 1 + 1 = m /\ ~(m <= m - 1) /\ 2 <= m + 1
          /\ m + 1 <= n /\ 2 \in Int /\ 1 \in Int /\ 1 <= 1 /\ 1 <= 2
      BY <1>1, <2>2, <2>4
    <3>2. Sum(t)[1..m] = t[m] + Sum(t)[1..m - 1]
      BY <1>1, <3>1, IntervalTake
    <3>3. Sum(s)[2..m + 1] = s[m + 1] + Sum(s)[2..m + 1 - 1]
      <4>1. PICK k \in Int : k = m + 1
        BY <3>1
      <4>2. 2 \in Int /\ 1 <= 2 /\ 2 <= k /\ k <= Len(s)
        BY <3>1, <4>1
      <4>3. Sum(s)[2..k] = s[k] + Sum(s)[2..k - 1]
        <5> HIDE DEF n, Bad
        <5> QED BY <4>2, IntervalTake
      <4> QED BY <4>1, <4>3
    <3>4. Sum(t)[1..m - 1] = Sum(s)[2..m - 1 + 1]
      <4>1. m - 1 \notin Bad
        <5> HIDE DEF Bad
        <5> QED BY <2>1, <3>1
      <4> QED BY <3>1, <4>1
    <3>5. t[m] = s[m + 1]
      BY <1>1, <2>2, <2>4
    <3> QED BY <3>1, <3>2, <3>3, <3>4, <3>5
  <2> QED BY <2>3, <2>4
<1>4. Sum(t)[1..n - 1] = Sum(s)[2..n]
  <2>1. n - 1 \in 0..n - 1 /\ n - 1 + 1 = n
    BY <1>1
  <2> QED BY <1>3, <2>1
<1>5. /\ Sum(s)[1..n] = s[1] + Sum(s)[1 + 1..n]
      /\ Sum(s)[1 + 1..n] \in Int /\ s[1] \in Int
  <2>1. 1 \in Int /\ n \in Int /\ 1 <= 1 /\ 1 <= n /\ n <= Len(s)
    BY <1>1
  <2> QED BY <2>1, IntervalTake
<1>6. Total(t) = Sum(t)[E] /\ Total(s) = Sum(s)[D]
  BY <1>0, TotalIsSum
<1>7. 1 + 1 = 2
  OBVIOUS
<1> HIDE DEF Bad, n
<1> QED BY <1>2, <1>4, <1>5, <1>6, <1>7 DEF t

\* Numbers that are not negative have a total that is not negative.
LEMMA TotalNatural == ASSUME NEW s \in Seq(Nat) PROVE Total(s) \in Nat
<1>1. PICK D : D = 1..Len(s)
  OBVIOUS
<1>2. s \in [D -> Nat] /\ IsFiniteSet(D)
  BY <1>1, FS_Interval
<1>3. Total(s) = Sum(s)[D] /\ D \in SUBSET D
  BY <1>2, TotalIsSum
<1> QED BY <1>2, <1>3, SumNatural
=================================================================================
