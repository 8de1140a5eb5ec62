------------------------------ MODULE FiniteFacts ------------------------------
(***************************************************************************)
(* Facts about numbers, finite sets, orders and sums that the proofs of    *)
(* several components need.  The induction theorems of the library take an *)
(* operator as a parameter; Induction takes a set, and rests on Least,     *)
(* which is the well-foundedness of the finite sets under inclusion,       *)
(* applied to the sets 1..n.                                               *)
(***************************************************************************)
EXTENDS Integers, FiniteSetsExt, FiniteSetTheorems, WellFoundedInduction, TLAPS

----------------------------------------------------------------------------
\* Least elements, and induction over a set of naturals.

LEMMA Least ==
    ASSUME NEW S, S \subseteq Nat, S # {}
    PROVE  \E m \in S : \A n \in S : m <= n
<1> DEFINE R        == StrictSubsetOrdering(Nat)
           segments == {1..n : n \in S}
<1>1. IsWellFoundedOn(R, FiniteSubsetsOf(Nat))
  BY FS_StrictSubsetOrderingWellFounded
<1>2. segments \subseteq FiniteSubsetsOf(Nat) /\ segments # {}
  <2> SUFFICES ASSUME NEW n \in S PROVE 1..n \in FiniteSubsetsOf(Nat)
    OBVIOUS
  <2>1. 1 \in Int /\ n \in Int
    OBVIOUS
  <2>2. IsFiniteSet(1..n)
    BY <2>1, FS_Interval
  <2> QED BY <2>2 DEF FiniteSubsetsOf
<1> HIDE DEF R, segments
<1>3. PICK T \in segments : \A U \in segments : ~(<<U, T>> \in R)
  BY <1>1, <1>2, WFMin
<1>4. PICK m \in S : T = 1..m
  BY <1>3 DEF segments
<1>5. ASSUME NEW n \in S, ~(m <= n) PROVE FALSE
  <2>1. 1..n \subseteq 1..m /\ m \in 1..m /\ m \notin 1..n /\ 1..n \subseteq Nat /\ 1..m \subseteq Nat
    BY <1>5
  <2>2. 1..n # 1..m
    BY <2>1
  <2>3. <<1..n, 1..m>> \in R
    BY <2>1, <2>2 DEF R, StrictSubsetOrdering
  <2> QED BY <1>3, <1>4, <2>3 DEF segments
<1> QED BY <1>5

LEMMA Induction ==
    ASSUME NEW S, 0 \in S, \A n \in Nat : n \in S => n + 1 \in S
    PROVE  Nat \subseteq S
<1> SUFFICES ASSUME Nat \ S # {} PROVE FALSE
  OBVIOUS
<1>1. PICK m \in Nat \ S : \A n \in Nat \ S : m <= n
  BY Least
<1>2. m # 0 /\ m - 1 \in Nat /\ ~(m <= m - 1)
  BY <1>1
<1>3. m - 1 \in S
  BY <1>1, <1>2
<1>4. (m - 1) + 1 \in S
  BY <1>2, <1>3
<1> QED BY <1>1, <1>4

LEMMA MinOfSet ==
    ASSUME NEW S, S \subseteq Nat, S # {} PROVE Min(S) \in S /\ \A n \in S : Min(S) <= n
BY Least DEF Min

----------------------------------------------------------------------------
\* A strict total order of a finite set, as a set of pairs, and the rank of an
\* element in it: how many precede it.

StrictOrder(R, S) ==
    /\ \A d, e \in S : d = e \/ <<d, e>> \in R \/ <<e, d>> \in R
    /\ \A d \in S : <<d, d>> \notin R
    /\ \A c, d, e \in S : <<c, d>> \in R /\ <<d, e>> \in R => <<c, e>> \in R

Below(R, S, e) == {d \in S : <<d, e>> \in R}

\* f lists S in the order of R.
Lists(f, R, S) ==
    /\ f \in [1..Cardinality(S) -> S]
    /\ \A i \in 1..Cardinality(S) : Cardinality(Below(R, S, f[i])) = i - 1

LEMMA BelowIsFinite ==
    ASSUME NEW S, IsFiniteSet(S), NEW R, NEW e
    PROVE  IsFiniteSet(Below(R, S, e)) /\ Cardinality(Below(R, S, e)) \in Nat
<1>1. Below(R, S, e) \in SUBSET S
  BY DEF Below
<1> QED BY <1>1, FS_Subset, FS_CardinalityType

LEMMA RanksIncrease ==
    ASSUME NEW S, IsFiniteSet(S), NEW R, StrictOrder(R, S), NEW d \in S, NEW e \in S
    PROVE  <<d, e>> \in R <=> Cardinality(Below(R, S, d)) < Cardinality(Below(R, S, e))
<1>1. ASSUME NEW a \in S, NEW b \in S, <<a, b>> \in R
      PROVE  Cardinality(Below(R, S, a)) < Cardinality(Below(R, S, b))
  <2>1. Below(R, S, a) \in SUBSET Below(R, S, b)
    BY <1>1 DEF Below, StrictOrder
  <2>2. a \in Below(R, S, b) /\ a \notin Below(R, S, a)
    BY <1>1 DEF Below, StrictOrder
  <2>3. Below(R, S, a) # Below(R, S, b)
    BY <2>2
  <2>4. IsFiniteSet(Below(R, S, b)) /\ Cardinality(Below(R, S, b)) \in Nat
    BY BelowIsFinite
  <2>5. Cardinality(Below(R, S, a)) \in Nat
    BY BelowIsFinite
  <2>6. /\ Cardinality(Below(R, S, a)) <= Cardinality(Below(R, S, b))
        /\ Cardinality(Below(R, S, b)) = Cardinality(Below(R, S, a)) => Below(R, S, b) = Below(R, S, a)
    BY <2>1, <2>4, FS_Subset
  <2> QED BY <2>3, <2>4, <2>5, <2>6
<1>2. Cardinality(Below(R, S, d)) \in Nat /\ Cardinality(Below(R, S, e)) \in Nat
  BY BelowIsFinite
<1>3. d = e \/ <<d, e>> \in R \/ <<e, d>> \in R
  BY DEF StrictOrder
<1>4. CASE d = e
  BY <1>2, <1>4 DEF StrictOrder
<1>5. CASE <<d, e>> \in R
  BY <1>1, <1>5
<1>6. CASE <<e, d>> \in R
  <2>1. Cardinality(Below(R, S, e)) < Cardinality(Below(R, S, d))
    BY <1>1, <1>6
  <2>2. <<d, e>> \notin R
    BY <1>6 DEF StrictOrder
  <2> QED BY <1>2, <2>1, <2>2
<1> QED BY <1>3, <1>4, <1>5, <1>6

\* Different elements have different ranks.
LEMMA RanksDiffer ==
    ASSUME NEW S, IsFiniteSet(S), NEW R, StrictOrder(R, S), NEW d \in S, NEW e \in S,
           Cardinality(Below(R, S, d)) = Cardinality(Below(R, S, e))
    PROVE  d = e
<1>1. Cardinality(Below(R, S, d)) \in Nat
  BY BelowIsFinite
<1>2. <<d, e>> \notin R /\ <<e, d>> \notin R
  BY <1>1, RanksIncrease
<1> QED BY <1>2 DEF StrictOrder

\* Every rank is taken: the ranks are as many numbers as there are elements.
LEMMA RanksAreTaken ==
    ASSUME NEW S, IsFiniteSet(S), NEW R, StrictOrder(R, S), NEW i \in 1..Cardinality(S)
    PROVE  \E e \in S : Cardinality(Below(R, S, e)) = i - 1
<1> DEFINE n    == Cardinality(S)
           rank == [e \in S |-> Cardinality(Below(R, S, e)) + 1]
<1>1. n \in Nat
  BY FS_CardinalityType
<1>2. ASSUME NEW e \in S PROVE rank[e] \in 1..n
  <2>1. Below(R, S, e) \in SUBSET S /\ e \notin Below(R, S, e)
    BY DEF Below, StrictOrder
  <2>2. Cardinality(Below(R, S, e)) <= n /\ Cardinality(Below(R, S, e)) # n
    BY <2>1, FS_Subset
  <2>3. Cardinality(Below(R, S, e)) \in Nat
    BY BelowIsFinite
  <2> QED BY <1>1, <2>2, <2>3
<1>3. \A d, e \in S : rank[d] = rank[e] => d = e
  <2> TAKE d, e \in S
  <2>1. Cardinality(Below(R, S, d)) \in Nat /\ Cardinality(Below(R, S, e)) \in Nat
    BY BelowIsFinite
  <2>2. rank[d] = rank[e] => Cardinality(Below(R, S, d)) = Cardinality(Below(R, S, e))
    BY <2>1
  <2> QED BY <2>2, RanksDiffer
<1>4. rank \in [S -> 1..n]
  BY <1>2
<1> HIDE DEF rank
<1>5. rank \in Injection(S, 1..n)
  BY <1>3, <1>4 DEF Injection, IsInjective
<1>6. IsFiniteSet(1..n) /\ Cardinality(1..n) = n
  <2>1. 1 \in Int /\ n \in Int
    BY <1>1
  <2>2. IsFiniteSet(1..n) /\ Cardinality(1..n) = IF 1 > n THEN 0 ELSE n - 1 + 1
    BY ONLY <2>1, FS_Interval
  <2> QED BY <1>1, <2>2
<1>7. rank \in Surjection(S, 1..n)
  BY <1>5, <1>6, FS_Injection
<1>8. PICK e \in S : rank[e] = i
  BY <1>7 DEF Surjection
<1>9. Cardinality(Below(R, S, e)) \in Nat
  BY BelowIsFinite
<1> QED BY <1>8, <1>9 DEF rank

\* There is one way to list a set.
LEMMA OneList ==
    ASSUME NEW S, IsFiniteSet(S), NEW R, StrictOrder(R, S), NEW f, NEW g, Lists(f, R, S), Lists(g, R, S)
    PROVE  f = g
<1>1. \A i \in 1..Cardinality(S) : f[i] \in S /\ g[i] \in S
  BY DEF Lists
<1>2. \A i \in 1..Cardinality(S) : Cardinality(Below(R, S, f[i])) = Cardinality(Below(R, S, g[i]))
  BY DEF Lists
<1>3. \A i \in 1..Cardinality(S) : f[i] = g[i]
  BY <1>1, <1>2, RanksDiffer
<1>4. f = [i \in 1..Cardinality(S) |-> f[i]] /\ g = [i \in 1..Cardinality(S) |-> g[i]]
  BY DEF Lists
<1> QED BY <1>3, <1>4

\* A list increases, and misses no element.
LEMMA ListIsWhole ==
    ASSUME NEW S, IsFiniteSet(S), NEW R, StrictOrder(R, S), NEW f, Lists(f, R, S)
    PROVE  /\ Cardinality(S) \in Nat
           /\ f \in [1..Cardinality(S) -> S]
           /\ \A i, j \in 1..Cardinality(S) : <<f[i], f[j]>> \in R <=> i < j
           /\ \A e \in S : \E i \in 1..Cardinality(S) : f[i] = e
<1>1. Cardinality(S) \in Nat
  BY FS_CardinalityType
<1>2. f \in [1..Cardinality(S) -> S]
  BY DEF Lists
<1>3. \A i, j \in 1..Cardinality(S) : <<f[i], f[j]>> \in R <=> i < j
  <2> TAKE i, j \in 1..Cardinality(S)
  <2>1. f[i] \in S /\ f[j] \in S
    BY <1>2
  <2>2. Cardinality(Below(R, S, f[i])) = i - 1 /\ Cardinality(Below(R, S, f[j])) = j - 1
    BY DEF Lists
  <2>3. <<f[i], f[j]>> \in R <=> Cardinality(Below(R, S, f[i])) < Cardinality(Below(R, S, f[j]))
    BY <2>1, RanksIncrease
  <2> QED BY <1>1, <2>2, <2>3
<1>4. ASSUME NEW e \in S PROVE \E i \in 1..Cardinality(S) : f[i] = e
  <2> DEFINE i == Cardinality(Below(R, S, e)) + 1
  <2>1. Below(R, S, e) \in SUBSET S /\ e \notin Below(R, S, e)
    BY DEF Below, StrictOrder
  <2>2. Cardinality(Below(R, S, e)) <= Cardinality(S) /\ Cardinality(Below(R, S, e)) # Cardinality(S)
    BY <2>1, FS_Subset
  <2>3. Cardinality(Below(R, S, e)) \in Nat
    BY BelowIsFinite
  <2>4. i \in 1..Cardinality(S) /\ i - 1 = Cardinality(Below(R, S, e))
    BY <1>1, <2>2, <2>3
  <2> HIDE DEF i
  <2>5. f[i] \in S /\ Cardinality(Below(R, S, f[i])) = Cardinality(Below(R, S, e))
    BY <2>4 DEF Lists
  <2> QED BY <2>4, <2>5, RanksDiffer
<1> QED BY <1>1, <1>2, <1>3, <1>4

\* What increases and misses no element is a list.
LEMMA IncreasingLists ==
    ASSUME NEW S, IsFiniteSet(S), NEW R, StrictOrder(R, S), NEW n \in Nat, NEW f \in [1..n -> S],
           \A i, j \in 1..n : i < j => <<f[i], f[j]>> \in R,
           \A e \in S : \E i \in 1..n : f[i] = e
    PROVE  Cardinality(S) = n /\ Lists(f, R, S)
<1>1. \A i, j \in 1..n : f[i] = f[j] => i = j
  <2> SUFFICES ASSUME NEW i \in 1..n, NEW j \in 1..n, f[i] = f[j], i # j PROVE FALSE
    OBVIOUS
  <2>1. i < j \/ j < i
    OBVIOUS
  <2>2. f[i] \in S /\ <<f[i], f[i]>> \in R
    BY <2>1
  <2> QED BY <2>2 DEF StrictOrder
<1>2. f \in Bijection(1..n, S)
  BY <1>1 DEF Bijection, Injection, IsInjective, Surjection
<1>3. Cardinality(S) = n
  BY <1>2, FS_CountingElements DEF ExistsBijection
<1>4. ASSUME NEW i \in 1..n PROVE Cardinality(Below(R, S, f[i])) = i - 1
  <2> DEFINE g == [j \in 1..(i - 1) |-> f[j]]
  <2>1. 1..(i - 1) \subseteq 1..n /\ \A j \in 1..n : j < i <=> j \in 1..(i - 1)
    OBVIOUS
  <2>2. \A j \in 1..n : f[j] \in S /\ (<<f[j], f[i]>> \in R <=> j < i)
    <3> TAKE j \in 1..n
    <3>1. CASE j < i
      BY <3>1
    <3>2. CASE i < j
      <4>1. <<f[i], f[j]>> \in R
        BY <3>2
      <4>2. <<f[j], f[i]>> \notin R
        BY <4>1 DEF StrictOrder
      <4> QED BY <3>2, <4>2
    <3>3. CASE i = j
      BY <3>3 DEF StrictOrder
    <3> QED BY <3>1, <3>2, <3>3
  <2>3. Below(R, S, f[i]) = {f[j] : j \in 1..(i - 1)}
    <3>1. ASSUME NEW e \in Below(R, S, f[i]) PROVE e \in {f[j] : j \in 1..(i - 1)}
      <4>1. e \in S /\ <<e, f[i]>> \in R
        BY DEF Below
      <4>2. PICK j \in 1..n : f[j] = e
        BY <4>1
      <4>3. j < i
        BY <2>2, <4>1, <4>2
      <4> QED BY <2>1, <4>2, <4>3
    <3>2. ASSUME NEW j \in 1..(i - 1) PROVE f[j] \in Below(R, S, f[i])
      BY <2>1, <2>2 DEF Below
    <3> QED BY <3>1, <3>2
  <2>4. g \in [1..(i - 1) -> Below(R, S, f[i])]
    BY <2>3
  <2>5. \A j, k \in 1..(i - 1) : g[j] = g[k] => j = k
    BY <1>1, <2>1
  <2>6. \A e \in Below(R, S, f[i]) : \E j \in 1..(i - 1) : g[j] = e
    BY <2>3
  <2> HIDE DEF g
  <2>7. g \in Bijection(1..(i - 1), Below(R, S, f[i]))
    BY <2>4, <2>5, <2>6 DEF Bijection, Injection, IsInjective, Surjection
  <2>8. i - 1 \in Nat /\ ExistsBijection(1..(i - 1), Below(R, S, f[i]))
    BY <2>7 DEF ExistsBijection
  <2> QED BY <2>8, FS_CountingElements
<1> QED BY <1>3, <1>4 DEF Lists
----------------------------------------------------------------------------
\* Sums over a finite set.  MapThenSumSet takes the elements as they are
\* chosen; its recursive function, for the weights w, is g.

Take(s) == CHOOSE x \in s : TRUE

AreSums(g, w, S) ==
    g = [s \in SUBSET S |-> IF s = {} THEN 0 ELSE w[Take(s)] + g[s \ {Take(s)}]]

LEMMA TakenAway ==
    ASSUME NEW S, IsFiniteSet(S), NEW s \in SUBSET S, NEW x \in s
    PROVE  /\ IsFiniteSet(s) /\ Cardinality(s) \in Nat \ {0}
           /\ s \ {x} \in SUBSET S /\ Cardinality(s \ {x}) = Cardinality(s) - 1
<1>1. IsFiniteSet(s)
  BY FS_Subset
<1>2. Cardinality(s \ {x}) = Cardinality(s) - 1
  BY <1>1, FS_RemoveElement
<1>3. Cardinality(s) \in Nat /\ Cardinality(s) # 0
  BY <1>1, FS_CardinalityType, FS_EmptySet
<1> QED BY <1>1, <1>2, <1>3

\* Every element is chosen last in some order, so the sum does not depend on
\* which is chosen.
Additive(g, w, S) ==
    /\ g \in [SUBSET S -> Nat]
    /\ g[{}] = 0
    /\ \A s \in SUBSET S : \A x \in s : g[s] = w[x] + g[s \ {x}]

LEMMA SumsExist ==
    ASSUME NEW S, IsFiniteSet(S), NEW w, \A x \in S : w[x] \in Nat
    PROVE  \E g : AreSums(g, w, S)
<1> DEFINE Upto(g, n) ==
             \A s \in SUBSET S : Cardinality(s) <= n =>
                g[s] = IF s = {} THEN 0 ELSE w[Take(s)] + g[s \ {Take(s)}]
           Known == {n \in Nat : \E g \in [SUBSET S -> Nat] : Upto(g, n)}
<1>1. \A s \in SUBSET S : Cardinality(s) \in Nat /\ (Cardinality(s) = 0 <=> s = {})
  BY FS_Subset, FS_CardinalityType, FS_EmptySet
<1>2. \A s \in SUBSET S : s # {} =>
         /\ Take(s) \in s /\ w[Take(s)] \in Nat
         /\ s \ {Take(s)} \in SUBSET S /\ Cardinality(s \ {Take(s)}) = Cardinality(s) - 1
  <2> SUFFICES ASSUME NEW s \in SUBSET S, s # {}
               PROVE  /\ Take(s) \in s /\ w[Take(s)] \in Nat
                      /\ s \ {Take(s)} \in SUBSET S /\ Cardinality(s \ {Take(s)}) = Cardinality(s) - 1
    OBVIOUS
  <2>1. Take(s) \in s
    BY DEF Take
  <2>2. w[Take(s)] \in Nat
    BY <2>1
  <2> QED BY <2>1, <2>2, TakenAway
<1>3. 0 \in Known
  <2> DEFINE zero == [s \in SUBSET S |-> 0]
  <2>1. zero \in [SUBSET S -> Nat]
    OBVIOUS
  <2>2. Upto(zero, 0)
    BY <1>1
  <2> HIDE DEF zero, Upto
  <2> QED BY <2>1, <2>2
<1>4. ASSUME NEW n \in Nat, n \in Known PROVE n + 1 \in Known
  <2>1. PICK g \in [SUBSET S -> Nat] : Upto(g, n)
    BY <1>4
  <2> DEFINE Value(s) == IF Cardinality(s) = n + 1 THEN w[Take(s)] + g[s \ {Take(s)}] ELSE g[s]
             h == [s \in SUBSET S |-> Value(s)]
  <2>2. \A s \in SUBSET S : Cardinality(s) = n + 1 => s # {}
    BY <1>1
  <2>3. \A s \in SUBSET S : Value(s) \in Nat
    <3> SUFFICES ASSUME NEW s \in SUBSET S PROVE Value(s) \in Nat
      OBVIOUS
    <3>1. CASE Cardinality(s) = n + 1
      <4>1. w[Take(s)] \in Nat /\ g[s \ {Take(s)}] \in Nat
        BY <1>2, <2>2, <3>1
      <4> QED BY <4>1, <3>1
    <3>2. CASE Cardinality(s) # n + 1
      BY <3>2
    <3> QED BY <3>1, <3>2
  <2>4. h \in [SUBSET S -> Nat] /\ \A s \in SUBSET S : h[s] = Value(s)
    BY <2>3
  <2> HIDE DEF h
  <2>5. ASSUME NEW s \in SUBSET S, Cardinality(s) <= n + 1
        PROVE  h[s] = IF s = {} THEN 0 ELSE w[Take(s)] + h[s \ {Take(s)}]
    <3>1. CASE s = {}
      <4>1. Cardinality(s) = 0
        BY <1>1, <3>1
      <4>2. Cardinality(s) # n + 1
        BY <4>1
      <4>3. h[s] = g[s]
        BY <2>4, <4>2
      <4>4. g[s] = 0
        BY <2>1, <3>1, <4>1
      <4> QED BY <3>1, <4>3, <4>4
    <3>2. CASE s # {}
      <4> DEFINE r == s \ {Take(s)}
      <4>1. r \in SUBSET S /\ Cardinality(r) = Cardinality(s) - 1
        BY <1>2, <3>2
      <4>2. Cardinality(r) \in Nat /\ Cardinality(r) # n + 1 /\ Cardinality(s) \in Nat
        BY <1>1, <2>5, <4>1
      <4> HIDE DEF r
      <4>3. h[r] = g[r]
        BY <2>4, <4>1, <4>2
      <4>4. h[s] = w[Take(s)] + g[r]
        <5>1. CASE Cardinality(s) = n + 1
          BY <2>4, <5>1 DEF r
        <5>2. CASE Cardinality(s) # n + 1
          <6>1. Cardinality(s) <= n
            BY <2>5, <4>2, <5>2
          <6>2. g[s] = w[Take(s)] + g[r]
            BY <2>1, <3>2, <6>1 DEF r
          <6> QED BY <2>4, <5>2, <6>2
        <5> QED BY <5>1, <5>2
      <4> QED BY <3>2, <4>3, <4>4 DEF r
    <3> QED BY <3>1, <3>2
  <2>6. Upto(h, n + 1)
    BY <2>5
  <2> HIDE DEF Upto
  <2> QED BY <2>4, <2>6
<1>5. Cardinality(S) \in Known
  <2> HIDE DEF Known
  <2>1. Cardinality(S) \in Nat
    BY <1>1
  <2> QED BY <1>3, <1>4, <2>1, Induction
<1>6. PICK g \in [SUBSET S -> Nat] : Upto(g, Cardinality(S))
  BY <1>5
<1>7. \A s \in SUBSET S : Cardinality(s) <= Cardinality(S)
  BY FS_Subset
<1>8. \A s \in SUBSET S : g[s] = IF s = {} THEN 0 ELSE w[Take(s)] + g[s \ {Take(s)}]
  BY <1>6, <1>7
<1>9. g = [s \in SUBSET S |-> g[s]]
  OBVIOUS
<1> QED BY <1>8, <1>9 DEF AreSums

LEMMA SumsAdd ==
    ASSUME NEW S, IsFiniteSet(S), NEW w, \A x \in S : w[x] \in Nat, NEW g, AreSums(g, w, S)
    PROVE  Additive(g, w, S)
<1> DEFINE Good(s) == /\ g[s] \in Nat
                      /\ \A x \in s : g[s] = w[x] + g[s \ {x}]
           Known == {n \in Nat : \A s \in SUBSET S : Cardinality(s) <= n => Good(s)}
<1>1. \A s \in SUBSET S : Cardinality(s) \in Nat /\ (Cardinality(s) = 0 <=> s = {})
  BY FS_Subset, FS_CardinalityType, FS_EmptySet
<1>2. \A s \in SUBSET S : g[s] = IF s = {} THEN 0 ELSE w[Take(s)] + g[s \ {Take(s)}]
  BY DEF AreSums
<1>3. 0 \in Known
  <2> SUFFICES ASSUME NEW s \in SUBSET S, Cardinality(s) <= 0 PROVE Good(s)
    OBVIOUS
  <2>1. s = {} /\ g[s] = 0
    BY <1>1, <1>2
  <2> QED BY <2>1
<1>4. ASSUME NEW n \in Nat, n \in Known PROVE n + 1 \in Known
  <2> SUFFICES ASSUME NEW s \in SUBSET S, Cardinality(s) <= n + 1, s # {} PROVE Good(s)
    <3>1. ASSUME NEW s \in SUBSET S, s = {} PROVE Good(s)
      BY <1>2, <3>1
    <3> HIDE DEF Good
    <3> QED BY <3>1
  <2>1. s # {}
    OBVIOUS
  <2>2. PICK x \in s : x = Take(s)
    BY <2>1 DEF Take
  <2>3. x \in S /\ w[x] \in Nat
    OBVIOUS
  <2>4. g[s] = w[x] + g[s \ {x}]
    BY <1>2, <2>1, <2>2
  <2>5. \A y \in s : s \ {y} \in SUBSET S /\ Cardinality(s \ {y}) \in Nat /\ Cardinality(s \ {y}) <= n
    <3> SUFFICES ASSUME NEW y \in s
                 PROVE  s \ {y} \in SUBSET S /\ Cardinality(s \ {y}) \in Nat /\ Cardinality(s \ {y}) <= n
      OBVIOUS
    <3>1. Cardinality(s \ {y}) = Cardinality(s) - 1 /\ Cardinality(s) \in Nat
      BY TakenAway
    <3> QED BY <1>1, <3>1
  <2>6. \A y \in s : Good(s \ {y})
    BY <1>4, <2>5
  <2>7. ASSUME NEW y \in s PROVE g[s] = w[y] + g[s \ {y}]
    <3>1. CASE y = x
      BY <2>4, <3>1
    <3>2. CASE y # x
      <4> DEFINE r == (s \ {x}) \ {y}
      <4>1. y \in s \ {x} /\ x \in s \ {y} /\ r = (s \ {y}) \ {x} /\ w[y] \in Nat
        BY <3>2
      <4>2. g[s \ {x}] = w[y] + g[r]
        BY <2>6, <4>1
      <4>3. g[s \ {y}] = w[x] + g[r]
        <5>1. g[s \ {y}] = w[x] + g[(s \ {y}) \ {x}]
          BY <2>6, <4>1
        <5> HIDE DEF r
        <5> QED BY <5>1, <4>1
      <4>4. Cardinality(r) <= n
        <5>1. s \ {x} \in SUBSET S /\ y \in s \ {x}
          BY <4>1
        <5>2. Cardinality((s \ {x}) \ {y}) = Cardinality(s \ {x}) - 1
          BY <5>1, TakenAway
        <5> QED BY <2>5, <5>2
      <4>5. g[r] \in Nat
        <5>1. r \in SUBSET S
          OBVIOUS
        <5> HIDE DEF r
        <5> QED BY <1>4, <4>4, <5>1
      <4> HIDE DEF r
      <4> QED BY <2>3, <2>4, <4>1, <4>2, <4>3, <4>5
    <3> QED BY <3>1, <3>2
  <2>8. g[s] \in Nat
    BY <2>3, <2>4, <2>6
  <2> QED BY <2>7, <2>8
<1>5. Nat \subseteq Known
  <2> HIDE DEF Known
  <2> QED BY <1>3, <1>4, Induction
<1>6. \A s \in SUBSET S : Good(s)
  BY <1>1, <1>5
<1>7. g \in [SUBSET S -> Nat]
  <2>1. g = [s \in SUBSET S |-> g[s]]
    BY DEF AreSums
  <2> QED BY <1>6, <2>1
<1>8. g[{}] = 0
  BY <1>2
<1> QED BY <1>6, <1>7, <1>8 DEF Additive

\* What is summed over more elements is not less.
LEMMA SumsGrow ==
    ASSUME NEW S, IsFiniteSet(S), NEW w, \A x \in S : w[x] \in Nat, NEW g, Additive(g, w, S),
           NEW t \in SUBSET S, NEW s \in SUBSET t
    PROVE  g[s] <= g[t]
<1> DEFINE Known == {n \in Nat : \A u \in SUBSET S : Cardinality(u) = n => \A v \in SUBSET u : g[v] <= g[u]}
<1>1. \A u \in SUBSET S : Cardinality(u) \in Nat /\ (Cardinality(u) = 0 <=> u = {}) /\ g[u] \in Nat
  BY FS_Subset, FS_CardinalityType, FS_EmptySet DEF Additive
<1>2. 0 \in Known
  <2>1. ASSUME NEW u \in SUBSET S, Cardinality(u) = 0, NEW v \in SUBSET u PROVE g[v] <= g[u]
    <3>1. u = {} /\ v = u
      BY <1>1, <2>1
    <3> QED BY <1>1, <3>1
  <2> QED BY <2>1
<1>3. ASSUME NEW n \in Nat, n \in Known PROVE n + 1 \in Known
  <2> SUFFICES ASSUME NEW u \in SUBSET S, Cardinality(u) = n + 1, NEW v \in SUBSET u PROVE g[v] <= g[u]
    OBVIOUS
  <2>1. CASE v = u
    BY <1>1, <2>1
  <2>2. CASE v # u
    <3>1. PICK x \in u : x \notin v
      BY <2>2
    <3>2. u \ {x} \in SUBSET S /\ Cardinality(u \ {x}) = n /\ v \in SUBSET (u \ {x})
      BY <3>1, TakenAway
    <3>3. g[v] <= g[u \ {x}]
      BY <1>3, <3>2
    <3>4. g[u] = w[x] + g[u \ {x}] /\ w[x] \in Nat
      BY DEF Additive
    <3> QED BY <1>1, <3>2, <3>3, <3>4
  <2> QED BY <2>1, <2>2
<1>4. Nat \subseteq Known
  <2> HIDE DEF Known
  <2> QED BY <1>2, <1>3, Induction
<1> QED BY <1>1, <1>4

\* Sums over a subset, computed on their own, are the same.
LEMMA SumsAgree ==
    ASSUME NEW S, IsFiniteSet(S), NEW w, NEW v, NEW g, Additive(g, w, S),
           NEW T \in SUBSET S, NEW h, Additive(h, v, T), \A x \in T : w[x] = v[x]
    PROVE  g[T] = h[T]
<1> DEFINE Known == {n \in Nat : \A s \in SUBSET T : Cardinality(s) = n => g[s] = h[s]}
<1>1. \A s \in SUBSET T : Cardinality(s) \in Nat /\ (Cardinality(s) = 0 <=> s = {})
  BY FS_Subset, FS_CardinalityType, FS_EmptySet
<1>2. 0 \in Known
  BY <1>1 DEF Additive
<1>3. ASSUME NEW n \in Nat, n \in Known PROVE n + 1 \in Known
  <2> SUFFICES ASSUME NEW s \in SUBSET T, Cardinality(s) = n + 1 PROVE g[s] = h[s]
    OBVIOUS
  <2>1. PICK x \in s : TRUE
    BY <1>1
  <2>2. s \ {x} \in SUBSET T /\ s \in SUBSET S
    OBVIOUS
  <2>3. Cardinality(s \ {x}) = n
    BY <2>2, TakenAway
  <2>4. g[s \ {x}] = h[s \ {x}]
    BY <1>3, <2>2, <2>3
  <2>5. g[s] = w[x] + g[s \ {x}] /\ h[s] = v[x] + h[s \ {x}]
    BY <2>2 DEF Additive
  <2> QED BY <2>4, <2>5
<1>4. Nat \subseteq Known
  <2> HIDE DEF Known
  <2> QED BY <1>2, <1>3, Induction
<1> QED BY <1>1, <1>4
=============================================================================
