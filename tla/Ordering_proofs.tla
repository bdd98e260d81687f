--------------------------- MODULE Ordering_proofs ---------------------------
(***************************************************************************)
(* What the other proofs need of sets of numbers: a least member, and that *)
(* Ascending lists every member of a finite set once.  The argument by     *)
(* induction is the well-foundedness of the subsets of a finite set: a     *)
(* minimal set without the property is led to a contradiction.             *)
(***************************************************************************)
EXTENDS Ordering, Sequences, TLAPS, FiniteSetTheorems, FunctionTheorems, NaturalsInduction, WellFoundedInduction

-----------------------------------------------------------------------------
(* Finite sets of numbers.                                                 *)

Minimal(X, C) == X \in C /\ \A Y \in C : Y \subseteq X => Y = X

\* A non-empty collection of subsets of a finite set has a minimal member.
LEMMA LeastSubset ==
  ASSUME NEW S, IsFiniteSet(S), NEW C \in SUBSET (SUBSET S), C # {}
  PROVE  \E X : Minimal(X, C)
<1>1. IsWellFoundedOn(StrictSubsetOrdering(S), SUBSET S)
  BY FS_StrictSubsetOrderingWellFounded, FS_FiniteSubsetsOfFinite
<1>2. PICK X \in C : \A Y \in C : ~(<<Y, X>> \in StrictSubsetOrdering(S))
  <2> HIDE DEF StrictSubsetOrdering
  <2> QED
    BY <1>1, WFMin, Zenon
<1>3. QED
  BY <1>2 DEF StrictSubsetOrdering, Minimal

\* A set of natural numbers has a least one.
LEMMA LeastNumber ==
  ASSUME NEW M, M \subseteq Nat, M # {}
  PROVE  \E n \in M : \A m \in M : n <= m
<1>1. IsWellFoundedOn(OpToRel(<, Nat), Nat)
  BY NatLessThanWellFounded
<1>2. PICK n \in M : \A m \in M : ~ (<<m, n>> \in OpToRel(<, Nat))
  BY <1>1, WFMin
<1>3. \A m \in M : ~ (m < n)
  <2> SUFFICES ASSUME NEW m \in M, m < n PROVE FALSE
    OBVIOUS
  <2>1. <<m, n>> \in Nat \X Nat /\ <<m, n>>[1] < <<m, n>>[2]
    OBVIOUS
  <2>2. <<m, n>> \in OpToRel(<, Nat)
    BY <2>1, Zenon DEF OpToRel
  <2>3. QED
    BY <1>2, <2>2
<1>4. QED
  BY <1>3

\* s lists S in ascending order.
Rising(s, S) ==
  /\ s \in [1 .. Cardinality(S) -> S]
  /\ \A i, j \in 1 .. Cardinality(S) : i < j => s[i] < s[j]

LEMMA HasRising ==
  ASSUME NEW S \in SUBSET Nat, IsFiniteSet(S)
  PROVE  \E s : Rising(s, S)
<1> DEFINE C == {X \in SUBSET S : ~\E s : Rising(s, X)}
<1> SUFFICES ASSUME C # {} PROVE FALSE
  <2>1. ASSUME ~\E s : Rising(s, S) PROVE S \in C
    BY <2>1, Zenon
  <2>2. S \in C => C # {}
    OBVIOUS
  <2> HIDE DEF C
  <2>3. QED
    BY <2>1, <2>2
<1>1. PICK X \in C : \A Y \in C : Y \subseteq X => Y = X
  <2>1. C \in SUBSET (SUBSET S)
    OBVIOUS
  <2> HIDE DEF C
  <2>2. PICK X : Minimal(X, C)
    BY <2>1, LeastSubset
  <2>3. QED
    BY <2>2 DEF Minimal
<1>2. X \in SUBSET Nat /\ IsFiniteSet(X)
  BY FS_Subset
<1>3. CASE X = {}
  <2>1. Cardinality(X) = 0
    BY <1>3, FS_EmptySet
  <2>2. Rising([i \in 1 .. 0 |-> 0], X)
    BY <1>3, <2>1 DEF Rising
  <2>3. QED
    BY <2>2
<1>4. CASE X # {}
  <2>1. PICK m \in X : \A n \in X : m <= n
    BY <1>2, <1>4, LeastNumber
  <2> DEFINE Y == X \ {m}
             k == Cardinality(Y)
  <2>2. IsFiniteSet(Y) /\ k \in Nat /\ Cardinality(X) = k + 1
    <3>1. IsFiniteSet(Y) /\ Cardinality(Y) = Cardinality(X) - 1
      BY <1>2, FS_RemoveElement
    <3>2. Cardinality(X) \in Nat /\ Cardinality(Y) \in Nat
      BY <1>2, <3>1, FS_CardinalityType
    <3>3. QED
      BY <3>1, <3>2
  <2>3. PICK s : Rising(s, Y)
    <3>1. Y \notin C
      BY <1>1
    <3>2. QED
      BY <3>1
  <2> DEFINE r == [i \in 1 .. k + 1 |-> IF i = 1 THEN m ELSE s[i - 1]]
  <2>4. \A i \in 1 .. k : s[i] \in Y /\ m < s[i]
    <3>1. \A i \in 1 .. k : s[i] \in Y
      BY <2>3 DEF Rising
    <3>2. \A y \in Y : m < y
      BY <1>2, <2>1
    <3>3. QED
      BY <3>1, <3>2
  <2>5. \A i, j \in 1 .. k : i < j => s[i] < s[j]
    BY <2>3 DEF Rising
  <2> HIDE DEF Y, k
  <2>6. \A i \in 1 .. k + 1 : r[i] \in X
    BY <2>2, <2>4 DEF Y
  <2>7. \A i, j \in 1 .. k + 1 : i < j => r[i] < r[j]
    <3> SUFFICES ASSUME NEW i \in 1 .. k + 1, NEW j \in 1 .. k + 1, i < j PROVE r[i] < r[j]
      OBVIOUS
    <3>1. j - 1 \in 1 .. k /\ r[j] = s[j - 1]
      BY <2>2
    <3>2. CASE i = 1
      BY <2>4, <3>1, <3>2
    <3>3. CASE i # 1
      <4>1. i - 1 \in 1 .. k /\ i - 1 < j - 1 /\ r[i] = s[i - 1]
        BY <2>2, <3>3
      <4>2. QED
        BY <2>5, <3>1, <4>1
    <3>4. QED
      BY <3>2, <3>3
  <2>8. Rising(r, X)
    <3>1. r \in [1 .. k + 1 -> X]
      BY <2>6
    <3> HIDE DEF r
    <3>2. QED
      BY <2>2, <2>7, <3>1 DEF Rising
  <2>9. QED
    BY <2>8
<1>5. QED
  BY <1>3, <1>4

\* Every member once.
LEMMA AscendingThere ==
  ASSUME NEW S \in SUBSET Nat, IsFiniteSet(S)
  PROVE  /\ Ascending(S) \in Seq(S) /\ {Ascending(S)[i] : i \in DOMAIN Ascending(S)} = S
         /\ \A i, j \in DOMAIN Ascending(S) : Ascending(S)[i] = Ascending(S)[j] => i = j
<1> DEFINE a == Ascending(S)
           n == Cardinality(S)
<1>1. n \in Nat
  BY FS_CardinalityType
<1>2. Rising(a, S)
  <2>1. PICK s : Rising(s, S)
    BY HasRising
  <2>2. QED
    BY <2>1, Zenon DEF Ascending, Rising
<1> HIDE DEF a, n
<1>3. a \in [1 .. n -> S] /\ \A i, j \in 1 .. n : i < j => a[i] < a[j]
  BY <1>2 DEF Rising, n
<1>4. \A i, j \in 1 .. n : a[i] = a[j] => i = j
  <2> SUFFICES ASSUME NEW i \in 1 .. n, NEW j \in 1 .. n, a[i] = a[j], i # j PROVE FALSE
    OBVIOUS
  <2>1. a[i] \in Nat /\ a[j] \in Nat
    BY <1>3
  <2>2. i < j \/ j < i
    BY <1>1
  <2>3. QED
    BY <1>3, <2>1, <2>2
<1>5. a \in Injection(1 .. n, S)
  BY <1>3, <1>4 DEF Injection, IsInjective
<1>6. a \in Surjection(1 .. n, S)
  <2>1. Cardinality(1 .. n) = n
    BY <1>1, FS_Interval
  <2>2. QED
    BY <1>5, <2>1, FS_Injection DEF n
<1>7. a \in Seq(S) /\ DOMAIN a = 1 .. n
  BY <1>1, <1>3
<1>8. \A i, j \in DOMAIN a : a[i] = a[j] => i = j
  BY <1>4, <1>7
<1>9. {a[i] : i \in DOMAIN a} = S
  <2>1. \A x \in S : \E i \in 1 .. n : a[i] = x
    BY <1>6 DEF Surjection
  <2>2. \A i \in 1 .. n : a[i] \in S
    BY <1>3
  <2>3. QED
    BY <1>7, <2>1, <2>2
<1>10. QED
  BY <1>7, <1>8, <1>9 DEF a
=============================================================================
