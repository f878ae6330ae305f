------------------------------ MODULE Counting ------------------------------
(***************************************************************************)
(* Lemmas on numbers and finite sets that the proofs of several modules    *)
(* rest on: where the code takes a minimum, sorts, or takes the first few. *)
(***************************************************************************)
EXTENDS Naturals, FiniteSets, Functions, FiniteSetTheorems, WellFoundedInduction, TLAPS

\* Numbers have a least one.
LEMMA LeastNumber ==
    ASSUME NEW S \in SUBSET Nat, S # {} PROVE \E n \in S : \A k \in S : n <= k
  <1> DEFINE less == OpToRel(<, Nat)
  <1>1. IsWellFoundedOn(less, Nat)
    BY NatLessThanWellFounded
  <1>2. \A m, n \in Nat : <<m, n>> \in less <=> m < n
    BY DEF OpToRel
  <1> HIDE DEF less
  <1>3. PICK n \in S : \A k \in S : ~ (<<k, n>> \in less)
    BY <1>1, WFMin
  <1>4. ASSUME NEW k \in S PROVE n <= k
    <2>1. ~(k < n)
      BY <1>2, <1>3, Zenon
    <2>2. QED
      BY <2>1
  <1>5. QED
    BY <1>4

\* In a sorted finite set the number of those before is a place, from 0 on, and each has its own.
LEMMA Ranks ==
    ASSUME NEW S, IsFiniteSet(S), NEW before,
           \A x \in S : <<x, x>> \notin before,
           \A x, y, z \in S : <<x, y>> \in before /\ <<y, z>> \in before => <<x, z>> \in before,
           \A x, y \in S : x # y => <<x, y>> \in before \/ <<y, x>> \in before,
           NEW rank, rank = [x \in S |-> Cardinality({y \in S : <<y, x>> \in before})]
    PROVE  /\ rank \in Bijection(S, 0 .. Cardinality(S) - 1)
           /\ \A x, y \in S : <<x, y>> \in before <=> rank[x] < rank[y]
  <1> DEFINE below(x) == {y \in S : <<y, x>> \in before}
             n == Cardinality(S)
             T == 0 .. n - 1
  <1>1. n \in Nat /\ IsFiniteSet(T) /\ Cardinality(T) = n
    <2>1. n \in Nat
      BY FS_CardinalityType
    <2>2. QED
      BY <2>1, FS_Interval, SMTT(30)
  <1>2. \A x \in S : /\ below(x) \subseteq S /\ below(x) # S
                     /\ IsFiniteSet(below(x)) /\ Cardinality(below(x)) \in 0 .. n - 1
    <2> TAKE x \in S
    <2>1. below(x) \subseteq S /\ x \notin below(x)
      OBVIOUS
    <2>2. IsFiniteSet(below(x)) /\ Cardinality(below(x)) <= n /\ Cardinality(below(x)) # n
      BY <2>1, FS_Subset
    <2>3. Cardinality(below(x)) \in Nat
      BY <2>2, FS_CardinalityType
    <2>4. QED
      BY <1>1, <2>1, <2>2, <2>3
  <1>3. ASSUME NEW x \in S, NEW y \in S, <<x, y>> \in before PROVE rank[x] < rank[y]
    <2>1. below(x) \subseteq below(y) /\ x \in below(y) /\ x \notin below(x)
      BY <1>3
    <2>2. Cardinality(below(x)) <= Cardinality(below(y)) /\ Cardinality(below(x)) # Cardinality(below(y))
      BY <1>2, <2>1, FS_Subset
    <2>3. rank[x] = Cardinality(below(x)) /\ rank[y] = Cardinality(below(y))
      OBVIOUS
    <2>4. Cardinality(below(x)) \in Nat /\ Cardinality(below(y)) \in Nat
      BY <1>2, FS_CardinalityType
    <2>5. QED
      BY <2>2, <2>3, <2>4
  <1>4. rank \in [S -> T] /\ \A x \in S : rank[x] \in Int
    <2>1. \A x \in S : Cardinality(below(x)) \in 0 .. n - 1
      BY <1>2
    <2>2. \A x \in S : rank[x] = Cardinality(below(x)) /\ rank[x] \in T
      BY <2>1
    <2>3. rank \in [S -> T]
      BY <2>2
    <2> HIDE DEF n
    <2>4. QED
      BY <2>2, <2>3
  <1>5. ASSUME NEW x \in S, NEW y \in S, rank[x] < rank[y] PROVE <<x, y>> \in before
    <2> DEFINE a == rank[x]
               b == rank[y]
    <2>0. a \in Int /\ b \in Int /\ a < b
      BY <1>4, <1>5
    <2> HIDE DEF a, b
    <2>1. ~(b < a) /\ a # b
      BY <2>0
    <2>2. QED
      BY <1>3, <2>1 DEF a, b
  <1>6. \A x, y \in S : rank[x] = rank[y] => x = y
    <2>1. \A x, y \in S : rank[x] = rank[y] => ~(rank[x] < rank[y]) /\ ~(rank[y] < rank[x])
      BY <1>4
    <2>2. QED
      BY <1>3, <2>1
  <1> HIDE DEF T, n, below
  <1>7. rank \in Injection(S, T)
    BY <1>4, <1>6 DEF Injection, IsInjective
  <1>8. rank \in Surjection(S, T)
    BY <1>1, <1>7, FS_Injection DEF n
  <1>9. rank \in Bijection(S, T)
    BY <1>7, <1>8 DEF Bijection
  <1>10. QED
    BY <1>3, <1>5, <1>9 DEF T, n

\* Of those that come before fewer than so many, there are so many, or all.
LEMMA FirstOnes ==
    ASSUME NEW S, IsFiniteSet(S), NEW limit \in Nat,
           NEW rank \in Bijection(S, 0 .. Cardinality(S) - 1)
    PROVE  LET first == {x \in S : rank[x] < limit} IN
           /\ IsFiniteSet(first)
           /\ Cardinality(first) = Cardinality(S) \/ Cardinality(first) = limit
  <1> DEFINE first == {x \in S : rank[x] < limit}
             n == Cardinality(S)
             T == 0 .. n - 1
             F == 0 .. limit - 1
             order == [x \in first |-> rank[x]]
  <1>1. n \in Nat /\ IsFiniteSet(first)
    BY FS_CardinalityType, FS_Subset
  <1>2. /\ rank \in [S -> T] /\ \A x, y \in S : rank[x] = rank[y] => x = y
        /\ \A i \in T : \E x \in S : rank[x] = i
    BY DEF Bijection, Injection, Surjection, IsInjective
  <1>3. CASE n <= limit
    <2>1. \A x \in S : rank[x] < limit
      <3> HIDE DEF n
      <3>1. QED
        BY <1>1, <1>2, <1>3
    <2>2. first = S
      BY <2>1
    <2>3. QED
      BY <1>1, <2>2
  <1>4. CASE limit < n
    <2> HIDE DEF n
    <2>1. F \subseteq T /\ \A i \in T : i < limit => i \in F
      BY <1>1, <1>4
    <2>2. IsFiniteSet(F) /\ Cardinality(F) = limit
      BY FS_Interval
    <2>3. \A x \in first : rank[x] \in F
      BY <1>2, <2>1
    <2> HIDE DEF T
    <2>4. \A i \in F : \E x \in first : rank[x] = i
      BY <1>2, <2>1
    <2>5. order \in [first -> F] /\ \A x \in first : order[x] = rank[x]
      BY <2>3
    <2> HIDE DEF order, F
    <2>6. order \in Injection(first, F)
      BY <1>2, <2>5 DEF Injection, IsInjective
    <2>7. order \in Surjection(first, F)
      BY <2>4, <2>5 DEF Surjection
    <2>8. Cardinality(first) = Cardinality(F)
      BY <2>2, <2>6, <2>7, FS_Injection
    <2>9. QED
      BY <1>1, <2>2, <2>8
  <1>5. QED
    BY <1>1, <1>3, <1>4

\* As many as there are numbers up to k, or at most as many.
LEMMA Counted ==
    ASSUME NEW S, NEW k \in Nat
    PROVE  /\ \A f : f \in Injection(1 .. k, S) /\ IsFiniteSet(S) => k <= Cardinality(S)
           /\ \A f : f \in Injection(S, 1 .. k) => IsFiniteSet(S) /\ Cardinality(S) <= k
  <1>1. IsFiniteSet(1 .. k) /\ Cardinality(1 .. k) = k
    BY FS_Interval
  <1>2. QED
    BY <1>1, FS_Injection

=============================================================================
