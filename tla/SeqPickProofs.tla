--------------------------- MODULE SeqPickProofs ---------------------------
(***************************************************************************)
(* Pick keeps exactly the chosen positions, in their order.  The argument  *)
(* is a counting one: the ranks of the n elements of a set of positions    *)
(* are n different numbers below n, hence all of them.                     *)
(***************************************************************************)
EXTENDS SeqPick, FiniteSetTheorems, SequenceTheorems, TLAPS

\* Fewer elements than the whole set lie below one of its elements.
LEMMA RankBound ==
    ASSUME NEW S \in SUBSET Nat, IsFiniteSet(S), NEW j \in S
    PROVE  /\ IsFiniteSet({k \in S : k < j})
           /\ Rank(S, j) \in 0 .. (Cardinality(S) - 1)
<1> DEFINE B == {k \in S : k < j}
<1>1. IsFiniteSet(S \ {j}) /\ Cardinality(S \ {j}) = Cardinality(S) - 1
  BY FS_RemoveElement
<1>2. B \in SUBSET (S \ {j})
  OBVIOUS
<1>3. IsFiniteSet(B) /\ Cardinality(B) <= Cardinality(S) - 1
  BY <1>1, <1>2, FS_Subset
<1>4. Cardinality(B) \in Nat /\ Cardinality(S) \in Nat
  BY <1>3, FS_CardinalityType
<1> QED
  BY <1>3, <1>4 DEF Rank

\* A larger element has a larger rank.
LEMMA RankGrows ==
    ASSUME NEW S \in SUBSET Nat, IsFiniteSet(S), NEW i \in S, NEW j \in S, i < j
    PROVE  Rank(S, i) < Rank(S, j)
<1> DEFINE A == {k \in S : k < i}
           B == {k \in S : k < j}
<1>1. IsFiniteSet(A) /\ IsFiniteSet(B)
  BY RankBound
<1>2. A \in SUBSET B /\ i \in B /\ i \notin A
  <2>1. \A k \in S : k < i => k < j
    OBVIOUS
  <2>2. ~(i < i)
    OBVIOUS
  <2> QED
    BY <2>1, <2>2
<1>3. Cardinality(A) <= Cardinality(B) /\ Cardinality(A) # Cardinality(B)
  BY <1>1, <1>2, FS_Subset
<1>4. Cardinality(A) \in Nat /\ Cardinality(B) \in Nat
  BY <1>1, FS_CardinalityType
<1> QED
  BY <1>3, <1>4 DEF Rank

\* Every number below the cardinality is the rank of an element.
LEMMA NthProperties ==
    ASSUME NEW S \in SUBSET Nat, IsFiniteSet(S), NEW i \in 1..Cardinality(S)
    PROVE  Nth(S, i) \in S /\ Rank(S, Nth(S, i)) = i - 1
<1> DEFINE n == Cardinality(S)
           T == 0 .. (n - 1)
           f == [j \in S |-> Rank(S, j)]
<1>1. n \in Nat
  BY FS_CardinalityType
<1>2. f \in [S -> T]
  BY RankBound
<1>3. \A x, y \in S : f[x] = f[y] => x = y
  <2> SUFFICES ASSUME NEW x \in S, NEW y \in S, f[x] = f[y], x # y
               PROVE  FALSE
    OBVIOUS
  <2>1. x < y \/ y < x
    OBVIOUS
  <2>2. Rank(S, x) \in Int /\ Rank(S, y) \in Int
    <3>1. Rank(S, x) \in 0..(n - 1) /\ Rank(S, y) \in 0..(n - 1)
      BY RankBound
    <3> HIDE DEF n
    <3> QED
      BY <1>1, <3>1
  <2>3. CASE x < y
    BY <2>2, <2>3, RankGrows
  <2>4. CASE y < x
    BY <2>2, <2>4, RankGrows
  <2> QED
    BY <2>1, <2>3, <2>4
<1>4. IsFiniteSet(T) /\ Cardinality(T) = n
  <2> HIDE DEF n
  <2>1. n - 1 \in Int /\ 0 \in Int
    BY <1>1
  <2>2. IsFiniteSet(0 .. (n - 1))
        /\ Cardinality(0 .. (n - 1)) = IF 0 > n - 1 THEN 0 ELSE (n - 1) - 0 + 1
    BY <2>1, FS_Interval
  <2> QED
    BY <1>1, <2>2
<1>5. f \in Injection(S, T)
  BY <1>2, <1>3, Zenon DEF Injection, IsInjective
<1>6. f \in Surjection(S, T)
  BY <1>4, <1>5, FS_Injection
<1>7. i - 1 \in T
  BY <1>1
<1>8. \E j \in S : Rank(S, j) = i - 1
  BY <1>6, <1>7 DEF Surjection
<1> QED
  BY <1>8 DEF Nth

\* The picked elements are those at the chosen positions, and they keep their
\* order: this is what removing the received bytes from a queue relies on.
THEOREM PickProperties ==
    ASSUME NEW D, NEW q \in Seq(D), NEW S \in SUBSET (DOMAIN q)
    PROVE  /\ Pick(q, S) \in Seq(D)
           /\ Len(Pick(q, S)) = Cardinality(S)
           /\ \A i \in 1..Cardinality(S) : Pick(q, S)[i] = q[Nth(S, i)] /\ Nth(S, i) \in S
           /\ \A j \in S : \E i \in 1..Cardinality(S) : Pick(q, S)[i] = q[j]
           /\ \A j \in S : \E i \in 1..Cardinality(S) : Nth(S, i) = j
           /\ \A i, j \in 1..Cardinality(S) : i < j => Nth(S, i) < Nth(S, j)
<1> DEFINE n == Cardinality(S)
<1>1. DOMAIN q = 1..Len(q) /\ Len(q) \in Nat
  BY LenProperties
<1>2. IsFiniteSet(S) /\ S \in SUBSET Nat
  <2>1. IsFiniteSet(1..Len(q))
    BY <1>1, FS_Interval
  <2> QED
    BY <1>1, <2>1, FS_Subset
<1>3. n \in Nat
  BY <1>2, FS_CardinalityType
<1>4. \A i \in 1..n : Nth(S, i) \in S /\ Rank(S, Nth(S, i)) = i - 1
  BY <1>2, NthProperties
<1>5. \A i \in 1..n : q[Nth(S, i)] \in D
  BY <1>1, <1>4, ElementOfSeq
<1>6. Pick(q, S) \in Seq(D) /\ Len(Pick(q, S)) = n
  <2>1. Pick(q, S) \in [1..n -> D]
    BY <1>5 DEF Pick
  <2>2. Pick(q, S) \in Seq(D)
    BY <1>3, <2>1, SeqDef
  <2>3. DOMAIN Pick(q, S) = 1..n
    BY DEF Pick
  <2> QED
    BY <1>3, <2>2, <2>3, LenProperties
<1>7. \A j \in S : \E i \in 1..n : Pick(q, S)[i] = q[j] /\ Nth(S, i) = j
  <2> SUFFICES ASSUME NEW j \in S
               PROVE  \E i \in 1..n : Pick(q, S)[i] = q[j] /\ Nth(S, i) = j
    OBVIOUS
  <2>1. Rank(S, j) \in 0..(n - 1)
    BY <1>2, RankBound
  <2> DEFINE i == Rank(S, j) + 1
             m == Nth(S, i)
  <2>2. i \in 1..n
    BY <1>3, <2>1
  <2>3. m \in S /\ Rank(S, m) = i - 1
    BY <1>4, <2>2
  <2>4. m \in Nat /\ j \in Nat /\ Rank(S, m) = Rank(S, j) /\ Rank(S, j) \in Int
    BY <1>2, <2>1, <2>3
  <2>5. ~(m < j) /\ ~(j < m)
    <3> HIDE DEF m
    <3>1. ASSUME m < j PROVE FALSE
      BY <1>2, <2>3, <2>4, <3>1, RankGrows
    <3>2. ASSUME j < m PROVE FALSE
      BY <1>2, <2>3, <2>4, <3>2, RankGrows
    <3> QED
      BY <3>1, <3>2
  <2>6. m = j
    BY <2>4, <2>5
  <2> QED
    BY <2>2, <2>6 DEF Pick
<1>8. \A i, j \in 1..n : i < j => Nth(S, i) < Nth(S, j)
  <2> SUFFICES ASSUME NEW i \in 1..n, NEW j \in 1..n, i < j
               PROVE  Nth(S, i) < Nth(S, j)
    OBVIOUS
  <2> DEFINE a == Nth(S, i)
             b == Nth(S, j)
  <2>1. a \in S /\ b \in S /\ Rank(S, a) = i - 1 /\ Rank(S, b) = j - 1
    BY <1>4
  <2>2. a \in Nat /\ b \in Nat
    BY <1>2, <2>1
  <2> HIDE DEF a, b
  <2>3. a # b
    BY <1>3, <2>1
  <2>4. ASSUME b < a PROVE FALSE
    BY <1>2, <1>3, <2>1, <2>4, RankGrows
  <2>5. a < b
    BY <2>2, <2>3, <2>4
  <2> QED
    BY <2>5 DEF a, b
<1> QED
  BY <1>4, <1>6, <1>7, <1>8 DEF Pick
=============================================================================
