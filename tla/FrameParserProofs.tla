------------------------- MODULE FrameParserProofs -------------------------
(***************************************************************************)
(* Theorems about the frame parser, for every schema that the loader lets  *)
(* through, every width of a byte and of the integers, and every sequence  *)
(* of pushes, settings and resets.  The recursive functions of the model   *)
(* are unfolded by an induction that is proved here (NatSet).              *)
(***************************************************************************)
EXTENDS FrameParser, FiniteSetTheorems, FunctionTheorems, SequenceTheorems, TLAPS

-----------------------------------------------------------------------------
(* Naturals and sums                                                        *)

\* Induction without an operator to instantiate: of a set of naturals that holds 0 and the
\* successor of each of its members, what is below a missing member would be a finite set
\* mapped one to one into less than itself.
LEMMA NatSet ==
    ASSUME NEW S \in SUBSET Nat, 0 \in S, \A n \in S : n + 1 \in S
    PROVE  S = Nat
<1> SUFFICES ASSUME NEW m \in Nat, m \notin S PROVE FALSE
  OBVIOUS
<1> DEFINE T == {k \in S : k <= m}
           U == T \ {0}
           f == [k \in T |-> k + 1]
<1>1. IsFiniteSet(T)
  BY FS_BoundedSetOfNaturals
<1>2. 0 \in T
  OBVIOUS
<1>3. ASSUME NEW k \in T PROVE k + 1 \in U
  <2>1. k # m /\ k \in Nat /\ k <= m /\ k + 1 \in S
    OBVIOUS
  <2>2. k + 1 <= m /\ k + 1 # 0
    BY <2>1
  <2> QED
    BY <2>1, <2>2
<1>4. f \in Injection(T, U)
  <2>1. f \in [T -> U]
    BY <1>3
  <2>2. \A j, k \in T : f[j] = f[k] => j = k
    OBVIOUS
  <2> HIDE DEF f, T, U
  <2> QED
    BY <2>1, <2>2 DEF Injection, IsInjective
<1> HIDE DEF f, T
<1>5. IsFiniteSet(U) /\ Cardinality(U) = Cardinality(T) - 1
  BY <1>1, <1>2, FS_RemoveElement
<1>6. Cardinality(T) <= Cardinality(U)
  <2> HIDE DEF U
  <2> QED
    BY <1>4, <1>5, FS_Injection
<1>7. Cardinality(T) \in Nat
  BY <1>1, FS_CardinalityType
<1> QED
  BY <1>5, <1>6, <1>7


\* A set of naturals that is not empty has a least member.
LEMMA LeastExists ==
    ASSUME NEW T \in SUBSET Nat, T # {}
    PROVE  \E k \in T : \A j \in T : k <= j
<1> DEFINE S == {n \in Nat : \A i \in T : n <= i}
<1>1. 0 \in S
  OBVIOUS
<1>2. PICK t \in T : TRUE
  OBVIOUS
<1>3. t + 1 \in Nat /\ t + 1 \notin S
  BY <1>2
<1>4. S # Nat
  BY <1>3
<1>5. PICK n \in S : n + 1 \notin S
  <2> S \in SUBSET Nat
    OBVIOUS
  <2> HIDE DEF S
  <2> QED
    BY <1>1, <1>4, NatSet
<1>6. PICK i \in T : ~(n + 1 <= i)
  BY <1>5
<1>7. \A j \in T : n <= j
  BY <1>5
<1>8. i = n
  BY <1>5, <1>6, <1>7
<1> QED
  BY <1>6, <1>7, <1>8

\* A set of integers that is not empty and has a bound has a largest member.
LEMMA LargestExists ==
    ASSUME NEW T \in SUBSET Int, T # {}, NEW b \in Int, \A j \in T : j <= b
    PROVE  \E k \in T : \A j \in T : j <= k
<1> DEFINE D == {b - j : j \in T}
<1>0. \A j \in T : b - j \in Nat
  OBVIOUS
<1>1. D \in SUBSET Nat /\ D # {}
  BY <1>0, Zenon
<1>2. PICK d \in D : \A e \in D : d <= e
  <2> HIDE DEF D
  <2> QED
    BY <1>1, LeastExists
<1>3. PICK k \in T : d = b - k
  BY <1>2
<1>4. ASSUME NEW j \in T PROVE j <= k
  <2>1. b - j \in D
    OBVIOUS
  <2>2. d <= b - j
    BY <1>2, <2>1
  <2> QED
    BY <1>3, <2>2
<1> QED
  BY <1>4

\* f adds up the members of s.
Sums(f, s) ==
    /\ f \in [0 .. Len(s) -> Nat]
    /\ f[0] = 0 /\ \A k \in 1 .. Len(s) : f[k] = f[k - 1] + s[k]

\* Two functions that add up the same sequence are the same.
LEMMA SumsAgree ==
    ASSUME NEW s \in Seq(Nat), NEW f, NEW g, Sums(f, s), Sums(g, s)
    PROVE  \A k \in 0 .. Len(s) : f[k] = g[k]
<1> DEFINE S == {k \in Nat : k <= Len(s) => f[k] = g[k]}
<1>1. 0 \in S
  BY DEF Sums
<1>2. ASSUME NEW k \in S PROVE k + 1 \in S
  <2> SUFFICES ASSUME k + 1 <= Len(s) PROVE f[k + 1] = g[k + 1]
    OBVIOUS
  <2>1. k <= Len(s) /\ k + 1 \in 1 .. Len(s) /\ (k + 1) - 1 = k
    BY LenProperties
  <2>2. f[k] = g[k]
    BY <2>1
  <2>3. f[k + 1] = f[k] + s[k + 1] /\ g[k + 1] = g[k] + s[k + 1]
    BY <2>1 DEF Sums
  <2> QED
    BY <2>2, <2>3
<1>3. S = Nat
  <2>1. S \in SUBSET Nat
    OBVIOUS
  <2> HIDE DEF S
  <2> QED
    BY <1>1, <1>2, <2>1, NatSet
<1> QED
  BY <1>3

\* What SumOf chooses adds up.
LEMMA SumIs ==
    ASSUME NEW s \in Seq(Nat), NEW f, Sums(f, s)
    PROVE  SumOf(s) = f[Len(s)]
<1> DEFINE N == Len(s)
           IsIt(h) == h = [k \in 0 .. N |-> IF k = 0 THEN 0 ELSE h[k - 1] + s[k]]
           c == CHOOSE h : IsIt(h)
<1>1. N \in Nat
  BY LenProperties
<1>2. IsIt(f)
  <2>1. f = [k \in 0 .. N |-> f[k]]
    BY DEF Sums
  <2>2. \A k \in 0 .. N : f[k] = IF k = 0 THEN 0 ELSE f[k - 1] + s[k]
    BY <1>1 DEF Sums
  <2> QED
    BY <2>1, <2>2
<1>3. IsIt(c)
  BY <1>2
<1>4. SumOf(s) = c[N]
  BY DEF SumOf
<1>5. f = c
  <2> DEFINE S == {k \in Nat : k <= N => f[k] = c[k]}
  <2> HIDE DEF c
  <2>1. 0 \in S
    BY <1>1, <1>2, <1>3
  <2>2. ASSUME NEW k \in S PROVE k + 1 \in S
    <3> SUFFICES ASSUME k + 1 <= N PROVE f[k + 1] = c[k + 1]
      OBVIOUS
    <3>1. k <= N /\ k + 1 \in 0 .. N /\ k + 1 # 0 /\ (k + 1) - 1 = k
      BY <1>1
    <3>2. f[k] = c[k]
      BY <3>1
    <3>3. f[k + 1] = f[k] + s[k + 1]
      BY <1>2, <3>1
    <3>4. c[k + 1] = c[k] + s[k + 1]
      BY <1>3, <3>1
    <3> QED
      BY <3>2, <3>3, <3>4
  <2>3. S = Nat
    <3>1. S \in SUBSET Nat
      OBVIOUS
    <3> HIDE DEF S
    <3> QED
      BY <2>1, <2>2, <3>1, NatSet
  <2>4. \A k \in 0 .. N : f[k] = c[k]
    BY <2>3
  <2> QED
    BY <1>2, <1>3, <2>4
<1> QED
  BY <1>1, <1>4, <1>5

\* There is a function that adds up.
LEMMA SumsExists ==
    ASSUME NEW s \in Seq(Nat)
    PROVE  \E f : Sums(f, s)
<1> DEFINE N == Len(s)
           Up(f, n) == f[0] = 0 /\ \A k \in 1 .. n : f[k] = f[k - 1] + s[k]
           S == {n \in Nat : n <= N => \E f \in [0 .. n -> Nat] : Up(f, n)}
<1>1. N \in Nat /\ \A k \in 1 .. N : s[k] \in Nat
  BY LenProperties, ElementOfSeq
<1>2. 0 \in S
  <2> DEFINE f == [k \in 0 .. 0 |-> 0]
  <2>1. f \in [0 .. 0 -> Nat] /\ Up(f, 0)
    OBVIOUS
  <2> QED
    BY <2>1
<1>3. ASSUME NEW n \in S PROVE n + 1 \in S
  <2>0. n \in Nat /\ n + 1 \in Nat
    OBVIOUS
  <2> SUFFICES ASSUME n + 1 <= N PROVE \E f \in [0 .. n + 1 -> Nat] : Up(f, n + 1)
    BY <2>0
  <2>1. n \in Nat /\ n <= N /\ s[n + 1] \in Nat
    BY <1>1, <2>0
  <2>2. PICK f \in [0 .. n -> Nat] : Up(f, n)
    BY <2>1
  <2> DEFINE g == [k \in 0 .. n + 1 |-> IF k <= n THEN f[k] ELSE f[n] + s[n + 1]]
  <2>3. g \in [0 .. n + 1 -> Nat]
    BY <2>1
  <2>4. g[0] = 0
    BY <2>1, <2>2
  <2>5. ASSUME NEW k \in 1 .. n + 1 PROVE g[k] = g[k - 1] + s[k]
    <3>1. CASE k <= n
      BY <2>1, <2>2, <3>1
    <3>2. CASE k = n + 1
      BY <2>1, <2>2, <3>2
    <3> QED
      BY <2>1, <3>1, <3>2
  <2> HIDE DEF g
  <2> QED
    BY <2>3, <2>4, <2>5
<1>4. S \in SUBSET Nat
  OBVIOUS
<1> HIDE DEF S
<1>5. N \in S
  BY <1>1, <1>2, <1>3, <1>4, NatSet
<1> QED
  BY <1>5 DEF S, Sums

\* A sum of naturals is a natural.
LEMMA SumType ==
    ASSUME NEW s \in Seq(Nat)
    PROVE  SumOf(s) \in Nat
<1>1. PICK f : Sums(f, s)
  BY SumsExists
<1>2. SumOf(s) = f[Len(s)] /\ Len(s) \in 0 .. Len(s)
  BY <1>1, SumIs, LenProperties
<1> QED
  BY <1>1, <1>2 DEF Sums

\* Nothing adds up to zero.
LEMMA SumNone == SumOf(<<>>) = 0
<1> DEFINE f == [k \in 0 .. 0 |-> 0]
<1>1. <<>> \in Seq(Nat) /\ Len(<<>>) = 0
  OBVIOUS
<1>2. Sums(f, <<>>)
  BY <1>1 DEF Sums
<1> QED
  BY <1>1, <1>2, SumIs

\* The sum of one member more.
LEMMA SumAppend ==
    ASSUME NEW s \in Seq(Nat), NEW x \in Nat
    PROVE  SumOf(Append(s, x)) = SumOf(s) + x
<1> DEFINE t == Append(s, x)
           n == Len(s)
<1>1. n \in Nat /\ t \in Seq(Nat) /\ Len(t) = n + 1 /\ t[n + 1] = x /\ \A k \in 1 .. n : t[k] = s[k]
  BY AppendProperties, LenProperties
<1>2. PICK f : Sums(f, s)
  BY SumsExists
<1> DEFINE g == [k \in 0 .. n + 1 |-> IF k <= n THEN f[k] ELSE f[n] + x]
<1> HIDE DEF t
<1>3. Sums(g, t)
  <2>1. f \in [0 .. n -> Nat] /\ f[0] = 0 /\ \A k \in 1 .. n : f[k] = f[k - 1] + s[k]
    BY <1>2 DEF Sums
  <2>4. \A k \in 0 .. n + 1 : (IF k <= n THEN f[k] ELSE f[n] + x) \in Nat
    <3> HIDE DEF n
    <3> QED
      BY <1>1, <2>1
  <2>2. g \in [0 .. n + 1 -> Nat] /\ g[0] = 0
    <3> HIDE DEF n
    <3> QED
      BY <1>1, <2>1, <2>4
  <2>3. ASSUME NEW k \in 1 .. n + 1 PROVE g[k] = g[k - 1] + t[k]
    <3>1. CASE k <= n
      BY <1>1, <2>1, <3>1
    <3>2. CASE k = n + 1
      BY <1>1, <2>1, <3>2
    <3> QED
      BY <1>1, <3>1, <3>2
  <2> HIDE DEF g, n
  <2> QED
    BY <1>1, <2>2, <2>3 DEF Sums
<1>4. SumOf(s) = f[n] /\ SumOf(t) = g[n + 1]
  BY <1>1, <1>2, <1>3, SumIs
<1> QED
  BY <1>1, <1>4 DEF t
-----------------------------------------------------------------------------
(* The ring                                                                 *)

RingOk(r) ==
    /\ r \in [cells : Seq(Byte), head : Nat, size : Nat]
    /\ Cap(r) # 0 /\ r.head < Cap(r) /\ r.size <= Cap(r)

\* The byte i of what the ring holds, and where it is.
Place(r, i) == ((r.head + i - 1) % Cap(r)) + 1
At(r, i) == r.cells[Place(r, i)]

\* A place that has gone round the array at most once.
LEMMA WrapAround ==
    ASSUME NEW c \in Nat, c # 0, NEW a \in Nat, a < 2 * c
    PROVE  a % c = IF a < c THEN a ELSE a - c
  OBVIOUS

\* The parts of a ring.
LEMMA RingFacts ==
    ASSUME NEW r, RingOk(r)
    PROVE  /\ Cap(r) \in Nat /\ r.head \in Nat /\ r.size \in Nat
           /\ r.cells \in Seq(Byte) /\ Len(r.cells) = Cap(r)
           /\ \A k \in 1 .. Cap(r) : r.cells[k] \in Byte
  BY LenProperties, ElementOfSeq DEF RingOk, Cap

\* A place without the division.
LEMMA PlaceIs ==
    ASSUME NEW r, RingOk(r), NEW i \in 1 .. Cap(r)
    PROVE  Place(r, i) = IF r.head + i <= Cap(r) THEN r.head + i ELSE r.head + i - Cap(r)
<1> DEFINE c == Cap(r)
           a == r.head + i - 1
<1>1. c \in Nat /\ c # 0 /\ r.head \in Nat /\ r.head < c /\ i \in Nat /\ i >= 1 /\ i <= c
  BY RingFacts DEF RingOk
<1> HIDE DEF c
<1>2. a \in Nat /\ a < 2 * c
  BY <1>1
<1> HIDE DEF a
<1>3. a % c = IF a < c THEN a ELSE a - c
  BY <1>1, <1>2, WrapAround
<1>4. Place(r, i) = (a % c) + 1
  BY DEF Place, a, c
<1> QED
  BY <1>1, <1>3, <1>4 DEF a, c

\* What the ring holds is made of bytes.
LEMMA ContentsIs ==
    ASSUME NEW r, RingOk(r)
    PROVE  /\ Contents(r) = [i \in 1 .. r.size |-> At(r, i)]
           /\ Contents(r) \in Seq(Byte) /\ Len(Contents(r)) = r.size
           /\ \A i \in 1 .. r.size : Contents(r)[i] = At(r, i)
<1>1. Contents(r) = [i \in 1 .. r.size |-> At(r, i)]
  BY DEF Contents, At, Place
<1>2. r.size \in Nat /\ r.size <= Cap(r) /\ Cap(r) \in Nat /\ r.head \in Nat /\ r.head < Cap(r)
  BY RingFacts DEF RingOk
<1>3. ASSUME NEW i \in 1 .. r.size PROVE At(r, i) \in Byte
  <2>1. i \in 1 .. Cap(r)
    BY <1>2
  <2>2. Place(r, i) \in 1 .. Cap(r)
    BY <1>2, <2>1, PlaceIs
  <2> QED
    BY <2>2, RingFacts DEF At
<1> QED
  BY <1>1, <1>2, <1>3

\* The ring of a new parser is one.
LEMMA EmptyRingOk ==
    ASSUME NEW c \in Nat, c # 0
    PROVE  RingOk(EmptyRing(c)) /\ Cap(EmptyRing(c)) = c /\ EmptyRing(c).size = 0
<1> DEFINE s == [i \in 1 .. c |-> 0]
<1>1. 0 \in Byte
  BY ParserAssumption DEF Byte
<1>2. s \in Seq(Byte) /\ Len(s) = c
  BY <1>1
<1> HIDE DEF s
<1>3. EmptyRing(c) = [cells |-> s, head |-> 0, size |-> 0]
  BY DEF EmptyRing, s
<1> QED
  BY <1>2, <1>3 DEF RingOk, Cap

\* Discarding takes bytes from the front.
LEMMA DiscardTakes ==
    ASSUME NEW r, RingOk(r), NEW n \in Nat, n <= r.size
    PROVE  LET q == DiscardFront(r, n)
           IN  /\ RingOk(q) /\ Cap(q) = Cap(r) /\ q.size = r.size - n
               /\ \A i \in 1 .. q.size : At(q, i) = At(r, n + i)
<1> DEFINE q == DiscardFront(r, n)
           c == Cap(r)
<1>1. c \in Nat /\ c # 0 /\ r.head \in Nat /\ r.head < c /\ r.size \in Nat /\ r.size <= c
  BY RingFacts DEF RingOk
<1>2. Least(n, r.size) = n
  BY <1>1 DEF Least
<1>3. CASE n = 0
  BY <1>1, <1>2, <1>3 DEF DiscardFront
<1>4. CASE n # 0
  <2>1. q = [r EXCEPT !.head = (@ + n) % c, !.size = @ - n]
    BY <1>2, <1>4 DEF DiscardFront
  <2>2. r \in [cells : Seq(Byte), head : Nat, size : Nat]
    BY DEF RingOk
  <2>3. q.cells = r.cells /\ q.head = (r.head + n) % c /\ q.size = r.size - n
        /\ q = [cells |-> q.cells, head |-> q.head, size |-> q.size]
    BY <2>1, <2>2
  <2> HIDE DEF c, q
  <2>4. (r.head + n) % c = IF r.head + n < c THEN r.head + n ELSE r.head + n - c
    <3> DEFINE a == r.head + n
    <3>1. a \in Nat /\ a < 2 * c
      BY <1>1
    <3> HIDE DEF a
    <3>2. a % c = IF a < c THEN a ELSE a - c
      BY <1>1, <3>1, WrapAround
    <3> QED
      BY <1>1, <3>2 DEF a
  <2>5. q.head \in Nat /\ q.head < c /\ q.size \in Nat /\ q.size <= c
    BY <1>1, <2>3, <2>4
  <2>6. Cap(q) = c
    BY <2>3 DEF Cap, c
  <2>7. RingOk(q)
    BY <1>1, <2>2, <2>3, <2>5, <2>6 DEF RingOk
  <2>8. ASSUME NEW i \in 1 .. q.size PROVE At(q, i) = At(r, n + i)
    <3>1. i \in 1 .. Cap(q) /\ n + i \in 1 .. Cap(r)
      BY <1>1, <2>3, <2>5, <2>6 DEF c
    <3>2. Place(q, i) = IF q.head + i <= c THEN q.head + i ELSE q.head + i - c
      BY <2>6, <2>7, <3>1, PlaceIs
    <3>3. Place(r, n + i) = IF r.head + (n + i) <= c THEN r.head + (n + i)
                                                   ELSE r.head + (n + i) - c
      BY <3>1, PlaceIs DEF c
    <3>4. Place(q, i) = Place(r, n + i)
      BY <1>1, <2>3, <2>4, <2>5, <3>2, <3>3
    <3> QED
      BY <2>3, <3>4 DEF At
  <2> QED
    BY <2>3, <2>6, <2>7, <2>8 DEF q, c
<1> QED
  BY <1>3, <1>4

\* The second piece of an append of n bytes to s bytes behind the head h, in an array of
\* c, ends before the first one starts.
LEMMA PiecesApart ==
    ASSUME NEW c \in Nat, NEW h \in Nat, NEW s \in Nat, NEW n \in Nat, h < c, s + n <= c,
           NEW t \in Nat, t = (IF h + s < c THEN h + s ELSE h + s - c),
           NEW m \in Nat, m = (IF n < c - t THEN n ELSE c - t)
    PROVE  n - m \in Nat /\ n - m <= t
<1>1. CASE h + s < c /\ n < c - t
  BY <1>1
<1>2. CASE h + s < c /\ ~(n < c - t)
  BY <1>2
<1>3. CASE ~(h + s < c)
  BY <1>3
<1> QED
  BY <1>1, <1>2, <1>3

\* What is appended in two pieces comes after what is there, where it fits.
LEMMA AppendAdds ==
    ASSUME NEW r, RingOk(r), NEW b \in Seq(Byte), r.size + Len(b) <= Cap(r)
    PROVE  LET q == AppendContiguous(r, b)
           IN  /\ RingOk(q) /\ Cap(q) = Cap(r) /\ q.size = r.size + Len(b)
               /\ \A i \in 1 .. r.size : At(q, i) = At(r, i)
               /\ \A i \in 1 .. Len(b) : At(q, r.size + i) = b[i]
<1> DEFINE q == AppendContiguous(r, b)
           c == Cap(r)
           n == Len(b)
           tail == (r.head + r.size) % c
           first == Least(n, c - tail)
           Cell(i) == CASE i > tail /\ i <= tail + first -> b[i - tail]
                        [] i <= n - first -> b[first + i]
                        [] OTHER -> r.cells[i]
<1>1. /\ c \in Nat /\ c # 0 /\ r.head \in Nat /\ r.head < c /\ r.size \in Nat /\ r.size <= c
      /\ n \in Nat /\ r.size + n <= c
  BY RingFacts, LenProperties DEF RingOk
<1>2. tail = IF r.head + r.size < c THEN r.head + r.size ELSE r.head + r.size - c
  <2> DEFINE a == r.head + r.size
  <2> HIDE DEF c
  <2>1. a \in Nat /\ a < 2 * c
    BY <1>1
  <2> HIDE DEF a
  <2>2. a % c = IF a < c THEN a ELSE a - c
    BY <1>1, <2>1, WrapAround
  <2> QED
    BY <1>1, <2>2 DEF a
<1>3. q = [r EXCEPT !.cells = [i \in 1 .. c |-> Cell(i)], !.size = Least(c, @ + n)]
  BY DEF AppendContiguous
<1>4. r \in [cells : Seq(Byte), head : Nat, size : Nat]
  BY DEF RingOk
<1> HIDE DEF Cell, q, c, n
<1>5. /\ q.cells = [i \in 1 .. c |-> Cell(i)] /\ q.head = r.head /\ q.size = Least(c, r.size + n)
      /\ q = [cells |-> q.cells, head |-> q.head, size |-> q.size]
  BY <1>3, <1>4
<1>6. q.size = r.size + n
  BY <1>1, <1>5 DEF Least
<1> HIDE DEF tail
<1>7. tail \in Nat /\ tail < c /\ first \in Nat /\ first <= n /\ first <= c - tail
      /\ first = IF n < c - tail THEN n ELSE c - tail
  <2>1. tail \in Nat /\ tail < c
    BY <1>1, <1>2
  <2>2. first = IF n < c - tail THEN n ELSE c - tail
    BY DEF Least
  <2> HIDE DEF first
  <2> QED
    BY <1>1, <2>1, <2>2
<1> HIDE DEF first
<1>18. n - first \in Nat /\ n - first <= tail
  BY <1>1, <1>2, <1>7, PiecesApart
<1>8. \A i \in 1 .. c : r.cells[i] \in Byte
  BY RingFacts DEF c
<1>9. \A i \in 1 .. n : b[i] \in Byte
  BY ElementOfSeq DEF n
<1>10. ASSUME NEW i \in 1 .. c
       PROVE  /\ i > tail /\ i <= tail + first => Cell(i) = b[i - tail]
              /\ ~(i > tail /\ i <= tail + first) /\ i <= n - first => Cell(i) = b[first + i]
              /\ ~(i > tail /\ i <= tail + first) /\ ~(i <= n - first) => Cell(i) = r.cells[i]
  <2>1. ~(i > tail /\ i <= tail + first /\ i <= n - first)
    BY <1>1, <1>7, <1>18
  <2> QED
    BY <2>1 DEF Cell
<1>11. ASSUME NEW i \in 1 .. c PROVE Cell(i) \in Byte
  <2>1. i > tail /\ i <= tail + first => i - tail \in 1 .. n
    BY <1>1, <1>7
  <2>2. i <= n - first => first + i \in 1 .. n
    BY <1>1, <1>7
  <2> QED
    BY <1>8, <1>9, <1>10, <2>1, <2>2
<1>12. q.cells \in Seq(Byte) /\ Len(q.cells) = c
  BY <1>1, <1>5, <1>11, SMTT(20)
<1>13. Cap(q) = c
  BY <1>12 DEF Cap
<1>14. RingOk(q)
  <2>1. q.head \in Nat /\ q.size \in Nat /\ q.head < c /\ q.size <= c
    BY <1>1, <1>5, <1>6
  <2> QED
    BY <1>1, <1>5, <1>12, <1>13, <2>1 DEF RingOk
<1>15. ASSUME NEW i \in 1 .. c
       PROVE  /\ Place(q, i) = Place(r, i)
              /\ Place(q, i) = IF r.head + i <= c THEN r.head + i ELSE r.head + i - c
              /\ Place(q, i) \in 1 .. c
  <2>1. Place(q, i) = IF q.head + i <= c THEN q.head + i ELSE q.head + i - c
    BY <1>13, <1>14, PlaceIs
  <2>2. Place(r, i) = IF r.head + i <= c THEN r.head + i ELSE r.head + i - c
    BY PlaceIs DEF c
  <2> QED
    BY <1>1, <1>5, <2>1, <2>2
<1>16. ASSUME NEW i \in 1 .. r.size PROVE At(q, i) = At(r, i)
  <2> DEFINE p == Place(q, i)
  <2>1. i \in 1 .. c
    BY <1>1
  <2>2. p = Place(r, i) /\ p = (IF r.head + i <= c THEN r.head + i ELSE r.head + i - c) /\ p \in 1 .. c
    BY <1>15, <2>1
  <2> HIDE DEF p
  <2>3. ~(p > tail /\ p <= tail + first) /\ ~(p <= n - first)
    <3> DEFINE h == r.head
               z == r.size
    <3>1. /\ c \in Nat /\ h \in Nat /\ z \in Nat /\ n \in Nat /\ tail \in Nat /\ first \in Nat
          /\ i \in Nat /\ p \in Nat /\ h < c /\ z + n <= c /\ i >= 1 /\ i <= z
          /\ tail = (IF h + z < c THEN h + z ELSE h + z - c)
          /\ first = (IF n < c - tail THEN n ELSE c - tail)
          /\ p = (IF h + i <= c THEN h + i ELSE h + i - c)
      BY <1>1, <1>2, <1>7, <2>2
    <3> HIDE DEF h, z
    <3>2. CASE h + z < c /\ n < c - tail
      BY <3>1, <3>2
    <3>3. CASE h + z < c /\ ~(n < c - tail)
      BY <3>1, <3>3
    <3>4. CASE ~(h + z < c)
      BY <3>1, <3>4
    <3> QED
      BY <3>2, <3>3, <3>4
  <2>4. Cell(p) = r.cells[p]
    BY <1>10, <2>2, <2>3
  <2> QED
    BY <1>5, <2>2, <2>4 DEF At, p
<1>17. ASSUME NEW i \in 1 .. n PROVE At(q, r.size + i) = b[i]
  <2> DEFINE p == Place(q, r.size + i)
  <2>1. r.size + i \in 1 .. c
    BY <1>1
  <2>2. p = (IF r.head + (r.size + i) <= c THEN r.head + (r.size + i)
             ELSE r.head + (r.size + i) - c) /\ p \in 1 .. c
    BY <1>15, <2>1
  <2> HIDE DEF p
  <2>3. \/ p > tail /\ p <= tail + first /\ p - tail = i
        \/ ~(p > tail /\ p <= tail + first) /\ p <= n - first /\ first + p = i
    <3> DEFINE h == r.head
               z == r.size
    <3>1. /\ c \in Nat /\ h \in Nat /\ z \in Nat /\ n \in Nat /\ tail \in Nat /\ first \in Nat
          /\ i \in Nat /\ p \in Nat /\ h < c /\ z + n <= c /\ i >= 1 /\ i <= n
          /\ tail = (IF h + z < c THEN h + z ELSE h + z - c)
          /\ first = (IF n < c - tail THEN n ELSE c - tail)
          /\ p = (IF h + (z + i) <= c THEN h + (z + i) ELSE h + (z + i) - c)
      BY <1>1, <1>2, <1>7, <2>2
    <3> HIDE DEF h, z
    <3>2. CASE h + z < c /\ n < c - tail
      BY <3>1, <3>2
    <3>3. CASE h + z < c /\ ~(n < c - tail)
      BY <3>1, <3>3
    <3>4. CASE ~(h + z < c)
      BY <3>1, <3>4
    <3> QED
      BY <3>2, <3>3, <3>4
  <2>4. Cell(p) = b[i]
    BY <1>10, <2>2, <2>3
  <2> QED
    BY <1>5, <2>2, <2>4 DEF At, p
<1> QED
  BY <1>6, <1>13, <1>14, <1>16, <1>17 DEF q, c, n

\* A larger array holds the same bytes.
LEMMA EnsureKeeps ==
    ASSUME NEW r, RingOk(r), NEW n \in Nat
    PROVE  LET q == EnsureCapacity(r, n)
           IN  /\ RingOk(q) /\ Cap(q) = (IF n <= Cap(r) THEN Cap(r) ELSE n) /\ q.size = r.size
               /\ \A i \in 1 .. r.size : At(q, i) = At(r, i)
<1> DEFINE q == EnsureCapacity(r, n)
           s == [i \in 1 .. n |-> IF i <= r.size THEN Contents(r)[i] ELSE 0]
<1>1. CASE n <= Cap(r)
  BY <1>1 DEF EnsureCapacity
<1>2. CASE ~(n <= Cap(r))
  <2>1. q = [cells |-> s, head |-> 0, size |-> r.size]
    BY <1>2 DEF EnsureCapacity
  <2>2. r.size \in Nat /\ r.size <= Cap(r) /\ Cap(r) \in Nat /\ Cap(r) # 0 /\ n > Cap(r)
    BY <1>2, RingFacts DEF RingOk
  <2>3. 0 \in Byte
    BY ParserAssumption DEF Byte
  <2>4. \A i \in 1 .. r.size : Contents(r)[i] = At(r, i) /\ Contents(r)[i] \in Byte
    BY ContentsIs, ElementOfSeq
  <2>5. \A i \in 1 .. n : (IF i <= r.size THEN Contents(r)[i] ELSE 0) \in Byte
    BY <2>2, <2>3, <2>4
  <2>6. s \in Seq(Byte) /\ Len(s) = n
    BY <2>5
  <2>7. \A i \in 1 .. r.size : s[i] = At(r, i)
    BY <2>2, <2>4
  <2> HIDE DEF s, q
  <2>8. RingOk(q) /\ Cap(q) = n /\ q.size = r.size /\ q.cells = s /\ q.head = 0
    BY <2>1, <2>2, <2>6 DEF RingOk, Cap
  <2>9. ASSUME NEW i \in 1 .. r.size PROVE At(q, i) = At(r, i)
    <3>1. i \in 1 .. Cap(q)
      BY <2>2, <2>8
    <3>2. Place(q, i) = i
      BY <2>2, <2>8, <3>1, PlaceIs
    <3> QED
      BY <2>7, <2>8, <3>2 DEF At
  <2> QED
    BY <1>2, <2>8, <2>9 DEF q
<1> QED
  BY <1>1, <1>2
-----------------------------------------------------------------------------
(* Receiving                                                                *)

\* A piece of a sequence.
LEMMA PieceOf ==
    ASSUME NEW D, NEW s \in Seq(D), NEW m \in Nat, NEW n \in Nat,
           m >= 1, n <= Len(s), m <= n + 1
    PROVE  /\ SubSeq(s, m, n) \in Seq(D) /\ Len(SubSeq(s, m, n)) = n - m + 1
           /\ \A i \in 1 .. n - m + 1 : SubSeq(s, m, n)[i] = s[m + i - 1]
<1>1. Len(s) \in Nat
  BY LenProperties
<1>2. \A i \in m .. n : s[i] \in D
  BY <1>1, ElementOfSeq
<1>3. n - m + 1 = IF m <= n THEN n - m + 1 ELSE 0
  OBVIOUS
<1> QED
  BY <1>2, <1>3, SubSeqProperties

\* What the ring holds is the end of the stream s.
EndOf(r, s) ==
    /\ r.size <= Len(s)
    /\ \A i \in 1 .. r.size : At(r, i) = s[Len(s) - r.size + i]

\* The bytes of b that the ring takes.
Taken(r, b, dropOldest) ==
    IF dropOldest THEN b ELSE SubSeq(b, 1, Len(b) - Dropped(r, b, dropOldest))

\* Without drop_oldest: what fits is appended.
LEMMA RefusesTheEnd ==
    ASSUME NEW r, RingOk(r), NEW s \in Seq(Byte), EndOf(r, s), NEW b \in Seq(Byte)
    PROVE  LET q == AppendBytes(r, b, FALSE)
               t == s \o Taken(r, b, FALSE)
           IN  /\ RingOk(q) /\ Cap(q) = Cap(r) /\ Taken(r, b, FALSE) \in Seq(Byte)
               /\ Dropped(r, b, FALSE) \in Nat
               /\ q.size + Dropped(r, b, FALSE) = r.size + Len(b)
               /\ EndOf(q, t) /\ Len(t) - q.size = Len(s) - r.size
<1> DEFINE c == Cap(r)
           z == r.size
           n == Len(b)
           k == Least(c - z, n)
           lost == Dropped(r, b, FALSE)
           a == SubSeq(b, 1, k)
           q == AppendContiguous(r, a)
           t == s \o a
           L == Len(s)
<1>1. c \in Nat /\ z \in Nat /\ n \in Nat /\ z <= c /\ L \in Nat /\ z <= L
  BY RingFacts, LenProperties DEF RingOk, EndOf
<1>2. lost = Greatest(0, n - (c - z))
  BY DEF Dropped
<1>3. q = AppendBytes(r, b, FALSE)
  BY DEF AppendBytes
<1>14. \A i \in 1 .. z : At(r, i) = s[L - z + i]
  BY DEF EndOf
<1> HIDE DEF c, z, n, lost, L
<1>4. k \in Nat /\ k <= n /\ lost \in Nat /\ n - lost = k /\ z + k <= c
  BY <1>1, <1>2 DEF Least, Greatest
<1>5. a = Taken(r, b, FALSE)
  BY <1>4 DEF Taken, lost, n
<1> HIDE DEF k
<1>6. a \in Seq(Byte) /\ Len(a) = k
  <2>1. k <= Len(b) /\ 1 <= k + 1 /\ k - 1 + 1 = k
    BY <1>1, <1>4 DEF n
  <2> QED
    BY <1>4, <2>1, PieceOf
<1> HIDE DEF a
<1>7. /\ RingOk(q) /\ Cap(q) = c /\ q.size = z + k
      /\ \A i \in 1 .. z : At(q, i) = At(r, i)
      /\ \A i \in 1 .. k : At(q, z + i) = a[i]
  BY <1>4, <1>6, AppendAdds DEF c, z
<1> HIDE DEF q
<1>8. t \in Seq(Byte) /\ Len(t) = L + k
      /\ \A i \in 1 .. L + k : t[i] = IF i <= L THEN s[i] ELSE a[i - L]
  BY <1>6, ConcatProperties DEF L
<1> HIDE DEF t
<1>9. ASSUME NEW i \in 1 .. z + k PROVE At(q, i) = t[(L + k) - (z + k) + i]
  <2>1. CASE i <= z
    <3>1. i \in 1 .. z /\ L - z + i \in 1 .. L + k /\ L - z + i <= L
          /\ (L + k) - (z + k) + i = L - z + i
      BY <1>1, <1>4, <2>1
    <3>2. At(q, i) = s[L - z + i]
      BY <1>7, <1>14, <3>1
    <3>3. t[L - z + i] = s[L - z + i]
      BY <1>8, <3>1
    <3> QED
      BY <3>1, <3>2, <3>3
  <2>2. CASE i > z
    <3> DEFINE j == i - z
    <3>1. j \in 1 .. k /\ z + j = i /\ L + j \in 1 .. L + k /\ ~(L + j <= L)
          /\ (L + k) - (z + k) + i = L + j /\ (L + j) - L = j
      BY <1>1, <1>4, <2>2
    <3> HIDE DEF j
    <3>2. At(q, z + j) = a[j]
      BY <1>7, <3>1
    <3>3. t[L + j] = a[j]
      BY <1>8, <3>1
    <3> QED
      BY <3>1, <3>2, <3>3
  <2> QED
    BY <1>1, <1>4, <2>1, <2>2
<1>10. z + k <= L + k
  BY <1>1, <1>4
<1>11. EndOf(q, t)
  BY <1>7, <1>8, <1>9, <1>10 DEF EndOf
<1>12. q.size + lost = z + n /\ Len(t) - q.size = L - z
  BY <1>1, <1>4, <1>7, <1>8
<1> QED
  BY <1>3, <1>4, <1>5, <1>6, <1>7, <1>11, <1>12 DEF c, z, n, lost, t, L

\* A ring that is emptied.
LEMMA Emptied ==
    ASSUME NEW r, RingOk(r), NEW e, e = [r EXCEPT !.head = 0, !.size = 0]
    PROVE  /\ e.cells = r.cells /\ e.head = 0 /\ e.size = 0
           /\ e = [cells |-> e.cells, head |-> e.head, size |-> e.size]
<1>1. r \in [cells : Seq(Byte), head : Nat, size : Nat]
  BY DEF RingOk
<1> QED
  BY <1>1

\* With drop_oldest: the oldest bytes go.
LEMMA DropsTheOldest ==
    ASSUME NEW r, RingOk(r), NEW s \in Seq(Byte), EndOf(r, s), NEW b \in Seq(Byte)
    PROVE  LET q == AppendBytes(r, b, TRUE)
               t == s \o b
           IN  /\ RingOk(q) /\ Cap(q) = Cap(r) /\ Dropped(r, b, TRUE) \in Nat
               /\ q.size + Dropped(r, b, TRUE) = r.size + Len(b)
               /\ EndOf(q, t) /\ Len(t) - q.size >= Len(s) - r.size
<1> DEFINE c == Cap(r)
           z == r.size
           n == Len(b)
           lost == Dropped(r, b, TRUE)
           q == AppendBytes(r, b, TRUE)
           t == s \o b
           L == Len(s)
<1>1. c \in Nat /\ c # 0 /\ z \in Nat /\ n \in Nat /\ z <= c /\ L \in Nat /\ z <= L
  BY RingFacts, LenProperties DEF RingOk, EndOf
<1>2. lost = IF n >= c THEN n - c + z ELSE Greatest(0, n - (c - z))
  BY DEF Dropped
<1>3. t \in Seq(Byte) /\ Len(t) = L + n
      /\ \A i \in 1 .. L + n : t[i] = IF i <= L THEN s[i] ELSE b[i - L]
  BY ConcatProperties
<1>4. \A i \in 1 .. z : At(r, i) = s[L - z + i]
  BY DEF EndOf
<1>5. CASE n >= c
  <2> DEFINE e == [r EXCEPT !.head = 0, !.size = 0]
             a == SubSeq(b, n - c + 1, n)
  <2>1. q = AppendContiguous(e, a)
    BY <1>5 DEF AppendBytes
  <2>2. e.cells = r.cells /\ e.head = 0 /\ e.size = 0
        /\ e = [cells |-> e.cells, head |-> e.head, size |-> e.size]
    <3> HIDE DEF e
    <3>1. e = [r EXCEPT !.head = 0, !.size = 0]
      BY DEF e
    <3> QED
      BY <3>1, Emptied
  <2>3. r.cells \in Seq(Byte)
    BY RingFacts
  <2> HIDE DEF c, z, n, lost, q, t, L, e
  <2>4. Cap(e) = c
    BY <2>2 DEF Cap, c
  <2>5. RingOk(e)
    BY <1>1, <2>2, <2>3, <2>4 DEF RingOk
  <2>6. a \in Seq(Byte) /\ Len(a) = c /\ \A i \in 1 .. c : a[i] = b[n - c + i]
    <3> DEFINE m == n - c + 1
    <3>1. m \in Nat /\ m >= 1 /\ n <= Len(b) /\ m <= n + 1 /\ n - m + 1 = c /\ n \in Nat
      BY <1>1, <1>5 DEF n
    <3>2. \A i \in 1 .. c : m + i - 1 = n - c + i
      BY <1>1
    <3> HIDE DEF m
    <3>3. SubSeq(b, m, n) \in Seq(Byte) /\ Len(SubSeq(b, m, n)) = n - m + 1
          /\ \A i \in 1 .. n - m + 1 : SubSeq(b, m, n)[i] = b[m + i - 1]
      BY <3>1, PieceOf
    <3>4. a = SubSeq(b, m, n)
      BY DEF m
    <3> QED
      BY <3>1, <3>2, <3>3, <3>4
  <2> HIDE DEF a
  <2>7. /\ RingOk(q) /\ Cap(q) = c /\ q.size = 0 + c
        /\ \A i \in 1 .. c : At(q, 0 + i) = a[i]
    <3>1. e.size + Len(a) <= Cap(e)
      BY <1>1, <2>2, <2>4, <2>6
    <3> QED
      BY <2>1, <2>2, <2>4, <2>5, <2>6, <3>1, AppendAdds
  <2>8. q.size = c /\ \A i \in 1 .. c : At(q, i) = a[i]
    BY <1>1, <2>7
  <2>9. ASSUME NEW i \in 1 .. c PROVE At(q, i) = t[(L + n) - c + i]
    <3> DEFINE j == (L + n) - c + i
    <3>1. j \in 1 .. L + n /\ ~(j <= L) /\ j - L = n - c + i
      BY <1>1, <1>5
    <3> HIDE DEF j
    <3>2. t[j] = b[n - c + i]
      BY <1>3, <3>1
    <3> QED
      BY <2>6, <2>8, <3>2 DEF j
  <2>10. EndOf(q, t)
    <3>1. q.size <= Len(t)
      BY <1>1, <1>3, <1>5, <2>8
    <3> QED
      BY <1>3, <2>8, <2>9, <3>1 DEF EndOf
  <2>11. lost \in Nat /\ q.size + lost = z + n /\ Len(t) - q.size >= L - z
    BY <1>1, <1>2, <1>3, <1>5, <2>8
  <2> QED
    BY <2>7, <2>10, <2>11 DEF c, z, n, lost, q, t, L
<1>6. CASE ~(n >= c)
  <2> DEFINE d == DiscardFront(r, lost)
  <2>1. lost = Greatest(0, n - (c - z))
    BY <1>2, <1>6
  <2>2. q = AppendContiguous(d, b)
    BY <1>6, <2>1 DEF AppendBytes
  <2> HIDE DEF c, z, n, lost, q, t, L
  <2>3. lost \in Nat /\ lost <= z /\ z - lost + n <= c /\ lost = (IF 0 > n - (c - z) THEN 0 ELSE n - (c - z))
    BY <1>1, <1>6, <2>1 DEF Greatest
  <2>4. /\ RingOk(d) /\ Cap(d) = c /\ d.size = z - lost
        /\ \A i \in 1 .. d.size : At(d, i) = At(r, lost + i)
    BY <2>3, DiscardTakes DEF c, z
  <2> HIDE DEF d
  <2>5. /\ RingOk(q) /\ Cap(q) = c /\ q.size = d.size + n
        /\ \A i \in 1 .. d.size : At(q, i) = At(d, i)
        /\ \A i \in 1 .. n : At(q, d.size + i) = b[i]
    <3>1. d.size + Len(b) <= Cap(d)
      BY <1>1, <2>3, <2>4 DEF n
    <3> QED
      BY <2>2, <2>4, <3>1, AppendAdds DEF n
  <2> DEFINE y == d.size
  <2>6. y = z - lost /\ y \in Nat
    BY <1>1, <2>3, <2>4
  <2> HIDE DEF y
  <2>7. ASSUME NEW i \in 1 .. y + n PROVE At(q, i) = t[(L + n) - (y + n) + i]
    <3>1. CASE i <= y
      <4> DEFINE j == (L + n) - (y + n) + i
      <4>1. i \in 1 .. y /\ j \in 1 .. L + n /\ j <= L /\ lost + i \in 1 .. z
            /\ j = L - z + (lost + i)
        BY <1>1, <2>3, <2>6, <3>1
      <4> HIDE DEF j
      <4>2. At(q, i) = At(r, lost + i)
        BY <2>4, <2>5, <4>1 DEF y
      <4>3. At(r, lost + i) = s[L - z + (lost + i)]
        BY <1>4, <4>1
      <4>4. t[j] = s[j]
        BY <1>3, <4>1
      <4> QED
        BY <4>1, <4>2, <4>3, <4>4 DEF j
    <3>2. CASE i > y
      <4> DEFINE j == i - y
      <4>1. j \in 1 .. n /\ y + j = i /\ L + j \in 1 .. L + n /\ ~(L + j <= L)
            /\ (L + n) - (y + n) + i = L + j /\ (L + j) - L = j
        <5>1. i \in Nat /\ y \in Nat /\ n \in Nat /\ L \in Nat /\ i <= y + n /\ i > y
          BY <1>1, <2>6, <3>2
        <5>2. j \in 1 .. n
          BY <5>1
        <5> QED
          BY <5>1, <5>2
      <4> HIDE DEF j
      <4>2. At(q, y + j) = b[j]
        BY <2>5, <4>1 DEF y
      <4>3. t[L + j] = b[j]
        BY <1>3, <4>1
      <4> QED
        BY <4>1, <4>2, <4>3
    <3> QED
      BY <1>1, <2>6, <3>1, <3>2
  <2>8. q.size = y + n
    BY <2>5 DEF y
  <2>9. EndOf(q, t)
    <3>1. y + n <= L + n
      BY <1>1, <2>3, <2>6
    <3> QED
      BY <1>3, <2>7, <2>8, <3>1 DEF EndOf
  <2>10. q.size + lost = z + n /\ Len(t) - q.size >= L - z
    BY <1>1, <1>3, <2>3, <2>6, <2>8
  <2> QED
    BY <2>3, <2>5, <2>9, <2>10 DEF c, z, n, lost, q, t, L
<1> QED
  BY <1>5, <1>6
-----------------------------------------------------------------------------
(* What the schema fixes                                                    *)

\* Naturals multiply to naturals.
LEMMA Product == \A a, b \in Nat : a * b \in Nat
  OBVIOUS

\* What the loader has checked of the schema in use.
LEMMA FrameFacts ==
    ASSUME schema \in Schemas
    PROVE  /\ Frames # {} /\ Frames \subseteq Nat /\ Len(schema.frames) \in Nat
           /\ Frames = 1 .. Len(schema.frames)
           /\ schema.capacity \in Nat /\ schema.capacity # 0
           /\ schema.maxCapacity \in Nat /\ schema.maxCapacity >= schema.capacity
           /\ schema.dropOldest \in BOOLEAN
           /\ \A i \in Frames : FrameOk(schema.frames[i])
           /\ \A i, j \in Frames : schema.frames[i].name = schema.frames[j].name => i = j
<1>1. SchemaOk(schema)
  BY ParserAssumption
<1>2. Len(schema.frames) \in Nat \ {0}
  BY <1>1 DEF SchemaOk
<1>3. Frames = 1 .. Len(schema.frames)
  BY DEF Frames
<1>4. Frames # {} /\ Frames \subseteq Nat
  <2> DEFINE n == Len(schema.frames)
  <2>1. n \in Nat /\ n # 0 /\ Frames = 1 .. n
    BY <1>2, <1>3
  <2> HIDE DEF n
  <2>2. 1 \in Frames
    BY <2>1
  <2> QED
    BY <2>1, <2>2
<1> QED
  BY <1>1, <1>2, <1>3, <1>4 DEF SchemaOk

\* A header has a byte at least.
LEMMA HeaderLength ==
    ASSUME NEW f, FrameOk(f)
    PROVE  Len(f.header) \in Nat /\ Len(f.header) # 0
  BY EmptySeq DEF FrameOk

\* Headers have a longest one.
LEMMA MaxHeaderIs ==
    ASSUME schema \in Schemas
    PROVE  /\ MaxHeader \in Nat /\ MaxHeader # 0
           /\ \E i \in Frames : MaxHeader = Len(schema.frames[i].header)
           /\ \A i \in Frames : Len(schema.frames[i].header) <= MaxHeader
<1> DEFINE N == Len(schema.frames)
           H(i) == Len(schema.frames[i].header)
           Top(i, k) == \A j \in 1 .. k : H(j) <= H(i)
           S == {k \in Nat : k = 0 \/ k > N \/ \E i \in 1 .. k : Top(i, k)}
           T == {H(i) : i \in Frames}
<1>1. N \in Nat /\ N # 0 /\ Frames = 1 .. N
  BY FrameFacts
<1>2. \A i \in 1 .. N : H(i) \in Nat /\ H(i) # 0
  BY <1>1, FrameFacts, HeaderLength
<1> HIDE DEF N, H
<1>3. 0 \in S
  OBVIOUS
<1>4. ASSUME NEW k \in S PROVE k + 1 \in S
  <2>1. k \in Nat /\ k + 1 \in Nat
    OBVIOUS
  <2>2. CASE k + 1 > N
    BY <2>1, <2>2
  <2>3. CASE ~(k + 1 > N) /\ k = 0
    <3>1. 1 \in 1 .. N
      BY <1>1
    <3>2. H(1) \in Nat
      BY <1>2, <3>1
    <3>3. Top(1, 1)
      BY <3>2
    <3> QED
      BY <2>1, <2>3, <3>3
  <2>4. CASE ~(k + 1 > N) /\ k # 0
    <3>1. PICK i \in 1 .. k : Top(i, k)
      BY <1>1, <2>1, <2>4
    <3>2. i \in 1 .. N /\ k + 1 \in 1 .. N /\ \A j \in 1 .. k : j \in 1 .. N
      BY <1>1, <2>1, <2>4
    <3>3. H(i) \in Nat /\ H(k + 1) \in Nat /\ \A j \in 1 .. k : H(j) \in Nat
      BY <1>2, <3>2
    <3>4. \A j \in 1 .. k + 1 : j \in 1 .. k \/ j = k + 1
      BY <2>1
    <3>5. CASE H(k + 1) <= H(i)
      <4>1. Top(i, k + 1)
        BY <3>1, <3>4, <3>5
      <4> QED
        BY <2>1, <4>1
    <3>6. CASE ~(H(k + 1) <= H(i))
      <4>1. \A j \in 1 .. k : H(j) <= H(k + 1)
        BY <3>1, <3>3, <3>6
      <4>2. Top(k + 1, k + 1)
        BY <3>3, <3>4, <4>1
      <4>3. k + 1 \in 1 .. k + 1
        BY <2>1
      <4> QED
        BY <2>1, <4>2, <4>3
    <3> QED
      BY <3>5, <3>6
  <2> QED
    BY <2>2, <2>3, <2>4
<1>5. N \in S
  <2>1. S \in SUBSET Nat
    OBVIOUS
  <2> HIDE DEF S
  <2> QED
    BY <1>1, <1>3, <1>4, <2>1, NatSet
<1>6. PICK i \in 1 .. N : Top(i, N)
  BY <1>1, <1>5
<1>7. MaxHeader = CHOOSE n \in T : \A j \in Frames : H(j) <= n
  BY DEF MaxHeader, H
<1>8. H(i) \in T /\ \A j \in Frames : H(j) <= H(i)
  BY <1>1, <1>6
<1> HIDE DEF T
<1>9. MaxHeader \in T /\ \A j \in Frames : H(j) <= MaxHeader
  BY <1>7, <1>8
<1>10. PICK k \in Frames : MaxHeader = H(k)
  BY <1>9 DEF T
<1> QED
  BY <1>1, <1>2, <1>9, <1>10 DEF H

\* What a definition fixes of a length is a number, and the largest one at most.
LEMMA MinLengthType ==
    ASSUME NEW f, FrameOk(f)
    PROVE  MinLength(f) \in Int /\ SizeMax \in Int /\ MinLength(f) <= SizeMax
<1> DEFINE C(k) == IF f.fields[k].count.op = "fixed"
                   THEN f.fields[k].count.value * f.fields[k].width ELSE 0
           N == Len(f.fields)
           s == [k \in 1 .. N |-> C(k)]
           declared == CASE f.length = "size" -> f.size
                         [] f.length = "len" -> Greatest(Len(f.header), f.offset + f.width)
                         [] OTHER -> Len(f.header)
<1>1. N \in Nat /\ \A k \in 1 .. N : FieldOk(f.fields[k])
  BY DEF FrameOk
<1>2. ASSUME NEW k \in 1 .. N PROVE C(k) \in Nat
  <2>1. FieldOk(f.fields[k])
    BY <1>1
  <2>2. f.fields[k].count.op = "fixed" => f.fields[k].count.value \in Nat
    BY <2>1 DEF FieldOk
  <2>3. f.fields[k].width \in Nat
    BY <2>1 DEF FieldOk
  <2>4. CASE f.fields[k].count.op = "fixed"
    BY <2>2, <2>3, <2>4, Product
  <2> QED
    BY <2>4
<1> HIDE DEF C, N
<1>3. s \in Seq(Nat)
  BY <1>1, <1>2
<1> HIDE DEF s
<1>4. SumOf(s) \in Nat
  BY <1>3, SumType
<1>5. Len(f.header) \in Nat
  BY HeaderLength
<1>6. declared \in Int
  <2>1. CASE f.length = "size"
    BY <2>1 DEF FrameOk
  <2>2. CASE f.length = "len"
    <3>1. f.offset \in Nat /\ f.width \in Nat
      BY <2>2 DEF FrameOk
    <3>2. Greatest(Len(f.header), f.offset + f.width) \in Int
      BY <1>5, <3>1 DEF Greatest
    <3> QED
      BY <2>2, <3>2
  <2>3. CASE f.length \notin {"size", "len"}
    BY <1>5, <2>3
  <2> QED
    BY <2>1, <2>2, <2>3
<1> HIDE DEF declared
<1>7. SizeMax \in Int
  BY ParserAssumption DEF SizeMax
<1>8. MinLength(f) = Least(SizeMax, Greatest(declared, Len(f.header) + SumOf(s)))
  BY DEF MinLength, s, C, N, declared
<1> DEFINE g == Greatest(declared, Len(f.header) + SumOf(s))
<1>9. g \in Int
  BY <1>4, <1>5, <1>6 DEF Greatest
<1> HIDE DEF g
<1>10. MinLength(f) = Least(SizeMax, g)
  BY <1>8 DEF g
<1> QED
  BY <1>7, <1>9, <1>10 DEF Least

\* Of the frames at a place there is a first one.
LEMMA FirstIn ==
    ASSUME schema \in Schemas, NEW S \in SUBSET Frames, S # {}
    PROVE  First(S) \in S
<1> DEFINE M(i) == MinLength(schema.frames[i])
           T == {M(i) : i \in S}
<1>1. \A i \in S : M(i) \in Int /\ M(i) <= SizeMax
  BY FrameFacts, MinLengthType
<1>2. SizeMax \in Int
  BY FrameFacts, MinLengthType
<1> HIDE DEF M
<1>3. PICK m \in T : \A j \in T : j <= m
  <2>1. T \in SUBSET Int /\ T # {} /\ \A j \in T : j <= SizeMax
    BY <1>1
  <2> HIDE DEF T
  <2> QED
    BY <1>2, <2>1, LargestExists
<1> DEFINE U == {i \in S : M(i) = m}
<1>4. U \in SUBSET Nat /\ U # {}
  BY <1>3, FrameFacts
<1>5. PICK k \in U : \A j \in U : k <= j
  <2> HIDE DEF U
  <2> QED
    BY <1>4, LeastExists
<1>6. ASSUME NEW j \in S \ {k} PROVE Before(k, j)
  <2>1. M(k) = m /\ M(k) \in Int /\ M(j) \in Int /\ M(j) <= M(k) /\ k \in Nat /\ j \in Nat
    BY <1>1, <1>3, <1>4, <1>5, FrameFacts
  <2>2. M(j) = M(k) => k < j
    BY <1>5, <2>1
  <2>3. M(k) > M(j) \/ (M(k) = M(j) /\ k < j)
    BY <2>1, <2>2
  <2> QED
    BY <2>3 DEF Before, M
<1>7. k \in S /\ \A j \in S \ {k} : Before(k, j)
  BY <1>5, <1>6
<1> QED
  BY <1>7 DEF First
-----------------------------------------------------------------------------
(* One frame at the front of a window                                       *)

Names == {schema.frames[i].name : i \in Frames}
FieldNames == UNION {{schema.frames[i].fields[k].name : k \in 1 .. Len(schema.frames[i].fields)} :
                     i \in Frames}

\* Fields decoded that end where the bytes of a frame end that they may use.
Decodings(limit) ==
    {d \in [name : FieldNames, start : Nat, count : Nat, width : Nat] :
        d.start + d.count * d.width <= limit}

AccOk(acc, limit) ==
    acc \in [cursor : Nat, parsed : {acc.parsed}, decoded : Seq(Decodings(limit)),
             failed : BOOLEAN]

\* The empty sequence is one of every set.
LEMMA SeqEmpty == \A D : <<>> \in Seq(D)
  OBVIOUS

\* One field more stays before the check bytes, whatever its count computed.
LEMMA DecodeFieldOk ==
    ASSUME schema \in Schemas, NEW i \in Frames, NEW k \in 1 .. Len(schema.frames[i].fields),
           NEW w, NEW n \in Nat, schema.frames[i].crc <= n, NEW acc,
           AccOk(acc, n - schema.frames[i].crc)
    PROVE  AccOk(DecodeField(schema.frames[i], w, n, acc, schema.frames[i].fields[k]),
                 n - schema.frames[i].crc)
<1> DEFINE f == schema.frames[i]
           field == f.fields[k]
           limit == n - f.crc
           start == IF field.offset = None THEN acc.cursor ELSE field.offset
           count == CountOf(field.count, [parsed |-> acc.parsed, length |-> n,
                                          readable |-> limit, start |-> start,
                                          width |-> field.width])
           end == FieldEnd(start, count, field.width)
           scalar == IF field.integer /\ count = 1 THEN Digits(w, start, field.width) ELSE None
           q == DecodeField(f, w, n, acc, field)
           d == [name |-> field.name, start |-> start, count |-> count, width |-> field.width]
<1>1. FrameOk(f)
  BY FrameFacts
<1>2. FieldOk(field)
  BY <1>1 DEF FrameOk
<1>3. field.width \in Nat /\ field.offset \in Nat \cup {None}
  BY <1>2 DEF FieldOk
<1>4. f.crc \in Nat /\ limit \in Nat
  BY <1>1 DEF FrameOk
<1>5. acc.cursor \in Nat /\ acc.decoded \in Seq(Decodings(limit)) /\ acc.failed \in BOOLEAN
  BY DEF AccOk
<1>6. start \in Nat
  BY <1>3, <1>5
<1>7. field.name \in FieldNames
  BY DEF FieldNames
<1>8. q = IF acc.failed THEN acc
          ELSE IF count \notin Nat \/ end = None THEN [acc EXCEPT !.failed = TRUE]
          ELSE IF start > limit \/ end > limit
               THEN [acc EXCEPT !.failed = f.length # "profile"]
          ELSE [acc EXCEPT !.cursor = Greatest(@, end),
                           !.parsed = (field.name :> scalar) @@ @,
                           !.decoded = Append(@, d)]
  BY DEF DecodeField, Placed
<1> HIDE DEF field, start, count, end, scalar, q, d
<1>9. CASE acc.failed
  BY <1>8, <1>9 DEF q, field
<1>10. CASE ~acc.failed /\ (count \notin Nat \/ end = None)
  <2>1. q = [acc EXCEPT !.failed = TRUE]
    BY <1>8, <1>10
  <2>2. q \in [cursor : Nat, parsed : {acc.parsed}, decoded : Seq(Decodings(limit)), failed : BOOLEAN]
    BY <2>1 DEF AccOk
  <2>3. q.parsed = acc.parsed
    BY <2>2
  <2> QED
    BY <2>2, <2>3 DEF AccOk, q, field
<1>11. CASE ~acc.failed /\ ~(count \notin Nat \/ end = None) /\ (start > limit \/ end > limit)
  <2> DEFINE v == f.length # "profile"
  <2>1. q = [acc EXCEPT !.failed = v]
    BY <1>8, <1>11
  <2>0. v \in BOOLEAN
    OBVIOUS
  <2> HIDE DEF v
  <2>2. q \in [cursor : Nat, parsed : {acc.parsed}, decoded : Seq(Decodings(limit)), failed : BOOLEAN]
    BY <2>0, <2>1 DEF AccOk
  <2>3. q.parsed = acc.parsed
    BY <2>2
  <2> QED
    BY <2>2, <2>3 DEF AccOk, q, field
<1>12. CASE ~acc.failed /\ ~(count \notin Nat \/ end = None) /\ ~(start > limit \/ end > limit)
  <2> DEFINE pp == (field.name :> scalar) @@ acc.parsed
             cc == Greatest(acc.cursor, end)
             dd == Append(acc.decoded, d)
  <2>1. q = [acc EXCEPT !.cursor = cc, !.parsed = pp, !.decoded = dd]
    BY <1>8, <1>12
  <2>2. end = start + count * field.width
    BY <1>12 DEF FieldEnd, end
  <2>3. count * field.width \in Nat
    BY <1>3, <1>12, Product
  <2>4. end \in Nat /\ end <= limit
    BY <1>4, <1>6, <1>12, <2>2, <2>3, SMTT(20)
  <2>5. d \in Decodings(limit)
    BY <1>3, <1>6, <1>7, <1>12, <2>2, <2>4 DEF Decodings, d
  <2>6. dd \in Seq(Decodings(limit))
    BY <1>5, <2>5, AppendProperties
  <2>7. cc \in Nat
    BY <1>5, <2>4 DEF Greatest
  <2> HIDE DEF cc, pp, dd
  <2>8. q \in [cursor : Nat, parsed : {pp}, decoded : Seq(Decodings(limit)), failed : BOOLEAN]
    BY <2>1, <2>6, <2>7 DEF AccOk
  <2>9. q.parsed = pp
    BY <2>8
  <2> QED
    BY <2>8, <2>9 DEF AccOk, q, field
<1> QED
  BY <1>9, <1>10, <1>11, <1>12

\* The recursive function of DecodeFields goes from field to field.
LEMMA DecodeUnfolds ==
    ASSUME NEW f, NEW w, NEW n, Len(f.fields) \in Nat
    PROVE  \E c : /\ DecodeFields(f, w, n) = c[Len(f.fields)] /\ c[0] = NothingDecoded
                  /\ \A k \in 1 .. Len(f.fields) :
                         c[k] = DecodeField(f, w, n, c[k - 1], f.fields[k])
<1> DEFINE N == Len(f.fields)
           Step(k, a) == DecodeField(f, w, n, a, f.fields[k])
           Up(h, m) == h = [k \in 0 .. m |-> IF k = 0 THEN NothingDecoded ELSE Step(k, h[k - 1])]
           S == {m \in Nat : \E h : Up(h, m)}
           c == CHOOSE h : Up(h, N)
<1>1. DecodeFields(f, w, n) = c[N]
  BY DEF DecodeFields
<1> HIDE DEF Step
<1>2. 0 \in S
  <2> DEFINE h == [k \in 0 .. 0 |-> NothingDecoded]
  <2>1. Up(h, 0)
    OBVIOUS
  <2> QED
    BY <2>1
<1>3. ASSUME NEW m \in S PROVE m + 1 \in S
  <2>1. m \in Nat /\ m + 1 \in Nat
    OBVIOUS
  <2>2. PICK h : Up(h, m)
    OBVIOUS
  <2> DEFINE g == [k \in 0 .. m + 1 |-> IF k <= m THEN h[k] ELSE Step(m + 1, h[m])]
  <2>3. ASSUME NEW k \in 0 .. m + 1
        PROVE  g[k] = IF k = 0 THEN NothingDecoded ELSE Step(k, g[k - 1])
    <3>1. CASE k = 0
      <4>1. 0 \in 0 .. m /\ 0 \in 0 .. m + 1 /\ 0 <= m
        BY <2>1
      <4>2. h[0] = NothingDecoded
        BY <2>2, <4>1
      <4> QED
        BY <3>1, <4>1, <4>2
    <3>2. CASE k # 0 /\ k <= m
      <4>1. k \in 0 .. m /\ k - 1 \in 0 .. m + 1 /\ k - 1 <= m /\ k <= m
        BY <2>1, <3>2
      <4>2. h[k] = Step(k, h[k - 1])
        BY <2>2, <3>2, <4>1
      <4>3. g[k] = h[k] /\ g[k - 1] = h[k - 1]
        BY <4>1
      <4> HIDE DEF g
      <4> QED
        BY <3>2, <4>2, <4>3
    <3>3. CASE k = m + 1
      <4>1. ~(m + 1 <= m) /\ m \in 0 .. m + 1 /\ m <= m /\ m + 1 # 0 /\ (m + 1) - 1 = m
            /\ m + 1 \in 0 .. m + 1
        BY <2>1
      <4>2. g[m + 1] = Step(m + 1, h[m]) /\ g[m] = h[m]
        BY <4>1
      <4> HIDE DEF g
      <4> QED
        BY <3>3, <4>1, <4>2
    <3> QED
      BY <2>1, <3>1, <3>2, <3>3
  <2>4. g = [k \in 0 .. m + 1 |-> g[k]]
    OBVIOUS
  <2> HIDE DEF g
  <2>5. Up(g, m + 1)
    BY <2>3, <2>4
  <2> QED
    BY <2>1, <2>5
<1>4. N \in S
  <2>1. S \in SUBSET Nat
    OBVIOUS
  <2> HIDE DEF S
  <2>2. S = Nat
    BY <1>2, <1>3, <2>1, NatSet
  <2> QED
    BY <2>2
<1>5. Up(c, N)
  BY <1>4
<1> HIDE DEF c
<1>6. c[0] = NothingDecoded
  <2>1. 0 \in 0 .. N
    OBVIOUS
  <2> QED
    BY <1>5, <2>1
<1>7. ASSUME NEW k \in 1 .. N PROVE c[k] = Step(k, c[k - 1])
  <2>1. k \in 0 .. N /\ k # 0
    OBVIOUS
  <2> QED
    BY <1>5, <2>1
<1> QED
  BY <1>1, <1>6, <1>7 DEF Step

\* All fields of a frame end before its check bytes.
LEMMA DecodeFieldsOk ==
    ASSUME schema \in Schemas, NEW i \in Frames, NEW w, NEW n \in Nat, schema.frames[i].crc <= n
    PROVE  AccOk(DecodeFields(schema.frames[i], w, n), n - schema.frames[i].crc)
<1> DEFINE f == schema.frames[i]
           limit == n - f.crc
           N == Len(f.fields)
<1>1. FrameOk(f)
  BY FrameFacts
<1>2. N \in Nat
  BY <1>1 DEF FrameOk
<1>3. PICK c : /\ DecodeFields(f, w, n) = c[N] /\ c[0] = NothingDecoded
               /\ \A k \in 1 .. N : c[k] = DecodeField(f, w, n, c[k - 1], f.fields[k])
  BY <1>2, DecodeUnfolds
<1> DEFINE S == {k \in Nat : k <= N => AccOk(c[k], limit)}
<1>4. 0 \in S
  <2>1. AccOk(NothingDecoded, limit)
    BY SeqEmpty DEF AccOk, NothingDecoded
  <2> QED
    BY <1>3, <2>1
<1>5. ASSUME NEW k \in S PROVE k + 1 \in S
  <2>1. k \in Nat /\ k + 1 \in Nat
    OBVIOUS
  <2> SUFFICES ASSUME k + 1 <= N PROVE AccOk(c[k + 1], limit)
    BY <2>1
  <2>2. k <= N /\ k + 1 \in 1 .. N /\ (k + 1) - 1 = k
    BY <1>2, <2>1
  <2>3. AccOk(c[k], limit)
    BY <2>2
  <2>4. c[k + 1] = DecodeField(f, w, n, c[k], f.fields[k + 1])
    BY <1>3, <2>2
  <2> QED
    BY <2>2, <2>3, <2>4, DecodeFieldOk
<1>6. N \in S
  <2>1. S \in SUBSET Nat
    OBVIOUS
  <2> HIDE DEF S
  <2> QED
    BY <1>2, <1>4, <1>5, <2>1, NatSet
<1> QED
  BY <1>2, <1>3, <1>6

Codes == {"invalid_length", "crc_mismatch", "field_failed"}
AllReach == \A i \in Frames : WithinReach(schema.frames[i])

\* What the analysis of a window w for the frame i may say.
Answer(a, i, w) ==
    \/ /\ a.action = "parsed" /\ a.length \in Nat /\ a.length # 0 /\ a.length <= Len(w)
       /\ a.name = schema.frames[i].name
       /\ a.decoded \in Seq(Decodings(a.length - schema.frames[i].crc))
    \/ a.action = "more" /\ (WithinReach(schema.frames[i]) => Len(w) < schema.capacity)
    \/ a.action = "error" /\ a.code \in Codes

\* The analysis of one frame: a frame that parses has arrived, and one that waits leaves
\* room for more.
LEMMA AnalyzeAnswers ==
    ASSUME schema \in Schemas, NEW i \in Frames, NEW w, Len(w) \in Nat
    PROVE  Answer(Analyze(schema.frames[i], w), i, w)
<1> DEFINE f == schema.frames[i]
           n == DeclaredLength(f, w)
           fields == DecodeFields(f, w, n)
           a == Analyze(f, w)
<1>1. FrameOk(f) /\ schema.capacity \in Nat
  BY FrameFacts
<1>2. Len(f.header) \in Nat /\ f.crc \in Nat
  BY <1>1, HeaderLength DEF FrameOk
<1>3. a = IF Unread(f, w) THEN More
          ELSE IF ~ValidLength(n) THEN Bad("invalid_length")
          ELSE IF n > Len(w) THEN More
          ELSE IF n < Len(f.header) + f.crc THEN Bad("invalid_length")
          ELSE IF ~CheckHolds(f, w, n) THEN Bad("crc_mismatch")
          ELSE IF fields.failed THEN Bad("field_failed")
          ELSE [action |-> "parsed", name |-> f.name, length |-> n, decoded |-> fields.decoded]
  BY DEF Analyze
<1> HIDE DEF a, n, fields
<1>4. CASE Unread(f, w)
  <2>1. a.action = "more"
    BY <1>3, <1>4 DEF More
  <2>2. WithinReach(f) => Len(w) < schema.capacity
    <3> SUFFICES ASSUME WithinReach(f) PROVE Len(w) < schema.capacity
      OBVIOUS
    <3>1. f.length = "len" /\ f.offset + f.width > Len(w) /\ f.offset + f.width <= schema.capacity
      BY <1>4 DEF Unread, WithinReach
    <3>2. f.offset \in Nat /\ f.width \in Nat
      BY <1>1, <3>1 DEF FrameOk
    <3> QED
      BY <1>1, <3>1, <3>2
  <2> QED
    BY <2>1, <2>2 DEF Answer, a
<1>5. CASE ~Unread(f, w) /\ ~ValidLength(n)
  <2>1. a = Bad("invalid_length")
    BY <1>3, <1>5
  <2> QED
    BY <2>1 DEF Answer, Bad, Codes, a
<1>6. CASE ~Unread(f, w) /\ ValidLength(n) /\ n > Len(w)
  <2>1. a = More
    BY <1>3, <1>6
  <2>2. Len(w) < schema.capacity
    BY <1>1, <1>6 DEF ValidLength
  <2> QED
    BY <2>1, <2>2 DEF Answer, More, a
<1>7. CASE ~Unread(f, w) /\ ValidLength(n) /\ ~(n > Len(w)) /\ a.action = "error"
  <2>1. a = Bad("invalid_length") \/ a = Bad("crc_mismatch") \/ a = Bad("field_failed")
    BY <1>3, <1>7, Zenon
  <2> QED
    BY <2>1 DEF Answer, Bad, Codes, a
<1>8. CASE ~Unread(f, w) /\ ValidLength(n) /\ ~(n > Len(w)) /\ ~(n < Len(f.header) + f.crc)
           /\ CheckHolds(f, w, n) /\ ~fields.failed
  <2>1. a = [action |-> "parsed", name |-> f.name, length |-> n, decoded |-> fields.decoded]
    BY <1>3, <1>8, Zenon
  <2>2. n \in Nat /\ n # 0 /\ n <= Len(w) /\ f.crc <= n
    BY <1>1, <1>2, <1>8 DEF ValidLength
  <2>3. AccOk(fields, n - f.crc)
    BY <2>2, DecodeFieldsOk DEF fields
  <2>4. fields.decoded \in Seq(Decodings(n - f.crc))
    BY <2>3 DEF AccOk
  <2>5. a.action = "parsed" /\ a.length = n /\ a.name = f.name /\ a.decoded = fields.decoded
    BY <2>1
  <2> QED
    BY <2>2, <2>4, <2>5 DEF Answer, a
<1>9. CASE ~Unread(f, w) /\ ValidLength(n) /\ ~(n > Len(w))
           /\ (n < Len(f.header) + f.crc \/ ~CheckHolds(f, w, n) \/ fields.failed)
  <2>1. a = Bad("invalid_length") \/ a = Bad("crc_mismatch") \/ a = Bad("field_failed")
    BY <1>3, <1>9, Zenon
  <2> QED
    BY <1>7, <1>9, <2>1 DEF Bad
<1> QED
  BY <1>4, <1>5, <1>6, <1>8, <1>9

\* What the frames that begin at the front of a window say together.
LEMMA FrontAnswers ==
    ASSUME schema \in Schemas, NEW w, Len(w) \in Nat,
           \E i \in Frames : HeaderAt(schema.frames[i], w, 0)
    PROVE  LET a == AnalyzeCandidates(w)
           IN  \/ a.action = "parsed" /\ \E i \in Frames : Answer(a, i, w)
               \/ a.action = "more" /\ (AllReach => Len(w) < schema.capacity)
               \/ a.action = "error" /\ a.code \in Codes
<1> DEFINE D == {i \in Frames : HeaderAt(schema.frames[i], w, 0)}
           result == [i \in D |-> Analyze(schema.frames[i], w)]
           Of(action) == {i \in D : result[i].action = action}
           a == AnalyzeCandidates(w)
<1>1. a = IF Of("parsed") # {} THEN result[First(Of("parsed"))]
          ELSE IF Of("more") # {} THEN More
          ELSE result[First(Of("error"))]
  BY DEF AnalyzeCandidates, Best
<1>2. D \in SUBSET Frames /\ D # {}
  OBVIOUS
<1>3. ASSUME NEW i \in D PROVE Answer(result[i], i, w)
  BY AnalyzeAnswers
<1>4. \A action : Of(action) \in SUBSET Frames /\ Of(action) \in SUBSET D
  BY <1>2
<1>5. ASSUME NEW action, Of(action) # {}
      PROVE  /\ First(Of(action)) \in D /\ result[First(Of(action))].action = action
             /\ First(Of(action)) \in Frames
  <2> DEFINE T == Of(action)
  <2>1. T \in SUBSET Frames /\ T # {}
    BY <1>4, <1>5
  <2>2. First(T) \in T
    <3> HIDE DEF T
    <3> QED
      BY <2>1, FirstIn
  <2> QED
    BY <1>2, <2>2
<1> HIDE DEF a, result
<1>6. CASE Of("parsed") # {}
  <2> DEFINE i == First(Of("parsed"))
  <2>1. i \in D /\ i \in Frames /\ result[i].action = "parsed" /\ a = result[i]
    BY <1>1, <1>5, <1>6
  <2> HIDE DEF i
  <2>2. Answer(a, i, w)
    BY <1>3, <2>1
  <2> QED
    BY <2>1, <2>2 DEF a
<1>7. CASE Of("parsed") = {} /\ Of("more") # {}
  <2>1. a = More
    BY <1>1, <1>7
  <2>2. PICK i \in D : result[i].action = "more"
    BY <1>7
  <2>3. WithinReach(schema.frames[i]) => Len(w) < schema.capacity
    BY <1>3, <2>2 DEF Answer
  <2>4. i \in Frames
    BY <1>2
  <2> QED
    BY <2>1, <2>3, <2>4 DEF More, a, AllReach
<1>8. CASE Of("parsed") = {} /\ Of("more") = {}
  <2>1. PICK i \in D : TRUE
    BY <1>2
  <2>2. result[i].action = "error"
    BY <1>3, <1>8, <2>1 DEF Answer
  <2>3. Of("error") # {}
    BY <2>2
  <2> DEFINE j == First(Of("error"))
  <2>4. j \in D /\ result[j].action = "error" /\ a = result[j]
    BY <1>1, <1>5, <1>8, <2>3
  <2> HIDE DEF j
  <2>5. Answer(a, j, w)
    BY <1>3, <2>4
  <2> QED
    BY <2>4, <2>5 DEF Answer, a
<1> QED
  BY <1>6, <1>7, <1>8
-----------------------------------------------------------------------------
(* The loop                                                                 *)

Event ==
    [kind : {"noise", "overflow"}, count : Nat]
        \cup [kind : {"error"}, code : Codes]
        \cup [kind : {"frame"}, at : Nat, name : Names, raw : Seq(Byte),
              decoded : UNION {Seq(Decodings(limit)) : limit \in Int}]

Weight(e) ==
    CASE e.kind = "frame" -> Len(e.raw)
      [] e.kind = "error" -> 1
      [] OTHER -> e.count

Weights(es) == [k \in DOMAIN es |-> Weight(es[k])]

\* The frame k of the events: a piece of the stream s before its last z bytes, behind the
\* frames before it, with its fields in it.
FrameIn(es, k, s, z) ==
    /\ es[k].raw = SubSeq(s, es[k].at + 1, es[k].at + Len(es[k].raw))
    /\ es[k].at + Len(es[k].raw) <= Len(s) - z
    /\ \A j \in 1 .. Len(es) :
           j < k /\ es[j].kind = "frame" => es[j].at + Len(es[j].raw) <= es[k].at
    /\ \A i \in Frames : es[k].name = schema.frames[i].name =>
           \A d \in Range(es[k].decoded) :
               d.start + d.count * d.width <= Len(es[k].raw) - schema.frames[i].crc

\* The events account for all but the last z bytes of the stream s, of rec received.
Accounts(es, s, z, rec) ==
    /\ es \in Seq(Event)
    /\ rec = z + SumOf(Weights(es))
    /\ \A k \in 1 .. Len(es) : es[k].kind = "frame" => FrameIn(es, k, s, z)

\* An event stands for a number of bytes.
LEMMA WeightType == \A e \in Event : Weight(e) \in Nat
<1> SUFFICES ASSUME NEW e \in Event PROVE Weight(e) \in Nat
  OBVIOUS
<1>1. CASE e \in [kind : {"noise", "overflow"}, count : Nat]
  BY <1>1 DEF Weight
<1>2. CASE e \in [kind : {"error"}, code : Codes]
  BY <1>2 DEF Weight
<1>3. CASE e \in [kind : {"frame"}, at : Nat, name : Names, raw : Seq(Byte),
                  decoded : UNION {Seq(Decodings(limit)) : limit \in Int}]
  <2>1. e.kind = "frame" /\ e.raw \in Seq(Byte)
    BY <1>3
  <2>2. Len(e.raw) \in Nat
    BY <2>1, LenProperties
  <2> QED
    BY <2>1, <2>2 DEF Weight
<1> QED
  BY <1>1, <1>2, <1>3 DEF Event

\* The numbers of bytes of some events.
LEMMA WeightsType ==
    ASSUME NEW es \in Seq(Event)
    PROVE  Weights(es) \in Seq(Nat) /\ Len(Weights(es)) = Len(es)
<1>1. Len(es) \in Nat /\ DOMAIN es = 1 .. Len(es)
  BY LenProperties
<1>2. \A k \in 1 .. Len(es) : Weight(es[k]) \in Nat
  BY ElementOfSeq, WeightType
<1> QED
  BY <1>1, <1>2 DEF Weights

\* One event more.
LEMMA WeightsAppend ==
    ASSUME NEW es \in Seq(Event), NEW e \in Event
    PROVE  SumOf(Weights(Append(es, e))) = SumOf(Weights(es)) + Weight(e)
<1> DEFINE t == Append(es, e)
           n == Len(es)
           a == Append(Weights(es), Weight(e))
<1>1. t \in Seq(Event) /\ Len(t) = n + 1 /\ t[n + 1] = e /\ \A k \in 1 .. n : t[k] = es[k]
  BY AppendProperties
<1>2. Weights(es) \in Seq(Nat) /\ Len(Weights(es)) = n /\ Weight(e) \in Nat
  BY WeightsType, WeightType
<1>3. a \in Seq(Nat) /\ Len(a) = n + 1 /\ a[n + 1] = Weight(e)
      /\ \A k \in 1 .. n : a[k] = Weights(es)[k]
  BY <1>2, AppendProperties
<1>4. Weights(t) \in Seq(Nat) /\ Len(Weights(t)) = n + 1
  BY <1>1, WeightsType
<1>5. n \in Nat /\ DOMAIN es = 1 .. n
  BY LenProperties
<1> HIDE DEF t, a, n
<1>6. DOMAIN t = 1 .. n + 1
  BY <1>1, <1>5, LenProperties
<1>7. ASSUME NEW k \in 1 .. n + 1 PROVE Weights(t)[k] = a[k]
  <2>1. Weights(t)[k] = Weight(t[k])
    BY <1>6 DEF Weights
  <2>2. CASE k = n + 1
    BY <1>1, <1>3, <2>1, <2>2
  <2>3. CASE k \in 1 .. n
    <3>1. Weights(es)[k] = Weight(es[k])
      BY <1>5, <2>3 DEF Weights
    <3>2. t[k] = es[k] /\ a[k] = Weights(es)[k]
      BY <1>1, <1>3, <2>3
    <3> QED
      BY <2>1, <3>1, <3>2
  <2> QED
    BY <1>5, <2>2, <2>3
<1>8. Weights(t) = a
  BY <1>3, <1>4, <1>7, SeqEqual
<1> QED
  BY <1>2, <1>8, SumAppend DEF t, a

\* Bytes that are skipped, and one event for them.
LEMMA AccountsSkip ==
    ASSUME NEW es, NEW s \in Seq(Byte), NEW z \in Nat, NEW rec \in Nat,
           Accounts(es, s, z, rec), NEW n \in Nat, n <= z, z <= Len(s),
           NEW e \in Event, e.kind # "frame", Weight(e) = n
    PROVE  Accounts(Append(es, e), s, z - n, rec)
<1> DEFINE t == Append(es, e)
           N == Len(es)
<1>1. es \in Seq(Event) /\ rec = z + SumOf(Weights(es))
  BY DEF Accounts
<1>2. t \in Seq(Event) /\ Len(t) = N + 1 /\ t[N + 1] = e /\ \A k \in 1 .. N : t[k] = es[k]
  BY <1>1, AppendProperties
<1>3. N \in Nat /\ SumOf(Weights(es)) \in Nat /\ Len(s) \in Nat
  BY <1>1, LenProperties, WeightsType, SumType
<1>4. SumOf(Weights(t)) = SumOf(Weights(es)) + n
  BY <1>1, WeightsAppend
<1> HIDE DEF t, N
<1>5. rec = (z - n) + SumOf(Weights(t))
  BY <1>1, <1>3, <1>4
<1>6. ASSUME NEW k \in 1 .. N + 1, t[k].kind = "frame" PROVE FrameIn(t, k, s, z - n)
  <2>1. k # N + 1
    BY <1>2, <1>6
  <2>2. k \in 1 .. N /\ k <= N
    BY <1>3, <2>1
  <2>3. t[k] = es[k]
    BY <1>2, <2>2
  <2>4. FrameIn(es, k, s, z)
    BY <1>6, <2>2, <2>3 DEF Accounts, N
  <2>5. es[k].raw \in Seq(Byte) /\ es[k].at \in Nat
    <3>1. es[k] \in Event
      BY <1>1, <2>2, ElementOfSeq DEF N
    <3> QED
      BY <1>6, <2>3, <3>1 DEF Event
  <2>6. Len(es[k].raw) \in Nat
    BY <2>5, LenProperties
  <2>7. es[k].at + Len(es[k].raw) <= Len(s) - (z - n)
    <3>1. es[k].at + Len(es[k].raw) <= Len(s) - z
      BY <2>4 DEF FrameIn
    <3> QED
      BY <1>3, <2>5, <2>6, <3>1
  <2>8. ASSUME NEW j \in 1 .. N + 1, j < k, t[j].kind = "frame"
        PROVE  t[j].at + Len(t[j].raw) <= t[k].at
    <3>1. j \in 1 .. N
      BY <1>3, <2>2, <2>8
    <3>2. t[j] = es[j]
      BY <1>2, <3>1
    <3> QED
      BY <2>3, <2>4, <2>8, <3>1, <3>2 DEF FrameIn, N
  <2>9. /\ es[k].raw = SubSeq(s, es[k].at + 1, es[k].at + Len(es[k].raw))
        /\ \A i \in Frames : es[k].name = schema.frames[i].name =>
               \A d \in Range(es[k].decoded) :
                   d.start + d.count * d.width <= Len(es[k].raw) - schema.frames[i].crc
    BY <2>4, Zenon DEF FrameIn
  <2> QED
    BY <1>2, <2>3, <2>7, <2>8, <2>9 DEF FrameIn
<1> QED
  BY <1>2, <1>5, <1>6 DEF Accounts, t

\* A frame that is cut out.
LEMMA AccountsFrame ==
    ASSUME NEW es, NEW s \in Seq(Byte), NEW z \in Nat, NEW rec \in Nat,
           Accounts(es, s, z, rec), NEW n \in Nat, n <= z, z <= Len(s),
           NEW e \in Event, e.kind = "frame", e.at = Len(s) - z,
           Len(e.raw) = n, e.raw = SubSeq(s, e.at + 1, e.at + n),
           \A i \in Frames : e.name = schema.frames[i].name =>
               \A d \in Range(e.decoded) :
                   d.start + d.count * d.width <= n - schema.frames[i].crc
    PROVE  Accounts(Append(es, e), s, z - n, rec)
<1> DEFINE t == Append(es, e)
           N == Len(es)
<1>1. es \in Seq(Event) /\ rec = z + SumOf(Weights(es))
  BY DEF Accounts
<1>2. t \in Seq(Event) /\ Len(t) = N + 1 /\ t[N + 1] = e /\ \A k \in 1 .. N : t[k] = es[k]
  BY <1>1, AppendProperties
<1>3. N \in Nat /\ SumOf(Weights(es)) \in Nat /\ Len(s) \in Nat
  BY <1>1, LenProperties, WeightsType, SumType
<1>4. SumOf(Weights(t)) = SumOf(Weights(es)) + n
  <2>1. Weight(e) = n
    BY DEF Weight
  <2> QED
    BY <1>1, <2>1, WeightsAppend
<1> HIDE DEF t, N
<1>5. rec = (z - n) + SumOf(Weights(t))
  BY <1>1, <1>3, <1>4
<1>6. ASSUME NEW k \in 1 .. N, es[k].kind = "frame"
      PROVE  /\ es[k].at \in Nat /\ Len(es[k].raw) \in Nat
             /\ es[k].at + Len(es[k].raw) <= Len(s) - z
  <2>1. es[k].raw \in Seq(Byte) /\ es[k].at \in Nat
    <3>1. es[k] \in Event
      BY <1>1, ElementOfSeq DEF N
    <3> QED
      BY <1>6, <3>1 DEF Event
  <2>2. FrameIn(es, k, s, z)
    BY <1>6 DEF Accounts, N
  <2> QED
    BY <2>1, <2>2, LenProperties DEF FrameIn
<1>7. ASSUME NEW k \in 1 .. N + 1, t[k].kind = "frame" PROVE FrameIn(t, k, s, z - n)
  <2>1. CASE k = N + 1
    <3>1. t[k] = e
      BY <1>2, <2>1
    <3>2. e.at + Len(e.raw) <= Len(s) - (z - n)
      BY <1>3
    <3>3. ASSUME NEW j \in 1 .. N + 1, j < k, t[j].kind = "frame"
          PROVE  t[j].at + Len(t[j].raw) <= t[k].at
      <4>1. j \in 1 .. N
        BY <1>3, <2>1, <3>3
      <4>2. t[j] = es[j]
        BY <1>2, <4>1
      <4> QED
        BY <1>6, <3>1, <3>3, <4>1, <4>2
    <3> QED
      BY <1>2, <3>1, <3>2, <3>3 DEF FrameIn
  <2>2. CASE k # N + 1
    <3>1. k \in 1 .. N /\ k <= N
      BY <1>3, <2>2
    <3>2. t[k] = es[k]
      BY <1>2, <3>1
    <3>3. FrameIn(es, k, s, z)
      BY <1>7, <3>1, <3>2 DEF Accounts, N
    <3>4. es[k].at + Len(es[k].raw) <= Len(s) - (z - n)
      BY <1>3, <1>6, <1>7, <3>1, <3>2
    <3>5. ASSUME NEW j \in 1 .. N + 1, j < k, t[j].kind = "frame"
          PROVE  t[j].at + Len(t[j].raw) <= t[k].at
      <4>1. j \in 1 .. N
        BY <1>3, <3>1, <3>5
      <4>2. t[j] = es[j]
        BY <1>2, <4>1
      <4> QED
        BY <3>2, <3>3, <3>5, <4>1, <4>2 DEF FrameIn, N
    <3>6. /\ es[k].raw = SubSeq(s, es[k].at + 1, es[k].at + Len(es[k].raw))
          /\ \A i \in Frames : es[k].name = schema.frames[i].name =>
                 \A d \in Range(es[k].decoded) :
                     d.start + d.count * d.width <= Len(es[k].raw) - schema.frames[i].crc
      BY <3>3, Zenon DEF FrameIn
    <3> QED
      BY <1>2, <3>2, <3>4, <3>5, <3>6 DEF FrameIn
  <2> QED
    BY <2>1, <2>2
<1> QED
  BY <1>2, <1>5, <1>7 DEF Accounts, t
-----------------------------------------------------------------------------
(* A pass                                                                   *)

\* A pass over the stream s, in a ring of c cells; base was reported before.
PassOk(p, base, s, c, rec) ==
    /\ p \in [ring : {p.ring}, found : Seq(Event), waits : BOOLEAN]
    /\ RingOk(p.ring) /\ Cap(p.ring) = c /\ EndOf(p.ring, s)
    /\ Accounts(base \o p.found, s, p.ring.size, rec)
    /\ p.waits => (AllReach => p.ring.size < schema.capacity)

\* What takes n bytes off the ring, with an event that accounts for them.
LEMMA TakesOff ==
    ASSUME NEW base \in Seq(Event), NEW s \in Seq(Byte), NEW c, NEW rec,
           NEW p, PassOk(p, base, s, c, rec), NEW n \in Nat, n <= p.ring.size, NEW e \in Event,
           Accounts(Append(base \o p.found, e), s, p.ring.size - n, rec),
           NEW q, q \in [ring : {DiscardFront(p.ring, n)}, found : {Append(p.found, e)},
                         waits : BOOLEAN],
           q.waits => (AllReach => p.ring.size - n < schema.capacity)
    PROVE  PassOk(q, base, s, c, rec)
<1> DEFINE r == p.ring
           d == DiscardFront(r, n)
<1>1. RingOk(r) /\ Cap(r) = c /\ EndOf(r, s) /\ p.found \in Seq(Event)
  BY DEF PassOk
<1>2. RingOk(d) /\ Cap(d) = c /\ d.size = r.size - n
      /\ \A i \in 1 .. d.size : At(d, i) = At(r, n + i)
  BY <1>1, DiscardTakes
<1>3. q.ring = d /\ q.found = Append(p.found, e)
  OBVIOUS
<1>4. q.found \in Seq(Event)
  BY <1>1, <1>3, AppendProperties
<1>5. q \in [ring : {q.ring}, found : Seq(Event), waits : BOOLEAN]
  BY <1>3, <1>4
<1>6. EndOf(d, s)
  <2> DEFINE z == r.size
             L == Len(s)
  <2>1. z \in Nat /\ L \in Nat /\ z <= L /\ \A i \in 1 .. z : At(r, i) = s[L - z + i]
    BY <1>1, RingFacts, LenProperties DEF EndOf
  <2> HIDE DEF d
  <2>2. d.size = z - n /\ n <= z
    BY <1>2
  <2> HIDE DEF z, L
  <2>3. ASSUME NEW i \in 1 .. z - n PROVE At(d, i) = s[L - (z - n) + i]
    <3>1. n + i \in 1 .. z /\ L - z + (n + i) = L - (z - n) + i
      BY <2>1, <2>2
    <3>2. At(r, n + i) = s[L - z + (n + i)]
      BY <2>1, <3>1
    <3>3. At(d, i) = At(r, n + i)
      BY <1>2, <2>2
    <3> QED
      BY <3>1, <3>2, <3>3
  <2>4. z - n <= L
    BY <2>1
  <2> QED
    BY <2>2, <2>3, <2>4 DEF EndOf, L
<1>7. base \o q.found = Append(base \o p.found, e)
  <2> DEFINE v == p.found
  <2> HIDE DEF v
  <2>1. v \in Seq(Event) /\ <<e>> \in Seq(Event) /\ q.found = Append(v, e)
    BY <1>1, <1>3 DEF v
  <2>2. Append(v, e) = v \o <<e>>
    BY <2>1, AppendIsConcat
  <2>3. base \o v \in Seq(Event)
    BY <2>1, ConcatProperties
  <2>4. Append(base \o v, e) = (base \o v) \o <<e>>
    BY <2>3, AppendIsConcat
  <2>5. (base \o v) \o <<e>> = base \o (v \o <<e>>)
    BY <2>1, ConcatAssociative
  <2> QED
    BY <2>1, <2>2, <2>4, <2>5 DEF v
<1>8. Accounts(base \o q.found, s, q.ring.size, rec)
  BY <1>2, <1>3, <1>7
<1> QED
  BY <1>2, <1>3, <1>5, <1>6, <1>8 DEF PassOk

\* Bytes that fit no frame are skipped with an event.
LEMMA Skips ==
    ASSUME NEW base \in Seq(Event), NEW s \in Seq(Byte), NEW c, NEW rec \in Nat,
           NEW p, PassOk(p, base, s, c, rec), NEW n \in Nat, n <= p.ring.size, NEW e \in Event,
           e.kind # "frame", Weight(e) = n,
           NEW q, q \in [ring : {DiscardFront(p.ring, n)}, found : {Append(p.found, e)},
                         waits : BOOLEAN],
           q.waits => (AllReach => p.ring.size - n < schema.capacity)
    PROVE  PassOk(q, base, s, c, rec)
<1> DEFINE z == p.ring.size
<1>1. RingOk(p.ring) /\ EndOf(p.ring, s) /\ Accounts(base \o p.found, s, z, rec)
  BY DEF PassOk
<1>2. z \in Nat /\ z <= Len(s)
  BY <1>1, RingFacts DEF EndOf
<1>3. Accounts(Append(base \o p.found, e), s, z - n, rec)
  BY <1>1, <1>2, AccountsSkip
<1> QED
  BY <1>3, TakesOff

\* A frame that parses is reported and taken off.
LEMMA CutsOut ==
    ASSUME schema \in Schemas,
           NEW base \in Seq(Event), NEW s \in Seq(Byte), NEW c, NEW rec \in Nat,
           NEW p, PassOk(p, base, s, c, rec), NEW i \in Frames,
           NEW a, Answer(a, i, Contents(p.ring)), a.action = "parsed",
           NEW e, e = FrameAt(Len(s) - p.ring.size, a, SubSeq(Contents(p.ring), 1, a.length)),
           NEW q, q = [ring |-> DiscardFront(p.ring, a.length), found |-> Append(p.found, e),
                       waits |-> FALSE]
    PROVE  PassOk(q, base, s, c, rec) /\ q.ring.size < p.ring.size
<1> DEFINE r == p.ring
           w == Contents(r)
           n == a.length
           z == r.size
           L == Len(s)
           f == schema.frames[i]
<1>1. RingOk(r) /\ EndOf(r, s) /\ Accounts(base \o p.found, s, z, rec)
  BY DEF PassOk
<1>2. /\ z \in Nat /\ L \in Nat /\ z <= L /\ w \in Seq(Byte) /\ Len(w) = z
      /\ \A k \in 1 .. z : w[k] = s[L - z + k]
  BY <1>1, RingFacts, ContentsIs, LenProperties DEF EndOf
<1>3. n \in Nat /\ n # 0 /\ n <= z /\ a.name = f.name /\ a.decoded \in Seq(Decodings(n - f.crc))
  BY <1>2 DEF Answer
<1> DEFINE b == SubSeq(w, 1, n)
<1>4. b \in Seq(Byte) /\ Len(b) = n /\ \A k \in 1 .. n : b[k] = w[k]
  <2> HIDE DEF w, n, z
  <2>1. SubSeq(w, 1, n) \in Seq(Byte) /\ Len(SubSeq(w, 1, n)) = n - 1 + 1
        /\ \A k \in 1 .. n - 1 + 1 : SubSeq(w, 1, n)[k] = w[1 + k - 1]
    <3>1. 1 \in Nat /\ 1 <= n + 1 /\ n <= Len(w)
      BY <1>2, <1>3
    <3> QED
      BY <1>2, <1>3, <3>1, PieceOf
  <2> QED
    BY <1>3, <2>1
<1>5. e = [kind |-> "frame", at |-> L - z, name |-> f.name, raw |-> b, decoded |-> a.decoded]
  BY <1>3 DEF FrameAt
<1> HIDE DEF w, n, z, L, b
<1>6. e.kind = "frame" /\ e.at = L - z /\ e.name = f.name /\ e.raw = b /\ e.decoded = a.decoded
  BY <1>5
<1>7. f.crc \in Nat
  <2>1. FrameOk(f)
    BY FrameFacts
  <2> QED
    BY <2>1 DEF FrameOk
<1>8. e \in Event
  <2>1. L - z \in Nat
    BY <1>2
  <2>2. f.name \in Names
    BY DEF Names
  <2>3. a.decoded \in UNION {Seq(Decodings(limit)) : limit \in Int}
    <3>1. n - f.crc \in Int
      BY <1>3, <1>7
    <3> QED
      BY <1>3, <3>1
  <2> QED
    BY <1>4, <1>5, <2>1, <2>2, <2>3 DEF Event
<1>9. b = SubSeq(s, e.at + 1, e.at + n)
  <2> DEFINE m == L - z + 1
             t == SubSeq(s, m, L - z + n)
  <2>1. m \in Nat /\ m >= 1 /\ L - z + n \in Nat /\ L - z + n <= Len(s) /\ m <= (L - z + n) + 1
        /\ (L - z + n) - m + 1 = n
    BY <1>2, <1>3 DEF L
  <2>2. \A k \in 1 .. n : m + k - 1 = L - z + k
    BY <1>2, <1>3
  <2> HIDE DEF m
  <2>3. t \in Seq(Byte) /\ Len(t) = n /\ \A k \in 1 .. n : t[k] = s[m + k - 1]
    BY <2>1, PieceOf
  <2>4. \A k \in 1 .. n : t[k] = b[k]
    <3> SUFFICES ASSUME NEW k \in 1 .. n PROVE t[k] = b[k]
      OBVIOUS
    <3>1. k \in 1 .. z
      BY <1>2, <1>3
    <3> QED
      BY <1>2, <1>4, <2>2, <2>3, <3>1
  <2> HIDE DEF t
  <2>5. t = b
    BY <1>4, <2>3, <2>4, SeqEqual
  <2> QED
    BY <1>6, <2>5 DEF t, m
<1>10. ASSUME NEW j \in Frames, e.name = schema.frames[j].name, NEW d \in Range(e.decoded)
       PROVE  d.start + d.count * d.width <= n - schema.frames[j].crc
  <2>1. j = i
    BY <1>6, <1>10, FrameFacts
  <2>2. d \in Decodings(n - f.crc)
    <3>1. PICK k \in DOMAIN a.decoded : d = a.decoded[k]
      BY <1>6 DEF Range
    <3>2. k \in 1 .. Len(a.decoded)
      BY <1>3, LenProperties
    <3> QED
      BY <1>3, <3>1, <3>2, ElementOfSeq
  <2> QED
    BY <2>1, <2>2 DEF Decodings
<1>11. Accounts(Append(base \o p.found, e), s, z - n, rec)
  BY <1>1, <1>2, <1>3, <1>4, <1>6, <1>8, <1>9, <1>10, AccountsFrame DEF L
<1>12. PassOk(q, base, s, c, rec) /\ q.ring.size = z - n
  <2>1. q \in [ring : {DiscardFront(p.ring, n)}, found : {Append(p.found, e)}, waits : BOOLEAN]
    BY DEF n
  <2>2. q.waits => (AllReach => p.ring.size - n < schema.capacity)
    OBVIOUS
  <2>3. n <= p.ring.size /\ Accounts(Append(base \o p.found, e), s, p.ring.size - n, rec)
    BY <1>3, <1>11 DEF z
  <2>4. PassOk(q, base, s, c, rec)
    BY <1>3, <1>8, <2>1, <2>2, <2>3, TakesOff
  <2>5. q.ring.size = p.ring.size - n
    BY <1>1, <1>3, <2>1, <2>3, DiscardTakes
  <2> QED
    BY <2>4, <2>5 DEF z
<1> QED
  BY <1>2, <1>3, <1>12 DEF z

\* A pass accounts for what it takes, and ends the loop or takes a byte at least.
LEMMA PassKeeps ==
    ASSUME schema \in Schemas,
           NEW base \in Seq(Event), NEW s \in Seq(Byte), NEW c, NEW rec \in Nat,
           NEW p, PassOk(p, base, s, c, rec)
    PROVE  LET q == Pass(p, Len(s))
           IN  PassOk(q, base, s, c, rec) /\ (q.waits \/ q.ring.size < p.ring.size)
<1> DEFINE r == p.ring
           w == Contents(r)
           z == r.size
           starts == {k \in 0 .. Len(w) - 1 : \E i \in Frames : HeaderAt(schema.frames[i], w, k)}
           start == CHOOSE k \in starts : \A j \in starts : k <= j
           front == AnalyzeCandidates(w)
           q == Pass(p, Len(s))
           To(n, e, b) == [ring |-> DiscardFront(r, n), found |-> Append(p.found, e), waits |-> b]
           Tos(n, e) == [ring : {DiscardFront(r, n)}, found : {Append(p.found, e)}, waits : BOOLEAN]
           Waiting == [ring |-> r, found |-> p.found, waits |-> TRUE]
<1>1. /\ p = [ring |-> r, found |-> p.found, waits |-> p.waits] /\ p.waits \in BOOLEAN
      /\ RingOk(r) /\ p.found \in Seq(Event)
  BY DEF PassOk
<1>2. z \in Nat /\ w \in Seq(Byte) /\ Len(w) = z /\ Len(w) \in Nat
  BY <1>1, RingFacts, ContentsIs
<1>3. schema.capacity \in Nat /\ schema.capacity # 0
  BY FrameFacts
<1>4. Kept \in Nat /\ Kept < MaxHeader /\ (AllReach => Kept < schema.capacity)
  <2>1. MaxHeader \in Nat /\ MaxHeader # 0
        /\ \E i \in Frames : MaxHeader = Len(schema.frames[i].header)
    BY MaxHeaderIs
  <2>2. AllReach => MaxHeader <= schema.capacity
    BY <2>1 DEF AllReach, WithinReach
  <2>3. Kept = MaxHeader - 1
    BY DEF Kept
  <2> QED
    BY <1>3, <2>1, <2>2, <2>3
<1>6. \A n, e : To(n, e, FALSE) \in Tos(n, e) /\ ~To(n, e, FALSE).waits
  OBVIOUS
<1>7. \A n, e : To(n, e, TRUE) \in Tos(n, e)
  OBVIOUS
<1>8. q = IF p.waits \/ z = 0 THEN Waiting
          ELSE IF starts = {}
          THEN IF z <= Kept THEN Waiting ELSE To(z - Kept, Noise(z - Kept), TRUE)
          ELSE IF start > 0 THEN To(start, Noise(start), FALSE)
          ELSE CASE front.action = "parsed" ->
                      To(front.length,
                         FrameAt(Len(s) - z, front, SubSeq(w, 1, front.length)), FALSE)
                 [] front.action = "more" -> Waiting
                 [] front.action = "error" -> To(1, Failure(front.code), FALSE)
  BY DEF Pass
<1> HIDE DEF q, front, start, starts
<1>9. \A n \in Nat : Noise(n) \in Event /\ Noise(n).kind # "frame" /\ Weight(Noise(n)) = n
  BY DEF Noise, Event, Weight
<1>10. ASSUME AllReach => z < schema.capacity PROVE PassOk(Waiting, base, s, c, rec)
  BY <1>1, <1>10 DEF PassOk
<1>11. CASE p.waits \/ z = 0
  <2>1. q = Waiting
    BY <1>8, <1>11
  <2>2. AllReach => z < schema.capacity
    BY <1>3, <1>11 DEF PassOk
  <2> QED
    BY <1>10, <2>1, <2>2 DEF q
<1>12. CASE ~(p.waits \/ z = 0) /\ starts = {} /\ z <= Kept
  <2>1. q = Waiting
    BY <1>8, <1>12
  <2>2. AllReach => z < schema.capacity
    BY <1>2, <1>3, <1>4, <1>12
  <2> QED
    BY <1>10, <2>1, <2>2 DEF q
<1>13. CASE ~(p.waits \/ z = 0) /\ starts = {} /\ ~(z <= Kept)
  <2> DEFINE n == z - Kept
  <2>1. q = To(n, Noise(n), TRUE)
    BY <1>8, <1>13
  <2>2. n \in Nat /\ n <= z /\ z - n = Kept
    BY <1>2, <1>4, <1>13
  <2> HIDE DEF n
  <2> DEFINE t == To(n, Noise(n), TRUE)
  <2>4. t \in Tos(n, Noise(n))
    BY <1>7
  <2> HIDE DEF t
  <2>3. PassOk(t, base, s, c, rec)
    BY <1>4, <1>9, <2>2, <2>4, Skips
  <2> QED
    BY <2>1, <2>3 DEF q, t
<1>14. CASE ~(p.waits \/ z = 0) /\ starts # {} /\ start > 0
  <2>1. q = To(start, Noise(start), FALSE)
    BY <1>8, <1>14
  <2>2. start \in starts
    <3>1. starts \in SUBSET Nat
      BY <1>2 DEF starts
    <3>2. \E k \in starts : \A j \in starts : k <= j
      BY <1>14, <3>1, LeastExists
    <3> QED
      BY <3>2 DEF start
  <2>3. start \in Nat /\ start < z
    BY <1>2, <2>2 DEF starts
  <2> DEFINE n == start
  <2> HIDE DEF n
  <2>4. n \in Nat /\ n <= z /\ z - n < z /\ FALSE \in BOOLEAN
    BY <1>2, <1>14, <2>3 DEF n
  <2>5. PassOk(To(n, Noise(n), FALSE), base, s, c, rec) /\ To(n, Noise(n), FALSE).ring.size = z - n
    <3> DEFINE t == To(n, Noise(n), FALSE)
    <3>1. t \in Tos(n, Noise(n)) /\ (t.waits => (AllReach => z - n < schema.capacity))
      BY <1>6
    <3> HIDE DEF t
    <3>2. PassOk(t, base, s, c, rec)
      BY <1>9, <2>4, <3>1, Skips
    <3>3. t.ring.size = z - n
      BY <1>1, <2>4, DiscardTakes DEF t
    <3> QED
      BY <3>2, <3>3 DEF t
  <2> QED
    BY <2>1, <2>4, <2>5 DEF q, n
<1>15. CASE ~(p.waits \/ z = 0) /\ starts # {} /\ ~(start > 0)
  <2>1. \E i \in Frames : HeaderAt(schema.frames[i], w, 0)
    <3>1. starts \in SUBSET Nat
      BY <1>2 DEF starts
    <3>2. \E k \in starts : \A j \in starts : k <= j
      BY <1>15, <3>1, LeastExists
    <3>3. start \in starts
      BY <3>2 DEF start
    <3>4. start = 0
      BY <1>15, <3>1, <3>3
    <3> QED
      BY <3>3, <3>4 DEF starts
  <2>2. \/ front.action = "parsed" /\ \E i \in Frames : Answer(front, i, w)
        \/ front.action = "more" /\ (AllReach => Len(w) < schema.capacity)
        \/ front.action = "error" /\ front.code \in Codes
    BY <1>2, <2>1, FrontAnswers DEF front
  <2>3. CASE front.action = "parsed"
    <3> DEFINE n == front.length
               e == FrameAt(Len(s) - z, front, SubSeq(w, 1, n))
    <3>1. q = To(n, e, FALSE)
      BY <1>8, <1>15, <2>3
    <3>2. PICK i \in Frames : Answer(front, i, w)
      BY <2>2, <2>3
    <3>3. PassOk(To(n, e, FALSE), base, s, c, rec) /\ To(n, e, FALSE).ring.size < z
      BY <2>3, <3>2, CutsOut
    <3> QED
      BY <3>1, <3>3 DEF q
  <2>4. CASE front.action = "more"
    <3>1. q = Waiting
      BY <1>8, <1>15, <2>4
    <3>2. AllReach => z < schema.capacity
      BY <1>2, <2>2, <2>4
    <3> QED
      BY <1>10, <3>1, <3>2 DEF q
  <2>5. CASE front.action = "error"
    <3> DEFINE e == Failure(front.code)
    <3>1. q = To(1, e, FALSE)
      BY <1>8, <1>15, <2>5
    <3>2. e \in Event /\ e.kind # "frame" /\ Weight(e) = 1
      BY <2>2, <2>5 DEF Failure, Event, Weight
    <3> HIDE DEF e
    <3>3. 1 \in Nat /\ 1 <= z /\ z - 1 < z /\ FALSE \in BOOLEAN
      BY <1>2, <1>15
    <3>4. PassOk(To(1, e, FALSE), base, s, c, rec) /\ To(1, e, FALSE).ring.size = z - 1
      <4> DEFINE t == To(1, e, FALSE)
      <4>1. t \in Tos(1, e) /\ (t.waits => (AllReach => z - 1 < schema.capacity))
        BY <1>6
      <4> HIDE DEF t
      <4>2. PassOk(t, base, s, c, rec)
        BY <3>2, <3>3, <4>1, Skips
      <4>3. t.ring.size = z - 1
        BY <1>1, <3>3, DiscardTakes DEF t
      <4> QED
        BY <4>2, <4>3 DEF t
    <3> QED
      BY <3>1, <3>3, <3>4 DEF q
  <2> QED
    BY <2>2, <2>3, <2>4, <2>5
<1> QED
  BY <1>11, <1>12, <1>13, <1>14, <1>15

\* The recursive function of Parse goes from pass to pass.
LEMMA ParseUnfolds ==
    ASSUME NEW r, r.size \in Nat, NEW total, NEW found
    PROVE  \E c : /\ Parse(r, total, found) = c[r.size]
                  /\ c[0] = [ring |-> r, found |-> found, waits |-> FALSE]
                  /\ \A k \in 1 .. r.size : c[k] = Pass(c[k - 1], total)
<1> DEFINE N == r.size
           start == [ring |-> r, found |-> found, waits |-> FALSE]
           Step(a) == Pass(a, total)
           Up(h, m) == h = [k \in 0 .. m |-> IF k = 0 THEN start ELSE Step(h[k - 1])]
           S == {m \in Nat : \E h : Up(h, m)}
           c == CHOOSE h : Up(h, N)
<1>1. Parse(r, total, found) = c[N]
  BY DEF Parse
<1> HIDE DEF Step, start
<1>2. 0 \in S
  <2> DEFINE h == [k \in 0 .. 0 |-> start]
  <2>1. Up(h, 0)
    OBVIOUS
  <2> QED
    BY <2>1
<1>3. ASSUME NEW m \in S PROVE m + 1 \in S
  <2>1. m \in Nat /\ m + 1 \in Nat
    OBVIOUS
  <2>2. PICK h : Up(h, m)
    OBVIOUS
  <2> DEFINE g == [k \in 0 .. m + 1 |-> IF k <= m THEN h[k] ELSE Step(h[m])]
  <2>3. ASSUME NEW k \in 0 .. m + 1
        PROVE  g[k] = IF k = 0 THEN start ELSE Step(g[k - 1])
    <3>1. CASE k = 0
      <4>1. 0 \in 0 .. m /\ 0 \in 0 .. m + 1 /\ 0 <= m
        BY <2>1
      <4>2. h[0] = start
        BY <2>2, <4>1
      <4> QED
        BY <3>1, <4>1, <4>2
    <3>2. CASE k # 0 /\ k <= m
      <4>1. k \in 0 .. m /\ k - 1 \in 0 .. m + 1 /\ k - 1 <= m /\ k <= m
        BY <2>1, <3>2
      <4>2. h[k] = Step(h[k - 1])
        BY <2>2, <3>2, <4>1
      <4>3. g[k] = h[k] /\ g[k - 1] = h[k - 1]
        BY <4>1
      <4> HIDE DEF g
      <4> QED
        BY <3>2, <4>2, <4>3
    <3>3. CASE k = m + 1
      <4>1. ~(m + 1 <= m) /\ m \in 0 .. m + 1 /\ m <= m /\ m + 1 # 0 /\ (m + 1) - 1 = m
            /\ m + 1 \in 0 .. m + 1
        BY <2>1
      <4>2. g[m + 1] = Step(h[m]) /\ g[m] = h[m]
        BY <4>1
      <4> HIDE DEF g
      <4> QED
        BY <3>3, <4>1, <4>2
    <3> QED
      BY <2>1, <3>1, <3>2, <3>3
  <2>4. g = [k \in 0 .. m + 1 |-> g[k]]
    OBVIOUS
  <2> HIDE DEF g
  <2>5. Up(g, m + 1)
    BY <2>3, <2>4
  <2> QED
    BY <2>1, <2>5
<1>4. N \in S
  <2>1. S \in SUBSET Nat
    OBVIOUS
  <2> HIDE DEF S
  <2>2. S = Nat
    BY <1>2, <1>3, <2>1, NatSet
  <2> QED
    BY <2>2
<1>5. Up(c, N)
  BY <1>4
<1> HIDE DEF c
<1>6. c[0] = start
  <2>1. 0 \in 0 .. N
    OBVIOUS
  <2> QED
    BY <1>5, <2>1
<1>7. ASSUME NEW k \in 1 .. N PROVE c[k] = Step(c[k - 1])
  <2>1. k \in 0 .. N /\ k # 0
    OBVIOUS
  <2> QED
    BY <1>5, <2>1
<1> QED
  BY <1>1, <1>6, <1>7 DEF Step, start

\* The loop accounts for what it takes; it waits only with room for more.
LEMMA ParseKeeps ==
    ASSUME schema \in Schemas,
           NEW base \in Seq(Event), NEW s \in Seq(Byte), NEW rec \in Nat,
           NEW r, RingOk(r), EndOf(r, s), NEW found \in Seq(Event),
           Accounts(base \o found, s, r.size, rec)
    PROVE  LET q == Parse(r, Len(s), found)
           IN  /\ RingOk(q.ring) /\ Cap(q.ring) = Cap(r) /\ EndOf(q.ring, s)
               /\ Accounts(base \o q.found, s, q.ring.size, rec)
               /\ AllReach => q.ring.size < schema.capacity
               /\ q.found \in Seq(Event)
<1> DEFINE N == r.size
           x == Cap(r)
           start == [ring |-> r, found |-> found, waits |-> FALSE]
<1>1. N \in Nat
  BY RingFacts
<1>2. PICK c : /\ Parse(r, Len(s), found) = c[N] /\ c[0] = start
               /\ \A k \in 1 .. N : c[k] = Pass(c[k - 1], Len(s))
  <2> DEFINE total == Len(s)
  <2> HIDE DEF total
  <2>1. \E c : /\ Parse(r, total, found) = c[r.size]
               /\ c[0] = [ring |-> r, found |-> found, waits |-> FALSE]
               /\ \A k \in 1 .. r.size : c[k] = Pass(c[k - 1], total)
    BY <1>1, ParseUnfolds
  <2> QED
    BY <2>1, Zenon DEF total
<1>3. schema.capacity \in Nat /\ schema.capacity # 0
  BY FrameFacts
<1> DEFINE Small(k) == c[k].ring.size <= N - k
           S == {k \in Nat : k <= N => /\ PassOk(c[k], base, s, x, rec)
                                       /\ c[k].waits \/ Small(k)}
<1>4. 0 \in S
  <2>1. start.ring = r /\ start.found = found /\ ~start.waits
        /\ start \in [ring : {r}, found : Seq(Event), waits : BOOLEAN]
    OBVIOUS
  <2> HIDE DEF start
  <2>2. PassOk(start, base, s, x, rec)
    BY <2>1 DEF PassOk
  <2>3. Small(0)
    BY <1>1, <1>2, <2>1
  <2> QED
    BY <1>2, <2>2, <2>3
<1>5. ASSUME NEW k \in S PROVE k + 1 \in S
  <2>1. k \in Nat /\ k + 1 \in Nat
    OBVIOUS
  <2> SUFFICES ASSUME k + 1 <= N
               PROVE  PassOk(c[k + 1], base, s, x, rec) /\ (c[k + 1].waits \/ Small(k + 1))
    BY <2>1
  <2>2. k <= N /\ k + 1 \in 1 .. N /\ (k + 1) - 1 = k
    BY <1>1, <2>1
  <2> DEFINE p == c[k]
             q == c[k + 1]
  <2>3. PassOk(p, base, s, x, rec) /\ (p.waits \/ Small(k))
    BY <2>2
  <2>4. q = Pass(p, Len(s))
    BY <1>2, <2>2
  <2> HIDE DEF p, q
  <2>5. PassOk(q, base, s, x, rec) /\ (q.waits \/ q.ring.size < p.ring.size)
    BY <2>3, <2>4, PassKeeps
  <2>6. CASE p.waits
    <3>1. q = [ring |-> p.ring, found |-> p.found, waits |-> TRUE]
      BY <2>4, <2>6 DEF Pass
    <3>2. q.waits
      BY <3>1
    <3> QED
      BY <2>5, <3>2 DEF q
  <2>7. CASE ~p.waits
    <3>1. RingOk(p.ring) /\ RingOk(q.ring)
      BY <2>3, <2>5 DEF PassOk
    <3>2. p.ring.size \in Nat /\ q.ring.size \in Nat
      BY <3>1, RingFacts
    <3>3. p.ring.size <= N - k
      BY <2>3, <2>7 DEF p
    <3>4. q.ring.size < p.ring.size => q.ring.size <= N - (k + 1)
      BY <1>1, <2>1, <3>2, <3>3
    <3>5. q.waits \/ q.ring.size <= N - (k + 1)
      BY <2>5, <3>4
    <3> QED
      BY <2>5, <3>5 DEF q
  <2> QED
    BY <2>6, <2>7
<1>6. N \in S
  <2>1. S \in SUBSET Nat
    OBVIOUS
  <2> HIDE DEF S
  <2> QED
    BY <1>1, <1>4, <1>5, <2>1, NatSet
<1> DEFINE q == c[N]
<1>7. PassOk(q, base, s, x, rec) /\ (q.waits \/ q.ring.size <= N - N)
  BY <1>1, <1>6
<1> HIDE DEF q, S
<1>8. AllReach => q.ring.size < schema.capacity
  <2>1. q.ring.size \in Nat
    <3>1. RingOk(q.ring)
      BY <1>7 DEF PassOk
    <3> QED
      BY <3>1, RingFacts
  <2>2. CASE q.waits
    BY <1>7, <2>2 DEF PassOk
  <2>3. CASE q.ring.size <= N - N
    BY <1>1, <1>3, <2>1, <2>3
  <2> QED
    BY <1>7, <2>2, <2>3
<1>9. Parse(r, Len(s), found) = q
  BY <1>2 DEF q
<1> QED
  BY <1>7, <1>8, <1>9 DEF PassOk
-----------------------------------------------------------------------------
(* Bytes received                                                           *)

\* What comes behind a sequence changes no piece of it.
LEMMA PieceOfConcat ==
    ASSUME NEW s \in Seq(Byte), NEW u \in Seq(Byte), NEW m \in Nat, NEW n \in Nat,
           m >= 1, n <= Len(s), m <= n + 1
    PROVE  SubSeq(s \o u, m, n) = SubSeq(s, m, n)
<1> DEFINE t == s \o u
           a == SubSeq(t, m, n)
           b == SubSeq(s, m, n)
<1>1. Len(s) \in Nat /\ Len(u) \in Nat
  BY LenProperties
<1>2. t \in Seq(Byte) /\ n <= Len(t) /\ \A i \in 1 .. Len(s) : t[i] = s[i]
  BY <1>1, ConcatProperties
<1> HIDE DEF t
<1>3. a \in Seq(Byte) /\ Len(a) = n - m + 1 /\ \A i \in 1 .. n - m + 1 : a[i] = t[m + i - 1]
  BY <1>2, PieceOf
<1>4. b \in Seq(Byte) /\ Len(b) = n - m + 1 /\ \A i \in 1 .. n - m + 1 : b[i] = s[m + i - 1]
  BY PieceOf
<1> HIDE DEF a, b
<1>5. ASSUME NEW i \in 1 .. n - m + 1 PROVE a[i] = b[i]
  <2>1. m + i - 1 \in 1 .. Len(s)
    BY <1>1
  <2> QED
    BY <1>2, <1>3, <1>4, <2>1
<1>6. a = b
  BY <1>3, <1>4, <1>5, SeqEqual
<1> QED
  BY <1>6 DEF a, b, t

\* Of n bytes received the ring takes u, and the rest is reported as lost.
LEMMA AccountsMore ==
    ASSUME NEW es, NEW s \in Seq(Byte), NEW z \in Nat, NEW rec \in Nat, Accounts(es, s, z, rec),
           z <= Len(s), NEW u \in Seq(Byte), NEW y \in Nat, NEW n \in Nat, NEW lost \in Nat,
           y + lost = z + n, Len(s) + Len(u) - y >= Len(s) - z
    PROVE  Accounts(es \o (IF lost > 0 THEN <<Overflow(lost)>> ELSE <<>>), s \o u, y, rec + n)
<1> DEFINE t == s \o u
           N == Len(es)
           e == Overflow(lost)
           L == Len(s)
<1>1. es \in Seq(Event) /\ rec = z + SumOf(Weights(es))
  BY DEF Accounts
<1>2. N \in Nat /\ SumOf(Weights(es)) \in Nat /\ L \in Nat /\ Len(u) \in Nat
  BY <1>1, LenProperties, WeightsType, SumType
<1>3. t \in Seq(Byte) /\ Len(t) = L + Len(u)
  BY ConcatProperties
<1>4. ASSUME NEW k \in 1 .. N, es[k].kind = "frame" PROVE FrameIn(es, k, t, y)
  <2>1. FrameIn(es, k, s, z)
    BY <1>4 DEF Accounts
  <2>2. es[k].raw \in Seq(Byte) /\ es[k].at \in Nat
    <3>1. es[k] \in Event
      BY <1>1, ElementOfSeq
    <3> QED
      BY <1>4, <3>1 DEF Event
  <2> DEFINE a == es[k].at
             l == Len(es[k].raw)
  <2>3. a \in Nat /\ l \in Nat
    BY <2>2, LenProperties
  <2>4. a + l <= L - z /\ es[k].raw = SubSeq(s, a + 1, a + l)
    BY <2>1 DEF FrameIn
  <2>5. SubSeq(t, a + 1, a + l) = SubSeq(s, a + 1, a + l)
    <3> HIDE DEF a, l
    <3>1. a + 1 \in Nat /\ a + l \in Nat /\ a + 1 >= 1 /\ a + l <= Len(s) /\ a + 1 <= (a + l) + 1
      BY <1>2, <2>3, <2>4
    <3> QED
      BY <3>1, PieceOfConcat, ZenonT(40)
  <2>6. a + l <= Len(t) - y
    <3> HIDE DEF a, l, t
    <3> QED
      BY <1>2, <1>3, <2>3, <2>4
  <2>7. /\ \A j \in 1 .. Len(es) :
               j < k /\ es[j].kind = "frame" => es[j].at + Len(es[j].raw) <= es[k].at
        /\ \A i \in Frames : es[k].name = schema.frames[i].name =>
               \A d \in Range(es[k].decoded) :
                   d.start + d.count * d.width <= Len(es[k].raw) - schema.frames[i].crc
    BY <2>1, Zenon DEF FrameIn
  <2>8. es[k].raw = SubSeq(t, es[k].at + 1, es[k].at + Len(es[k].raw))
    BY <2>4, <2>5
  <2>9. es[k].at + Len(es[k].raw) <= Len(t) - y
    BY <2>6
  <2> HIDE DEF t, a, l, N
  <2> QED
    BY <2>7, <2>8, <2>9, Zenon DEF FrameIn
<1> HIDE DEF t
<1>5. CASE lost = 0
  <2>1. rec + n = y + SumOf(Weights(es))
    BY <1>1, <1>2, <1>5
  <2>2. Accounts(es, t, y, rec + n)
    BY <1>1, <1>4, <2>1 DEF Accounts
  <2>3. es \o (IF lost > 0 THEN <<e>> ELSE <<>>) = es
    BY <1>1, <1>5, ConcatEmptySeq
  <2> QED
    BY <2>2, <2>3 DEF t
<1>6. CASE lost # 0
  <2> DEFINE q == Append(es, e)
  <2>1. e \in Event /\ e.kind # "frame" /\ Weight(e) = lost
    BY DEF Overflow, Event, Weight
  <2>2. q \in Seq(Event) /\ Len(q) = N + 1 /\ q[N + 1] = e /\ \A k \in 1 .. N : q[k] = es[k]
    BY <1>1, <2>1, AppendProperties
  <2>3. es \o (IF lost > 0 THEN <<e>> ELSE <<>>) = q
    BY <1>1, <1>6, <2>1, AppendIsConcat
  <2>4. SumOf(Weights(q)) = SumOf(Weights(es)) + lost
    BY <1>1, <2>1, WeightsAppend
  <2> HIDE DEF q, e, N
  <2>5. rec + n = y + SumOf(Weights(q))
    <3> DEFINE v == SumOf(Weights(es))
               w == SumOf(Weights(q))
    <3>1. v \in Nat /\ rec = z + v /\ w = v + lost
      BY <1>1, <1>2, <2>4
    <3> HIDE DEF v, w
    <3>2. rec + n = y + w
      BY <3>1
    <3> QED
      BY <3>2 DEF w
  <2>6. ASSUME NEW k \in 1 .. N + 1, q[k].kind = "frame" PROVE FrameIn(q, k, t, y)
    <3>1. k \in 1 .. N
      <4>1. k # N + 1
        BY <2>1, <2>2, <2>6
      <4> QED
        BY <1>2, <4>1
    <3>2. q[k] = es[k]
      BY <2>2, <3>1
    <3>3. FrameIn(es, k, t, y)
      BY <1>4, <2>6, <3>1, <3>2
    <3>4. ASSUME NEW j \in 1 .. Len(q), j < k, q[j].kind = "frame"
          PROVE  q[j].at + Len(q[j].raw) <= q[k].at
      <4>1. j \in 1 .. N
        BY <1>2, <2>2, <3>1, <3>4
      <4>2. q[j] = es[j]
        BY <2>2, <4>1
      <4> QED
        BY <3>2, <3>3, <3>4, <4>1, <4>2 DEF FrameIn, N
    <3>5. /\ es[k].raw = SubSeq(t, es[k].at + 1, es[k].at + Len(es[k].raw))
          /\ es[k].at + Len(es[k].raw) <= Len(t) - y
          /\ \A i \in Frames : es[k].name = schema.frames[i].name =>
                 \A d \in Range(es[k].decoded) :
                     d.start + d.count * d.width <= Len(es[k].raw) - schema.frames[i].crc
      BY <3>3, Zenon DEF FrameIn
    <3> QED
      BY <3>2, <3>4, <3>5 DEF FrameIn
  <2>7. Accounts(q, t, y, rec + n)
    BY <2>2, <2>5, <2>6 DEF Accounts
  <2> QED
    BY <2>3, <2>7 DEF t, e
<1> QED
  BY <1>5, <1>6

\* The ring may grow first, up to max_capacity.
LEMMA EnsureAppendKeeps ==
    ASSUME schema \in Schemas, NEW r, RingOk(r), Cap(r) <= schema.maxCapacity, NEW n \in Nat,
           NEW s, EndOf(r, s)
    PROVE  LET q == EnsureAppendCapacity(r, n)
           IN  /\ RingOk(q) /\ EndOf(q, s) /\ q.size = r.size
               /\ Cap(q) <= schema.maxCapacity /\ Cap(q) >= Cap(r)
<1> DEFINE q == EnsureAppendCapacity(r, n)
           m == Least(r.size + n, schema.maxCapacity)
<1>1. Cap(r) \in Nat /\ r.size \in Nat /\ schema.maxCapacity \in Nat
  BY RingFacts, FrameFacts
<1>2. CASE q = r
  BY <1>1, <1>2
<1>3. CASE q # r
  <2>1. q = EnsureCapacity(r, m) /\ r.size + n > Cap(r) /\ schema.maxCapacity > Cap(r)
    BY <1>3 DEF EnsureAppendCapacity
  <2> HIDE DEF q
  <2>2. m \in Nat /\ m <= schema.maxCapacity /\ m > Cap(r)
    BY <1>1, <2>1 DEF Least
  <2> HIDE DEF m
  <2>3. /\ RingOk(q) /\ Cap(q) = (IF m <= Cap(r) THEN Cap(r) ELSE m) /\ q.size = r.size
        /\ \A i \in 1 .. r.size : At(q, i) = At(r, i)
    BY <2>1, <2>2, EnsureKeeps
  <2>4. Cap(q) = m
    BY <1>1, <2>2, <2>3
  <2>5. EndOf(q, s)
    BY <2>3 DEF EndOf
  <2> QED
    BY <1>1, <2>2, <2>3, <2>4, <2>5 DEF q
<1> QED
  BY <1>2, <1>3

\* What comes in is taken or reported, with either rule of what goes.
LEMMA AppendKeeps ==
    ASSUME NEW r, RingOk(r), NEW s \in Seq(Byte), EndOf(r, s), NEW b \in Seq(Byte),
           NEW old \in BOOLEAN
    PROVE  LET q == AppendBytes(r, b, old)
               u == Taken(r, b, old)
           IN  /\ RingOk(q) /\ Cap(q) = Cap(r) /\ u \in Seq(Byte)
               /\ Dropped(r, b, old) \in Nat
               /\ q.size + Dropped(r, b, old) = r.size + Len(b)
               /\ EndOf(q, s \o u) /\ Len(s) + Len(u) - q.size >= Len(s) - r.size
               /\ old => Dropped(r, b, old) > 0 \/ Len(s) + Len(u) - q.size = Len(s) - r.size
               /\ ~old => Len(s) + Len(u) - q.size = Len(s) - r.size
<1>1. r.size \in Nat /\ Len(s) \in Nat /\ Len(b) \in Nat
  BY RingFacts, LenProperties
<1>2. CASE old = TRUE
  <2> DEFINE q == AppendBytes(r, b, TRUE)
             u == b
  <2>1. Taken(r, b, TRUE) = u
    BY DEF Taken
  <2>2. /\ RingOk(q) /\ Cap(q) = Cap(r) /\ Dropped(r, b, TRUE) \in Nat
        /\ q.size + Dropped(r, b, TRUE) = r.size + Len(b)
        /\ EndOf(q, s \o b) /\ Len(s \o b) - q.size >= Len(s) - r.size
    BY DropsTheOldest
  <2>3. Len(s \o b) = Len(s) + Len(b)
    BY ConcatProperties
  <2>4. Len(s) + Len(b) - q.size >= Len(s) - r.size
    <3> DEFINE l == Len(s \o b)
               y == q.size
               m == Len(s) - r.size
    <3>1. l - y >= m /\ l = Len(s) + Len(b)
      BY <2>2, <2>3
    <3>3. y \in Nat /\ m \in Int /\ Len(s) \in Nat /\ Len(b) \in Nat
      <4>1. RingOk(q)
        BY <2>2
      <4>2. q.size \in Nat
        BY <4>1, RingFacts
      <4>3. Len(s) - r.size \in Int
        BY <1>1
      <4>4. y \in Nat /\ m \in Int
        BY <4>2, <4>3
      <4> QED
        BY <1>1, <4>4
    <3> HIDE DEF l, y, m
    <3>2. Len(s) + Len(b) - y >= m
      BY <3>1, <3>3
    <3> QED
      BY <3>2 DEF y, m
  <2>5. Dropped(r, b, TRUE) > 0 \/ Len(s) + Len(b) - q.size = Len(s) - r.size
    <3> DEFINE d == Dropped(r, b, TRUE)
               y == q.size
    <3>1. RingOk(q)
      BY <2>2
    <3>2. y \in Nat /\ d \in Nat /\ y + d = r.size + Len(b)
      BY <2>2, <3>1, RingFacts
    <3> HIDE DEF d, y
    <3>3. d > 0 \/ Len(s) + Len(b) - y = Len(s) - r.size
      BY <1>1, <3>2
    <3> QED
      BY <3>3 DEF d, y
  <2> QED
    BY <1>2, <2>1, <2>2, <2>4, <2>5 DEF q
<1>3. CASE old = FALSE
  <2> DEFINE q == AppendBytes(r, b, FALSE)
             u == Taken(r, b, FALSE)
  <2>1. /\ RingOk(q) /\ Cap(q) = Cap(r) /\ u \in Seq(Byte)
        /\ Dropped(r, b, FALSE) \in Nat
        /\ q.size + Dropped(r, b, FALSE) = r.size + Len(b)
        /\ EndOf(q, s \o u) /\ Len(s \o u) - q.size = Len(s) - r.size
    BY RefusesTheEnd
  <2> HIDE DEF q, u
  <2>2. Len(s \o u) = Len(s) + Len(u) /\ Len(u) \in Nat
    BY <2>1, ConcatProperties, LenProperties
  <2>3. q.size \in Nat
    BY <2>1, RingFacts
  <2>4. /\ Len(s) + Len(u) - q.size = Len(s) - r.size
        /\ Len(s) + Len(u) - q.size >= Len(s) - r.size
    BY <1>1, <2>1, <2>2, <2>3
  <2> QED
    BY <1>3, <2>1, <2>4 DEF q, u
<1> QED
  BY <1>2, <1>3
-----------------------------------------------------------------------------
(* The invariant                                                            *)

\* What holds in every state: the ring is the end of the stream it took, the events and the
\* ring account for the bytes, and what waits leaves room for more.
IInv ==
    /\ schema \in Schemas
    /\ RingOk(ring) /\ Cap(ring) <= schema.maxCapacity
    /\ profiles \in [Names -> {None} \cup 1 .. schema.capacity]
    /\ received \in Nat /\ stream \in Seq(Byte) /\ EndOf(ring, stream)
    /\ Accounts(events, stream, ring.size, received)
    /\ AllReach => ring.size < schema.capacity

\* At the start nothing accounts for nothing.
LEMMA NoneAccounts ==
    ASSUME NEW r, r.size = 0
    PROVE  <<>> \in Seq(Byte) /\ EndOf(r, <<>>) /\ Accounts(<<>>, <<>>, 0, 0)
<1>1. <<>> \in Seq(Byte) /\ <<>> \in Seq(Event) /\ Len(<<>>) = 0
  BY SeqEmpty
<1>2. Weights(<<>>) = <<>>
  <2>1. Weights(<<>>) \in Seq(Nat) /\ Len(Weights(<<>>)) = 0
    BY <1>1, WeightsType
  <2> QED
    BY <2>1, EmptySeq
<1>3. EndOf(r, <<>>)
  BY <1>1 DEF EndOf
<1>4. Accounts(<<>>, <<>>, 0, 0)
  BY <1>1, <1>2, SumNone DEF Accounts
<1> QED
  BY <1>1, <1>3, <1>4

\* A new parser satisfies the invariant.
LEMMA InitHolds == Init => IInv
<1> SUFFICES ASSUME Init PROVE IInv
  OBVIOUS
<1>1. schema \in Schemas
  BY DEF Init
<1>2. schema.capacity \in Nat /\ schema.capacity # 0 /\ schema.maxCapacity >= schema.capacity
  BY <1>1, FrameFacts
<1>3. RingOk(ring) /\ Cap(ring) = schema.capacity /\ ring.size = 0
  BY <1>2, EmptyRingOk DEF Init
<1>4. received = 0 /\ stream = <<>> /\ events = <<>>
  BY DEF Init
<1>5. stream \in Seq(Byte) /\ EndOf(ring, stream) /\ Accounts(events, stream, ring.size, received)
  BY <1>3, <1>4, NoneAccounts
<1>6. profiles \in [Names -> {None} \cup 1 .. schema.capacity]
  BY DEF Init, Names
<1>7. ring.size < schema.capacity
  BY <1>2, <1>3
<1> QED
  BY <1>1, <1>2, <1>3, <1>4, <1>5, <1>6, <1>7 DEF IInv

\* What a push gives to the loop, and what it leaves.
PushRuns(bytes, a, u, lost) ==
    LET t == stream \o u
        q == Parse(a, Len(t), lost)
    IN  /\ RingOk(a) /\ Cap(a) <= schema.maxCapacity /\ EndOf(a, t)
        /\ u \in Seq(Byte) /\ t \in Seq(Byte) /\ lost \in Seq(Event)
        /\ Accounts(events \o lost, t, a.size, received + Len(bytes))
        /\ \/ schema.dropOldest /\ lost # <<>> /\ lost[1].kind = "overflow"
           \/ Len(t) - a.size = Len(stream) - ring.size
        /\ lost = <<>> \/ \E e : lost = <<e>> /\ e.kind # "frame"
        /\ schema' = schema /\ profiles' = profiles /\ received' = received + Len(bytes)
        /\ ring' = q.ring /\ stream' = t /\ events' = events \o q.found

\* Bytes received: the ring grows and takes what fits, then the loop runs.
LEMMA PushDoes ==
    ASSUME IInv, NEW bytes \in Seq(Byte), Push(bytes)
    PROVE  \E a, u, lost : PushRuns(bytes, a, u, lost)
<1> DEFINE n == Len(bytes)
           old == schema.dropOldest
           r == EnsureAppendCapacity(ring, n)
           dropped == Dropped(r, bytes, old)
           u == Taken(r, bytes, old)
           lost == IF dropped > 0 THEN <<Overflow(dropped)>> ELSE <<>>
           a == AppendBytes(r, bytes, old)
           t == stream \o u
           q == Parse(a, Len(stream) + Len(u), lost)
<1>1. /\ schema \in Schemas /\ RingOk(ring) /\ Cap(ring) <= schema.maxCapacity
      /\ received \in Nat /\ stream \in Seq(Byte) /\ EndOf(ring, stream)
      /\ Accounts(events, stream, ring.size, received)
  BY DEF IInv
<1>2. schema' = schema /\ profiles' = profiles /\ received' = received + n
  BY DEF Push
<1>3. ring' = q.ring /\ stream' = t /\ events' = events \o q.found
  BY DEF Push, Taken
<1>4. n \in Nat /\ old \in BOOLEAN /\ events \in Seq(Event)
  BY <1>1, LenProperties, FrameFacts DEF Accounts
<1> HIDE DEF n, old
<1>5. RingOk(r) /\ EndOf(r, stream) /\ r.size = ring.size /\ Cap(r) <= schema.maxCapacity
  BY <1>1, <1>4, EnsureAppendKeeps
<1> HIDE DEF r
<1>6. /\ RingOk(a) /\ Cap(a) = Cap(r) /\ u \in Seq(Byte) /\ dropped \in Nat
      /\ a.size + dropped = r.size + n
      /\ EndOf(a, t) /\ Len(stream) + Len(u) - a.size >= Len(stream) - r.size
      /\ old => dropped > 0 \/ Len(stream) + Len(u) - a.size = Len(stream) - r.size
      /\ ~old => Len(stream) + Len(u) - a.size = Len(stream) - r.size
  BY <1>1, <1>4, <1>5, AppendKeeps, ZenonT(40) DEF n
<1> HIDE DEF a, u, dropped
<1>7. r.size \in Nat /\ a.size \in Nat /\ r.size <= Len(stream)
  BY <1>5, <1>6, RingFacts DEF EndOf
<1>8. Accounts(events \o lost, t, a.size, received + n)
  <2>1. Accounts(events, stream, r.size, received)
    BY <1>1, <1>5
  <2> QED
    BY <1>1, <1>4, <1>6, <1>7, <2>1, AccountsMore
<1>9. t \in Seq(Byte) /\ Len(t) = Len(stream) + Len(u)
  BY <1>1, <1>6, ConcatProperties
<1> DEFINE e == Overflow(dropped)
<1>10. lost \in Seq(Event) /\ lost = (IF dropped > 0 THEN <<e>> ELSE <<>>) /\ e.kind = "overflow"
  <2>1. e \in Event /\ e.kind = "overflow"
    BY <1>6 DEF Overflow, Event
  <2> HIDE DEF e
  <2>2. <<e>> \in Seq(Event) /\ <<>> \in Seq(Event)
    BY <2>1
  <2> QED
    BY <2>1, <2>2 DEF e
<1> HIDE DEF lost, e
<1>11. (old /\ lost # <<>> /\ lost[1].kind = "overflow") \/ Len(t) - a.size = Len(stream) - ring.size
  <2>1. CASE old /\ dropped > 0
    <3>1. lost = <<e>>
      BY <1>10, <2>1
    <3> QED
      BY <1>10, <2>1, <3>1
  <2>2. CASE ~(old /\ dropped > 0)
    <3> DEFINE fits == Len(stream) + Len(u) - a.size = Len(stream) - r.size
    <3>1. (old => dropped > 0 \/ fits) /\ (~old => fits)
      BY <1>6
    <3> HIDE DEF fits
    <3>2. fits
      BY <2>2, <3>1
    <3> HIDE DEF t
    <3>3. Len(t) - a.size = Len(stream) - ring.size
      <4>1. Len(t) = Len(stream) + Len(u) /\ r.size = ring.size
        BY <1>5, <1>9
      <4>2. Len(stream) + Len(u) - a.size = Len(stream) - r.size
        BY <3>2 DEF fits
      <4>3. /\ Len(stream) \in Nat /\ Len(u) \in Nat
            /\ a.size \in Nat /\ r.size \in Nat
        BY <1>1, <1>6, <1>7, LenProperties
      <4> QED
        BY ONLY <4>1, <4>2, <4>3
    <3> QED
      BY <3>3
  <2> QED
    BY <2>1, <2>2
<1>12. lost = <<>> \/ \E x : lost = <<x>> /\ x.kind # "frame"
  BY <1>10
<1>13. q = Parse(a, Len(t), lost) /\ Cap(a) <= schema.maxCapacity
  BY <1>5, <1>6, <1>9
<1> HIDE DEF q, t
<1>14. PushRuns(bytes, a, u, lost)
  BY <1>2, <1>3, <1>6, <1>8, <1>9, <1>10, <1>11, <1>12, <1>13 DEF PushRuns, n, old, t
<1> QED
  BY <1>14

\* A push keeps the invariant.
LEMMA PushKeeps ==
    ASSUME IInv, NEW bytes \in Seq(Byte), Push(bytes)
    PROVE  IInv'
<1> DEFINE rec == received + Len(bytes)
<1>1. PICK a, u, lost : PushRuns(bytes, a, u, lost)
  BY PushDoes
<1> DEFINE t == stream \o u
           q == Parse(a, Len(t), lost)
<1>2. /\ schema \in Schemas /\ received \in Nat /\ events \in Seq(Event)
      /\ profiles \in [Names -> {None} \cup 1 .. schema.capacity]
  BY DEF IInv, Accounts
<1>3. /\ RingOk(a) /\ Cap(a) <= schema.maxCapacity /\ EndOf(a, t)
      /\ t \in Seq(Byte) /\ lost \in Seq(Event) /\ Accounts(events \o lost, t, a.size, rec)
      /\ schema' = schema /\ profiles' = profiles /\ received' = rec
      /\ ring' = q.ring /\ stream' = t /\ events' = events \o q.found
  BY <1>1 DEF PushRuns
<1>4. rec \in Nat
  BY <1>2, LenProperties
<1> HIDE DEF rec, t
<1>5. /\ RingOk(q.ring) /\ Cap(q.ring) = Cap(a) /\ EndOf(q.ring, t)
      /\ Accounts(events \o q.found, t, q.ring.size, rec)
      /\ AllReach => q.ring.size < schema.capacity
  BY ONLY <1>2, <1>3, <1>4, ParseKeeps
<1> HIDE DEF q
<1>6. RingOk(ring') /\ Cap(ring') <= schema'.maxCapacity
  BY <1>3, <1>5
<1>7. Accounts(events, stream, ring.size, received)'
  <2>1. Accounts(events', stream', ring'.size, received')
    BY <1>3, <1>5
  <2>2. schema' = schema
    BY <1>3
  <2> QED
    BY <2>1, <2>2 DEF Accounts, FrameIn, Frames, Event, Names, Decodings, FieldNames
<1>8. (AllReach => ring.size < schema.capacity)'
  BY <1>3, <1>5 DEF AllReach, Frames, WithinReach
<1>9. (profiles \in [Names -> {None} \cup 1 .. schema.capacity])'
  BY <1>2, <1>3 DEF Names, Frames
<1>10. (received \in Nat)' /\ (stream \in Seq(Byte))' /\ EndOf(ring, stream)'
  BY <1>3, <1>4, <1>5
<1> QED
  BY <1>2, <1>3, <1>6, <1>7, <1>8, <1>9, <1>10 DEF IInv

\* What only changes the lengths set at run time changes nothing else.
LEMMA ProfilesKeep ==
    ASSUME IInv, UNCHANGED <<schema, ring, received, stream, events>>,
           (profiles \in [Names -> {None} \cup 1 .. schema.capacity])'
    PROVE  IInv'
<1>1. Accounts(events, stream, ring.size, received)'
  BY DEF IInv, Accounts, FrameIn, Frames, Event, Names, Decodings, FieldNames
<1>2. (AllReach => ring.size < schema.capacity)'
  BY DEF IInv, AllReach, Frames, WithinReach
<1> QED
  BY <1>1, <1>2 DEF IInv

\* A reset starts with an empty ring and no history.
LEMMA ResetKeeps ==
    ASSUME IInv, Reset
    PROVE  IInv'
<1>1. /\ schema \in Schemas /\ RingOk(ring) /\ Cap(ring) <= schema.maxCapacity
      /\ profiles \in [Names -> {None} \cup 1 .. schema.capacity]
  BY DEF IInv
<1>2. /\ ring' = [ring EXCEPT !.head = 0, !.size = 0] /\ schema' = schema /\ profiles' = profiles
      /\ received' = 0 /\ stream' = <<>> /\ events' = <<>>
  BY DEF Reset
<1> DEFINE e == ring'
<1>3. /\ e.cells = ring.cells /\ e.head = 0 /\ e.size = 0
      /\ e = [cells |-> e.cells, head |-> e.head, size |-> e.size]
  <2>1. e = [ring EXCEPT !.head = 0, !.size = 0]
    BY <1>2
  <2> HIDE DEF e
  <2> QED
    BY <1>1, <2>1, Emptied
<1>4. Cap(e) = Cap(ring) /\ ring.cells \in Seq(Byte) /\ Cap(ring) \in Nat /\ Cap(ring) # 0
  BY <1>1, <1>3, RingFacts DEF Cap, RingOk
<1>5. RingOk(e)
  <2> HIDE DEF e
  <2> QED
    BY <1>3, <1>4 DEF RingOk
<1>6. <<>> \in Seq(Byte) /\ EndOf(e, <<>>) /\ Accounts(<<>>, <<>>, 0, 0)
  <2> HIDE DEF e
  <2> QED
    BY <1>3, NoneAccounts
<1>7. Accounts(events, stream, ring.size, received)'
  BY <1>2, <1>3, <1>6 DEF Accounts, FrameIn, Frames, Event, Names, Decodings, FieldNames
<1>8. (ring.size < schema.capacity)'
  BY <1>1, <1>2, <1>3, FrameFacts
<1>9. (profiles \in [Names -> {None} \cup 1 .. schema.capacity])'
  BY <1>1, <1>2 DEF Names, Frames
<1> QED
  BY <1>1, <1>2, <1>4, <1>5, <1>6, <1>7, <1>8, <1>9 DEF IInv

\* Every step keeps the invariant.
LEMMA StepKeeps == IInv /\ [Next]_vars => IInv'
<1> SUFFICES ASSUME IInv, [Next]_vars PROVE IInv'
  OBVIOUS
<1>1. CASE \E n \in ChunkLengths : \E bytes \in [1 .. n -> Byte] : Push(bytes)
  <2>1. PICK n \in ChunkLengths : \E bytes \in [1 .. n -> Byte] : Push(bytes)
    BY <1>1
  <2>2. PICK bytes \in [1 .. n -> Byte] : Push(bytes)
    BY <2>1
  <2>3. n \in Nat
    BY <2>1, ParserAssumption DEF IInv, ChunkLengths, Least
  <2>4. bytes \in Seq(Byte)
    BY <2>2, <2>3
  <2> QED
    BY <2>2, <2>4, PushKeeps
<1>2. ASSUME NEW name \in ProfileFrames, NEW length \in Lengths, SetProfile(name, length)
      PROVE  IInv'
  <2>1. /\ profiles \in [Names -> {None} \cup 1 .. schema.capacity]
        /\ profiles' = [profiles EXCEPT ![name] = length] /\ schema' = schema
        /\ length \in 1 .. schema.capacity
        /\ UNCHANGED <<schema, ring, received, stream, events>>
    BY <1>2, ParserAssumption, FrameFacts DEF IInv, SetProfile
  <2>2. profiles' \in [Names -> {None} \cup 1 .. schema.capacity]
    BY <2>1
  <2>3. (profiles \in [Names -> {None} \cup 1 .. schema.capacity])'
    BY <2>1, <2>2 DEF Names, Frames
  <2> QED
    BY <2>1, <2>3, ProfilesKeep
<1>3. ASSUME NEW names, ClearProfiles(names)
      PROVE  IInv'
  <2>1. /\ profiles \in [Names -> {None} \cup 1 .. schema.capacity]
        /\ profiles' = [name \in DOMAIN profiles |-> IF name \in names THEN None ELSE profiles[name]]
        /\ schema' = schema
        /\ UNCHANGED <<schema, ring, received, stream, events>>
    BY <1>3 DEF IInv, ClearProfiles
  <2>2. profiles' \in [Names -> {None} \cup 1 .. schema.capacity]
    BY <2>1
  <2>3. (profiles \in [Names -> {None} \cup 1 .. schema.capacity])'
    BY <2>1, <2>2 DEF Names, Frames
  <2> QED
    BY <2>1, <2>3, ProfilesKeep
<1>4. CASE Reset
  BY <1>4, ResetKeeps
<1>5. CASE UNCHANGED vars
  <2>1. UNCHANGED <<schema, ring, received, stream, events>> /\ profiles' = profiles
    BY <1>5 DEF vars
  <2>2. (profiles \in [Names -> {None} \cup 1 .. schema.capacity])'
    BY <2>1 DEF IInv, Names, Frames
  <2> QED
    BY <2>1, <2>2, ProfilesKeep
<1> QED
  BY <1>1, <1>2, <1>3, <1>4, <1>5 DEF Next

\* Every state satisfies the invariant.
THEOREM ParserInvariant == Spec => []IInv
<1>1. Init => IInv
  BY InitHolds
<1>2. IInv /\ [Next]_vars => IInv'
  BY StepKeeps
<1> QED
  BY <1>1, <1>2, PTL DEF Spec

\* The invariant accounts for every byte of the stream.
LEMMA IntactHolds == IInv => StreamIntact
<1> SUFFICES ASSUME IInv PROVE StreamIntact
  OBVIOUS
<1> DEFINE Bytes(e) == CASE e.kind = "frame" -> Len(e.raw)
                         [] e.kind = "error" -> 1
                         [] OTHER -> e.count
           Found == {k \in DOMAIN events : events[k].kind = "frame"}
           w == Contents(ring)
           z == ring.size
           L == Len(stream)
           t == SubSeq(stream, L - z + 1, L)
<1>1. /\ RingOk(ring) /\ stream \in Seq(Byte) /\ EndOf(ring, stream)
      /\ Accounts(events, stream, z, received)
  BY DEF IInv
<1>2. events \in Seq(Event) /\ DOMAIN events = 1 .. Len(events)
  BY <1>1, LenProperties DEF Accounts
<1>3. received = z + SumOf([k \in DOMAIN events |-> Bytes(events[k])])
  <2>1. received = z + SumOf(Weights(events))
    BY <1>1 DEF Accounts
  <2>2. [k \in DOMAIN events |-> Bytes(events[k])] = Weights(events)
    BY DEF Weights, Weight
  <2> QED
    BY <2>1, <2>2
<1>4. w = t
  <2>1. z \in Nat /\ L \in Nat /\ z <= L /\ \A i \in 1 .. z : At(ring, i) = stream[L - z + i]
    BY <1>1, RingFacts, LenProperties DEF EndOf
  <2>2. w \in Seq(Byte) /\ Len(w) = z /\ \A i \in 1 .. z : w[i] = At(ring, i)
    BY <1>1, ContentsIs
  <2> DEFINE m == L - z + 1
  <2> HIDE DEF w, z
  <2>3. m \in Nat /\ m >= 1 /\ m <= L + 1 /\ L - m + 1 = z /\ L <= Len(stream)
    BY <2>1
  <2>4. \A i \in 1 .. z : m + i - 1 = L - z + i
    BY <2>1
  <2> HIDE DEF m, L
  <2>5. SubSeq(stream, m, L) \in Seq(Byte) /\ Len(SubSeq(stream, m, L)) = z
        /\ \A i \in 1 .. z : SubSeq(stream, m, L)[i] = stream[m + i - 1]
    BY <1>1, <2>1, <2>3, PieceOf
  <2>6. \A i \in 1 .. z : w[i] = SubSeq(stream, m, L)[i]
    BY <2>1, <2>2, <2>4, <2>5
  <2>7. w = SubSeq(stream, m, L)
    BY <2>2, <2>5, <2>6, SeqEqual
  <2> QED
    BY <2>7 DEF m
<1>5. ASSUME NEW k \in Found
      PROVE  /\ events[k].raw = SubSeq(stream, events[k].at + 1, events[k].at + Len(events[k].raw))
             /\ events[k].at + Len(events[k].raw) <= Len(stream) - ring.size
             /\ \A j \in Found : j < k => events[j].at + Len(events[j].raw) <= events[k].at
  <2>1. k \in 1 .. Len(events) /\ events[k].kind = "frame"
    BY <1>2
  <2>2. FrameIn(events, k, stream, z)
    BY <1>1, <2>1 DEF Accounts
  <2>3. \A j \in Found : j \in 1 .. Len(events) /\ events[j].kind = "frame"
    BY <1>2
  <2> HIDE DEF Found
  <2> QED
    BY <2>2, <2>3, Zenon DEF FrameIn
<1> HIDE DEF Bytes
<1> QED
  BY <1>3, <1>4, <1>5 DEF StreamIntact, Bytes

\* Every byte received is in one place, what waits is the end of the stream, and frames are
\* pieces of it, in order and apart, for every schema, every way to cut the bytes into pushes
\* and every order of pushes, settings and resets (pushBytes, ByteRingBuffer).
THEOREM StreamStaysIntact == Spec => []StreamIntact
  BY ParserInvariant, IntactHolds, PTL

\* The ring never outgrows max_capacity, and what waits leaves room in the buffer
\* if headers and length fields lie within it (validateResolvedFrameLength).
THEOREM ParserNeverStarves == Spec => []NeverStarves
<1>1. IInv => NeverStarves
  BY DEF IInv, NeverStarves, AllReach
<1> QED
  BY <1>1, ParserInvariant, PTL

\* Every field of a frame reported lies before its check bytes, whatever its count
\* expression computed (resolveFieldDecodePlan).
THEOREM FieldsStayInPayload == Spec => []FieldsInPayload
<1>1. IInv => FieldsInPayload
  <2> SUFFICES ASSUME IInv, NEW k \in DOMAIN events, NEW i \in Frames,
                      events[k].kind = "frame", events[k].name = schema.frames[i].name,
                      NEW d \in Range(events[k].decoded)
               PROVE  d.start + d.count * d.width
                          <= Len(events[k].raw) - schema.frames[i].crc
    BY DEF FieldsInPayload
  <2>1. Accounts(events, stream, ring.size, received)
    BY DEF IInv
  <2>2. k \in 1 .. Len(events)
    BY <2>1, LenProperties DEF Accounts
  <2>3. FrameIn(events, k, stream, ring.size)
    BY <2>1, <2>2 DEF Accounts
  <2> QED
    BY <2>3 DEF FrameIn
<1> QED
  BY <1>1, ParserInvariant, PTL

-----------------------------------------------------------------------------
(* The frames among the events                                              *)

\* f collects the frames of es, from event to event.
Collects(f, es) ==
    /\ f[0] = <<>>
    /\ \A k \in 1 .. Len(es) :
           f[k] = IF es[k].kind = "frame" THEN Append(f[k - 1], es[k]) ELSE f[k - 1]

\* What FramesOf chooses collects the frames.
LEMMA FramesOfUnfolds ==
    ASSUME NEW es, Len(es) \in Nat
    PROVE  \E c : FramesOf(es) = c[Len(es)] /\ Collects(c, es)
<1> DEFINE N == Len(es)
           Step(k, a) == IF es[k].kind = "frame" THEN Append(a, es[k]) ELSE a
           Up(h, m) == h = [k \in 0 .. m |-> IF k = 0 THEN <<>> ELSE Step(k, h[k - 1])]
           S == {m \in Nat : \E h : Up(h, m)}
           c == CHOOSE h : Up(h, N)
<1>1. FramesOf(es) = c[N]
  BY DEF FramesOf
<1> HIDE DEF Step
<1>2. 0 \in S
  <2> DEFINE h == [k \in 0 .. 0 |-> <<>>]
  <2>1. Up(h, 0)
    OBVIOUS
  <2> QED
    BY <2>1
<1>3. ASSUME NEW m \in S PROVE m + 1 \in S
  <2>1. m \in Nat /\ m + 1 \in Nat
    OBVIOUS
  <2>2. PICK h : Up(h, m)
    OBVIOUS
  <2> DEFINE g == [k \in 0 .. m + 1 |-> IF k <= m THEN h[k] ELSE Step(m + 1, h[m])]
  <2>3. ASSUME NEW k \in 0 .. m + 1
        PROVE  g[k] = IF k = 0 THEN <<>> ELSE Step(k, g[k - 1])
    <3>1. CASE k = 0
      <4>1. 0 \in 0 .. m /\ 0 \in 0 .. m + 1 /\ 0 <= m
        BY <2>1
      <4>2. h[0] = <<>>
        BY <2>2, <4>1
      <4> QED
        BY <3>1, <4>1, <4>2
    <3>2. CASE k # 0 /\ k <= m
      <4>1. k \in 0 .. m /\ k - 1 \in 0 .. m + 1 /\ k - 1 <= m /\ k <= m
        BY <2>1, <3>2
      <4>2. h[k] = Step(k, h[k - 1])
        BY <2>2, <3>2, <4>1
      <4>3. g[k] = h[k] /\ g[k - 1] = h[k - 1]
        BY <4>1
      <4> HIDE DEF g
      <4> QED
        BY <3>2, <4>2, <4>3
    <3>3. CASE k = m + 1
      <4>1. ~(m + 1 <= m) /\ m \in 0 .. m + 1 /\ m <= m /\ m + 1 # 0 /\ (m + 1) - 1 = m
            /\ m + 1 \in 0 .. m + 1
        BY <2>1
      <4>2. g[m + 1] = Step(m + 1, h[m]) /\ g[m] = h[m]
        BY <4>1
      <4> HIDE DEF g
      <4> QED
        BY <3>3, <4>1, <4>2
    <3> QED
      BY <2>1, <3>1, <3>2, <3>3
  <2>4. g = [k \in 0 .. m + 1 |-> g[k]]
    OBVIOUS
  <2> HIDE DEF g
  <2>5. Up(g, m + 1)
    BY <2>3, <2>4
  <2> QED
    BY <2>1, <2>5
<1>4. N \in S
  <2>1. S \in SUBSET Nat
    OBVIOUS
  <2> HIDE DEF S
  <2>2. S = Nat
    BY <1>2, <1>3, <2>1, NatSet
  <2> QED
    BY <2>2
<1>5. Up(c, N)
  BY <1>4
<1> HIDE DEF c
<1>6. c[0] = <<>>
  <2>1. 0 \in 0 .. N
    OBVIOUS
  <2> QED
    BY <1>5, <2>1
<1>7. ASSUME NEW k \in 1 .. N PROVE c[k] = Step(k, c[k - 1])
  <2>1. k \in 0 .. N /\ k # 0
    OBVIOUS
  <2> QED
    BY <1>5, <2>1
<1> QED
  BY <1>1, <1>6, <1>7 DEF Step, Collects

\* The frames are events, and there are none among none.
LEMMA FramesOfType ==
    ASSUME NEW D, NEW es \in Seq(D)
    PROVE  FramesOf(es) \in Seq(D) /\ (es = <<>> => FramesOf(es) = <<>>)
<1> DEFINE N == Len(es)
<1>1. N \in Nat /\ \A k \in 1 .. N : es[k] \in D
  BY LenProperties, ElementOfSeq
<1>2. PICK c : FramesOf(es) = c[N] /\ Collects(c, es)
  BY <1>1, FramesOfUnfolds
<1> DEFINE S == {k \in Nat : k <= N => c[k] \in Seq(D)}
<1>3. 0 \in S
  BY <1>2, SeqEmpty DEF Collects
<1>4. ASSUME NEW k \in S PROVE k + 1 \in S
  <2>1. k \in Nat /\ k + 1 \in Nat
    OBVIOUS
  <2> SUFFICES ASSUME k + 1 <= N PROVE c[k + 1] \in Seq(D)
    BY <2>1
  <2>2. k + 1 \in 1 .. N /\ (k + 1) - 1 = k /\ c[k] \in Seq(D)
    BY <1>1, <2>1
  <2>3. c[k + 1] = IF es[k + 1].kind = "frame" THEN Append(c[k], es[k + 1]) ELSE c[k]
    BY <1>2, <2>2 DEF Collects
  <2> QED
    BY <1>1, <2>2, <2>3, AppendProperties
<1>5. N \in S
  <2>1. S \in SUBSET Nat
    OBVIOUS
  <2> HIDE DEF S
  <2> QED
    BY <1>1, <1>3, <1>4, <2>1, NatSet
<1>6. es = <<>> => N = 0
  OBVIOUS
<1> QED
  BY <1>1, <1>2, <1>5, <1>6 DEF Collects

\* One event more is one frame more, or none.
LEMMA FramesOfAppend ==
    ASSUME NEW D, NEW es \in Seq(D), NEW e
    PROVE  FramesOf(Append(es, e)) = IF e.kind = "frame" THEN Append(FramesOf(es), e)
                                     ELSE FramesOf(es)
<1> DEFINE t == Append(es, e)
           N == Len(es)
<1>1. N \in Nat /\ Len(t) = N + 1 /\ t[N + 1] = e /\ \A k \in 1 .. N : t[k] = es[k]
  <2>1. es \in Seq(D \cup {e}) /\ e \in D \cup {e}
    BY SeqMonotonic
  <2> QED
    BY <2>1, AppendProperties, LenProperties
<1> HIDE DEF t
<1>2. PICK c : FramesOf(es) = c[N] /\ Collects(c, es)
  BY <1>1, FramesOfUnfolds
<1>3. PICK d : FramesOf(t) = d[N + 1] /\ Collects(d, t)
  <2>1. Len(t) \in Nat
    BY <1>1
  <2> QED
    BY <1>1, <2>1, FramesOfUnfolds
<1> DEFINE S == {k \in Nat : k <= N => c[k] = d[k]}
<1>4. 0 \in S
  BY <1>2, <1>3 DEF Collects
<1>5. ASSUME NEW k \in S PROVE k + 1 \in S
  <2>1. k \in Nat /\ k + 1 \in Nat
    OBVIOUS
  <2> SUFFICES ASSUME k + 1 <= N PROVE c[k + 1] = d[k + 1]
    BY <2>1
  <2>2. k + 1 \in 1 .. N /\ k + 1 \in 1 .. N + 1 /\ (k + 1) - 1 = k /\ c[k] = d[k]
        /\ t[k + 1] = es[k + 1]
    BY <1>1, <2>1
  <2>3. c[k + 1] = IF es[k + 1].kind = "frame" THEN Append(c[k], es[k + 1]) ELSE c[k]
    BY <1>2, <2>2 DEF Collects
  <2>4. d[k + 1] = IF t[k + 1].kind = "frame" THEN Append(d[k], t[k + 1]) ELSE d[k]
    BY <1>1, <1>3, <2>2 DEF Collects
  <2> QED
    BY <2>2, <2>3, <2>4
<1>6. c[N] = d[N]
  <2>1. S \in SUBSET Nat
    OBVIOUS
  <2> HIDE DEF S
  <2>2. N \in S
    BY <1>1, <1>4, <1>5, <2>1, NatSet
  <2> QED
    BY <1>1, <2>2 DEF S
<1>7. d[N + 1] = IF t[N + 1].kind = "frame" THEN Append(d[N], t[N + 1]) ELSE d[N]
  <2>1. N + 1 \in 1 .. N + 1 /\ (N + 1) - 1 = N
    BY <1>1
  <2> QED
    BY <1>1, <1>3, <2>1 DEF Collects
<1> QED
  BY <1>1, <1>2, <1>3, <1>6, <1>7 DEF t
-----------------------------------------------------------------------------
(* Windows that agree                                                       *)

\* t goes on where s ends.
Extends(s, t) == Len(s) <= Len(t) /\ \A k \in 1 .. Len(s) : t[k] = s[k]

\* v adds up the digits of b.
Reads(v, b, at, width) ==
    v[0] = 0 /\ \A i \in 1 .. width : v[i] = v[i - 1] * Base + b[at + i]

\* What Digits chooses reads the digits.
LEMMA DigitsUnfolds ==
    ASSUME NEW b, NEW at, NEW width \in Nat
    PROVE  \E v : Digits(b, at, width) = v[width] /\ Reads(v, b, at, width)
<1> DEFINE Step(k, a) == a * Base + b[at + k]
           Up(h, m) == h = [i \in 0 .. m |-> IF i = 0 THEN 0 ELSE Step(i, h[i - 1])]
           S == {m \in Nat : \E h : Up(h, m)}
           c == CHOOSE h : Up(h, width)
<1>1. Digits(b, at, width) = c[width]
  BY DEF Digits
<1> HIDE DEF Step
<1>2. 0 \in S
  <2> DEFINE h == [k \in 0 .. 0 |-> 0]
  <2>1. Up(h, 0)
    OBVIOUS
  <2> QED
    BY <2>1
<1>3. ASSUME NEW m \in S PROVE m + 1 \in S
  <2>1. m \in Nat /\ m + 1 \in Nat
    OBVIOUS
  <2>2. PICK h : Up(h, m)
    OBVIOUS
  <2> DEFINE g == [k \in 0 .. m + 1 |-> IF k <= m THEN h[k] ELSE Step(m + 1, h[m])]
  <2>3. ASSUME NEW k \in 0 .. m + 1
        PROVE  g[k] = IF k = 0 THEN 0 ELSE Step(k, g[k - 1])
    <3>1. CASE k = 0
      <4>1. 0 \in 0 .. m /\ 0 \in 0 .. m + 1 /\ 0 <= m
        BY <2>1
      <4>2. h[0] = 0
        BY <2>2, <4>1
      <4> QED
        BY <3>1, <4>1, <4>2
    <3>2. CASE k # 0 /\ k <= m
      <4>1. k \in 0 .. m /\ k - 1 \in 0 .. m + 1 /\ k - 1 <= m /\ k <= m
        BY <2>1, <3>2
      <4>2. h[k] = Step(k, h[k - 1])
        BY <2>2, <3>2, <4>1
      <4>3. g[k] = h[k] /\ g[k - 1] = h[k - 1]
        BY <4>1
      <4> HIDE DEF g
      <4> QED
        BY <3>2, <4>2, <4>3
    <3>3. CASE k = m + 1
      <4>1. ~(m + 1 <= m) /\ m \in 0 .. m + 1 /\ m <= m /\ m + 1 # 0 /\ (m + 1) - 1 = m
            /\ m + 1 \in 0 .. m + 1
        BY <2>1
      <4>2. g[m + 1] = Step(m + 1, h[m]) /\ g[m] = h[m]
        BY <4>1
      <4> HIDE DEF g
      <4> QED
        BY <3>3, <4>1, <4>2
    <3> QED
      BY <2>1, <3>1, <3>2, <3>3
  <2>4. g = [k \in 0 .. m + 1 |-> g[k]]
    OBVIOUS
  <2> HIDE DEF g
  <2>5. Up(g, m + 1)
    BY <2>3, <2>4
  <2> QED
    BY <2>1, <2>5
<1>4. width \in S
  <2>1. S \in SUBSET Nat
    OBVIOUS
  <2> HIDE DEF S
  <2>2. S = Nat
    BY <1>2, <1>3, <2>1, NatSet
  <2> QED
    BY <2>2
<1>5. Up(c, width)
  BY <1>4
<1> HIDE DEF c
<1>6. c[0] = 0
  <2>1. 0 \in 0 .. width
    OBVIOUS
  <2> QED
    BY <1>5, <2>1
<1>7. ASSUME NEW k \in 1 .. width PROVE c[k] = Step(k, c[k - 1])
  <2>1. k \in 0 .. width /\ k # 0
    OBVIOUS
  <2> QED
    BY <1>5, <2>1
<1> QED
  BY <1>1, <1>6, <1>7 DEF Step, Reads

\* Digits that agree make the same number.
LEMMA DigitsSame ==
    ASSUME NEW a, NEW b, NEW at, NEW width \in Nat, \A i \in 1 .. width : a[at + i] = b[at + i]
    PROVE  Digits(a, at, width) = Digits(b, at, width)
<1>1. PICK u : Digits(a, at, width) = u[width] /\ Reads(u, a, at, width)
  BY DigitsUnfolds
<1>2. PICK v : Digits(b, at, width) = v[width] /\ Reads(v, b, at, width)
  BY DigitsUnfolds
<1> DEFINE S == {k \in Nat : k <= width => u[k] = v[k]}
<1>3. 0 \in S
  BY <1>1, <1>2 DEF Reads
<1>4. ASSUME NEW k \in S PROVE k + 1 \in S
  <2>1. k \in Nat /\ k + 1 \in Nat
    OBVIOUS
  <2> SUFFICES ASSUME k + 1 <= width PROVE u[k + 1] = v[k + 1]
    BY <2>1
  <2>2. k + 1 \in 1 .. width /\ (k + 1) - 1 = k /\ u[k] = v[k]
    BY <2>1
  <2>3. u[k + 1] = u[k] * Base + a[at + (k + 1)]
    BY <1>1, <2>2 DEF Reads
  <2>4. v[k + 1] = v[k] * Base + b[at + (k + 1)]
    BY <1>2, <2>2 DEF Reads
  <2> QED
    BY <2>2, <2>3, <2>4
<1>5. width \in S
  <2>1. S \in SUBSET Nat
    OBVIOUS
  <2> HIDE DEF S
  <2> QED
    BY <1>3, <1>4, <2>1, NatSet
<1> QED
  BY <1>1, <1>2, <1>5

\* Windows that agree on their first n bytes.
AgreeTo(a, b, n) == \A k \in 1 .. n : a[k] = b[k]

\* A field of a frame of n bytes is decoded from these bytes alone.
LEMMA DecodeFieldSame ==
    ASSUME NEW f, FrameOk(f), NEW field, FieldOk(field), NEW a, NEW b, NEW n \in Nat,
           AgreeTo(a, b, n), f.crc <= n, NEW acc, AccOk(acc, n - f.crc)
    PROVE  DecodeField(f, a, n, acc, field) = DecodeField(f, b, n, acc, field)
<1> DEFINE limit == n - f.crc
           start == IF field.offset = None THEN acc.cursor ELSE field.offset
           count == CountOf(field.count, [parsed |-> acc.parsed, length |-> n,
                                          readable |-> limit, start |-> start,
                                          width |-> field.width])
           end == FieldEnd(start, count, field.width)
           scalar(w) == IF field.integer /\ count = 1 THEN Digits(w, start, field.width) ELSE None
           d == [name |-> field.name, start |-> start, count |-> count, width |-> field.width]
           Put(v) == [acc EXCEPT !.cursor = Greatest(@, end), !.parsed = (field.name :> v) @@ @,
                                 !.decoded = Append(@, d)]
           Fits == ~(count \notin Nat \/ end = None) /\ ~(start > limit \/ end > limit)
           q(w) == DecodeField(f, w, n, acc, field)
<1>3. field.width \in Nat /\ field.offset \in Nat \cup {None}
  BY DEF FieldOk
<1>4. f.crc \in Nat /\ limit \in Nat /\ limit <= n
  BY DEF FrameOk
<1>5. start \in Nat
  BY <1>3 DEF AccOk
<1>6. \A w : q(w) = IF acc.failed THEN acc
                    ELSE IF count \notin Nat \/ end = None THEN [acc EXCEPT !.failed = TRUE]
                    ELSE IF start > limit \/ end > limit
                         THEN [acc EXCEPT !.failed = f.length # "profile"]
                    ELSE Put(scalar(w))
  BY DEF DecodeField, Placed
<1>7. ASSUME Fits PROVE scalar(a) = scalar(b)
  <2>1. CASE ~(field.integer /\ count = 1)
    BY <2>1
  <2>2. CASE field.integer /\ count = 1
    <3>1. end = start + count * field.width
      BY <1>7 DEF FieldEnd
    <3>2. end = start + field.width /\ end <= n
      <4>1. end <= limit \/ end > limit
        <5>1. end \in Nat
          <6> HIDE DEF start, count
          <6> QED
            BY <1>3, <1>5, <2>2, <3>1
        <5> QED
          BY <1>4, <5>1
      <4> HIDE DEF start, count, end, limit
      <4>2. 1 * field.width = field.width
        BY <1>3
      <4>3. end = start + field.width
        BY <2>2, <3>1, <4>2
      <4> QED
        BY <1>3, <1>4, <1>5, <1>7, <4>1, <4>3
    <3> HIDE DEF start, count, end
    <3>3. \A m \in 1 .. field.width : a[start + m] = b[start + m]
      <4> SUFFICES ASSUME NEW m \in 1 .. field.width PROVE a[start + m] = b[start + m]
        OBVIOUS
      <4>1. start + m \in 1 .. n
        BY <1>3, <1>5, <3>2
      <4> QED
        BY <4>1 DEF AgreeTo
    <3>4. Digits(a, start, field.width) = Digits(b, start, field.width)
      BY <1>3, <3>3, DigitsSame
    <3> QED
      BY <2>2, <3>4
  <2> QED
    BY <2>1, <2>2
<1> HIDE DEF start, count, end, limit, scalar, Put, q
<1>8. q(a) = q(b)
  <2>1. CASE Fits
    BY <1>6, <1>7, <2>1
  <2>2. CASE ~Fits
    BY <1>6, <2>2
  <2> QED
    BY <2>1, <2>2
<1> QED
  BY <1>8 DEF q

\* The fields of a frame of n bytes are decoded from these bytes alone.
LEMMA DecodeFieldsSame ==
    ASSUME schema \in Schemas, NEW i \in Frames, NEW a, NEW b, NEW n \in Nat,
           AgreeTo(a, b, n), schema.frames[i].crc <= n
    PROVE  DecodeFields(schema.frames[i], a, n) = DecodeFields(schema.frames[i], b, n)
<1> DEFINE f == schema.frames[i]
           limit == n - f.crc
           N == Len(f.fields)
<1>1. FrameOk(f)
  BY FrameFacts
<1>2. N \in Nat
  BY <1>1 DEF FrameOk
<1>3. PICK c : /\ DecodeFields(f, a, n) = c[N] /\ c[0] = NothingDecoded
               /\ \A k \in 1 .. N : c[k] = DecodeField(f, a, n, c[k - 1], f.fields[k])
  BY <1>2, DecodeUnfolds
<1>4. PICK e : /\ DecodeFields(f, b, n) = e[N] /\ e[0] = NothingDecoded
               /\ \A k \in 1 .. N : e[k] = DecodeField(f, b, n, e[k - 1], f.fields[k])
  BY ONLY <1>2, DecodeUnfolds
<1> DEFINE S == {k \in Nat : k <= N => AccOk(c[k], limit) /\ c[k] = e[k]}
<1>5. 0 \in S
  <2>1. AccOk(NothingDecoded, limit)
    BY SeqEmpty DEF AccOk, NothingDecoded
  <2> QED
    BY <1>3, <1>4, <2>1
<1>6. ASSUME NEW k \in S PROVE k + 1 \in S
  <2>1. k \in Nat /\ k + 1 \in Nat
    OBVIOUS
  <2> SUFFICES ASSUME k + 1 <= N PROVE AccOk(c[k + 1], limit) /\ c[k + 1] = e[k + 1]
    BY <2>1
  <2>2. k <= N /\ k + 1 \in 1 .. N /\ (k + 1) - 1 = k
    BY <1>2, <2>1
  <2>3. AccOk(c[k], limit) /\ c[k] = e[k]
    BY <2>2
  <2>4. c[k + 1] = DecodeField(f, a, n, c[k], f.fields[k + 1])
    BY <1>3, <2>2
  <2>5. e[k + 1] = DecodeField(f, b, n, c[k], f.fields[k + 1])
    BY <1>4, <2>2, <2>3
  <2>6. c[k + 1] = e[k + 1]
    <3> DEFINE field == f.fields[k + 1]
               acc == c[k]
    <3>1. FieldOk(field)
      BY <1>1, <2>2 DEF FrameOk
    <3>2. f.crc <= n /\ AccOk(acc, n - f.crc)
      BY <2>3
    <3> HIDE DEF field, acc, f
    <3>3. DecodeField(f, a, n, acc, field) = DecodeField(f, b, n, acc, field)
      BY <1>1, <3>1, <3>2, DecodeFieldSame
    <3> QED
      BY <2>4, <2>5, <3>3 DEF acc, field
  <2> QED
    BY <2>2, <2>3, <2>4, <2>6, DecodeFieldOk
<1>7. N \in S
  <2>1. S \in SUBSET Nat
    OBVIOUS
  <2> HIDE DEF S
  <2> QED
    BY <1>2, <1>5, <1>6, <2>1, NatSet
<1> QED
  BY <1>2, <1>3, <1>4, <1>7

\* Windows that agree begin with the same piece.
LEMMA PieceSame ==
    ASSUME NEW a \in Seq(Byte), NEW b \in Seq(Byte), NEW n \in Nat, n <= Len(a), n <= Len(b),
           AgreeTo(a, b, n)
    PROVE  SubSeq(a, 1, n) = SubSeq(b, 1, n)
<1> DEFINE u == SubSeq(a, 1, n)
           v == SubSeq(b, 1, n)
<1>0. 1 \in Nat /\ 1 <= n + 1 /\ n - 1 + 1 = n /\ \A k \in 1 .. n : 1 + k - 1 = k
  OBVIOUS
<1>1. u \in Seq(Byte) /\ Len(u) = n - 1 + 1 /\ \A k \in 1 .. n - 1 + 1 : u[k] = a[1 + k - 1]
  BY <1>0, PieceOf
<1>2. v \in Seq(Byte) /\ Len(v) = n - 1 + 1 /\ \A k \in 1 .. n - 1 + 1 : v[k] = b[1 + k - 1]
  BY <1>0, PieceOf
<1> HIDE DEF u, v
<1>3. u = v
  <2>1. \A k \in 1 .. n : u[k] = v[k]
    BY <1>0, <1>1, <1>2 DEF AgreeTo
  <2> QED
    BY <1>0, <1>1, <1>2, <2>1, SeqEqual
<1> QED
  BY <1>3 DEF u, v

\* The check byte is computed from the bytes before it alone.
LEMMA SumSame ==
    ASSUME NEW a \in Seq(Byte), NEW b \in Seq(Byte), NEW n \in Nat, n <= Len(a), n <= Len(b),
           AgreeTo(a, b, n)
    PROVE  Sum(a, n) = Sum(b, n)
  BY PieceSame DEF Sum
-----------------------------------------------------------------------------
(* Frames whose length the bytes fix                                        *)

\* The length of a frame that needs no length set at run time.
FixedLength(f, w) ==
    LET n == Digits(w, f.offset, f.width) + (IF f.payload THEN f.extra ELSE 0)
    IN  IF f.length = "size" THEN f.size ELSE IF n > SizeMax THEN None ELSE n

\* Analyze of such a frame, with a buffer of cap bytes.
AnalyzeBy(cap, f, w) ==
    LET n == FixedLength(f, w)
        fields == DecodeFields(f, w, n)
    IN  IF Unread(f, w) THEN More
        ELSE IF n \notin 1 .. cap THEN Bad("invalid_length")
        ELSE IF n > Len(w) THEN More
        ELSE IF n < Len(f.header) + f.crc THEN Bad("invalid_length")
        ELSE IF ~CheckHolds(f, w, n) THEN Bad("crc_mismatch")
        ELSE IF fields.failed THEN Bad("field_failed")
        ELSE [action |-> "parsed", name |-> f.name, length |-> n, decoded |-> fields.decoded]

\* It is what the parser computes.
LEMMA AnalyzeIs ==
    ASSUME NEW f, FrameOk(f), f.length # "profile", NEW w
    PROVE  Analyze(f, w) = AnalyzeBy(schema.capacity, f, w)
<1>1. f.length = "size" \/ f.length = "len"
  BY DEF FrameOk
<1>2. DeclaredLength(f, w) = FixedLength(f, w)
  <2>1. CASE f.length = "size"
    BY <2>1 DEF DeclaredLength, FixedLength
  <2>2. CASE f.length = "len"
    BY <2>2 DEF DeclaredLength, FixedLength
  <2> QED
    BY <1>1, <2>1, <2>2
<1> QED
  BY <1>2 DEF Analyze, AnalyzeBy, ValidLength

\* A verdict other than to wait stands whatever comes behind the window.
LEMMA AnalyzeStable ==
    ASSUME schema \in Schemas, NEW i \in Frames, schema.frames[i].length # "profile",
           NEW a \in Seq(Byte), NEW b \in Seq(Byte), Extends(a, b), NEW cap \in Nat,
           AnalyzeBy(cap, schema.frames[i], a).action # "more"
    PROVE  AnalyzeBy(cap, schema.frames[i], b) = AnalyzeBy(cap, schema.frames[i], a)
<1> DEFINE f == schema.frames[i]
           n == FixedLength(f, a)
           fields(w) == DecodeFields(f, w, n)
           v(w) == AnalyzeBy(cap, f, w)
           parsed(w) == [action |-> "parsed", name |-> f.name, length |-> n,
                         decoded |-> fields(w).decoded]
<1>1. FrameOk(f)
  BY FrameFacts
<1>2. Len(a) \in Nat /\ Len(b) \in Nat /\ Len(a) <= Len(b) /\ \A k \in 1 .. Len(a) : b[k] = a[k]
  BY LenProperties DEF Extends
<1>3. Len(f.header) \in Nat /\ f.crc \in Nat /\ (f.length = "size" \/ f.length = "len")
  BY <1>1, HeaderLength, SMTT(20) DEF FrameOk
<1>4. v(a) = IF Unread(f, a) THEN More
             ELSE IF n \notin 1 .. cap THEN Bad("invalid_length")
             ELSE IF n > Len(a) THEN More
             ELSE IF n < Len(f.header) + f.crc THEN Bad("invalid_length")
             ELSE IF ~CheckHolds(f, a, n) THEN Bad("crc_mismatch")
             ELSE IF fields(a).failed THEN Bad("field_failed")
             ELSE parsed(a)
  BY DEF AnalyzeBy
<1>5. v(a).action # "more" /\ More.action = "more"
  BY DEF More
<1>6. ~Unread(f, a)
  BY <1>4, <1>5
<1>7. ~Unread(f, b) /\ FixedLength(f, b) = n
  <2>1. CASE f.length = "size"
    BY <2>1 DEF Unread, FixedLength
  <2>2. CASE f.length = "len"
    <3>1. f.offset \in Nat /\ f.width \in Nat
      BY <1>1, <2>2 DEF FrameOk
    <3>2. f.offset + f.width <= Len(a)
      BY <1>2, <1>6, <2>2, <3>1 DEF Unread
    <3>3. ~Unread(f, b)
      BY <1>2, <3>1, <3>2 DEF Unread
    <3>4. \A k \in 1 .. f.width : a[f.offset + k] = b[f.offset + k]
      <4> SUFFICES ASSUME NEW k \in 1 .. f.width PROVE a[f.offset + k] = b[f.offset + k]
        OBVIOUS
      <4>1. f.offset + k \in 1 .. Len(a)
        BY <1>2, <3>1, <3>2, SMTT(20)
      <4> QED
        BY <1>2, <4>1
    <3>5. Digits(a, f.offset, f.width) = Digits(b, f.offset, f.width)
      BY <3>1, <3>4, DigitsSame, ZenonT(40)
    <3> QED
      BY <3>3, <3>5 DEF FixedLength
  <2> QED
    BY <1>3, <2>1, <2>2
<1>8. v(b) = IF Unread(f, b) THEN More
             ELSE IF n \notin 1 .. cap THEN Bad("invalid_length")
             ELSE IF n > Len(b) THEN More
             ELSE IF n < Len(f.header) + f.crc THEN Bad("invalid_length")
             ELSE IF ~CheckHolds(f, b, n) THEN Bad("crc_mismatch")
             ELSE IF fields(b).failed THEN Bad("field_failed")
             ELSE parsed(b)
  BY <1>7 DEF AnalyzeBy
<1> HIDE DEF v, n, fields
<1>9. CASE n \notin 1 .. cap
  BY <1>4, <1>6, <1>7, <1>8, <1>9 DEF v
<1>10. CASE n \in 1 .. cap
  <2>1. ~(n > Len(a))
    BY <1>4, <1>5, <1>6, <1>10
  <2>2. n \in Nat /\ n # 0 /\ n <= Len(a) /\ n <= Len(b) /\ ~(n > Len(b))
    BY <1>2, <1>10, <2>1
  <2>3. CASE n < Len(f.header) + f.crc
    BY <1>4, <1>6, <1>7, <1>8, <1>10, <2>1, <2>2, <2>3 DEF v
  <2>4. CASE ~(n < Len(f.header) + f.crc)
    <3>1. AgreeTo(a, b, n) /\ AgreeTo(a, b, n - 1) /\ a[n] = b[n]
      BY <1>2, <2>2 DEF AgreeTo
    <3>2. f.crc <= n
      BY <1>3, <2>2, <2>4
    <3>3. fields(a) = fields(b)
      BY <2>2, <3>1, <3>2, DecodeFieldsSame DEF fields
    <3>4. Sum(a, n - 1) = Sum(b, n - 1)
      <4>1. n - 1 \in Nat /\ n - 1 <= Len(a) /\ n - 1 <= Len(b)
        BY <1>2, <2>2
      <4> QED
        BY <3>1, <4>1, SumSame
    <3>5. CheckHolds(f, a, n) <=> CheckHolds(f, b, n)
      BY <3>1, <3>4 DEF CheckHolds
    <3>6. parsed(a) = parsed(b)
      BY <3>3
    <3>8. v(a) = IF ~CheckHolds(f, a, n) THEN Bad("crc_mismatch")
                 ELSE IF fields(a).failed THEN Bad("field_failed") ELSE parsed(a)
      <4> HIDE DEF parsed
      <4> QED
        BY <1>4, <1>6, <1>10, <2>1, <2>4
    <3>9. v(b) = IF ~CheckHolds(f, b, n) THEN Bad("crc_mismatch")
                 ELSE IF fields(b).failed THEN Bad("field_failed") ELSE parsed(b)
      <4> HIDE DEF parsed
      <4> QED
        BY <1>7, <1>8, <1>10, <2>2, <2>4
    <3>7. v(a) = v(b)
      <4> HIDE DEF parsed
      <4>1. CASE ~CheckHolds(f, a, n)
        BY <3>5, <3>8, <3>9, <4>1
      <4>2. CASE CheckHolds(f, a, n)
        <5>1. v(a) = IF fields(a).failed THEN Bad("field_failed") ELSE parsed(a)
          BY <3>8, <4>2
        <5>2. v(b) = IF fields(b).failed THEN Bad("field_failed") ELSE parsed(b)
          BY <3>5, <3>9, <4>2
        <5> QED
          BY <3>3, <3>6, <5>1, <5>2
      <4> QED
        BY <4>1, <4>2
    <3> QED
      BY <3>7 DEF v
  <2> QED
    BY <2>3, <2>4
<1> QED
  BY <1>9, <1>10
-----------------------------------------------------------------------------
(* Headers in a stream                                                      *)

\* A schema whose frames need no length set at run time and whose headers tell them apart.
PlainSchema(sch) ==
    /\ \A i \in 1 .. Len(sch.frames) : sch.frames[i].length # "profile"
    /\ \A i, j \in 1 .. Len(sch.frames) : i # j =>
           LET f == sch.frames[i].header
               g == sch.frames[j].header
           IN  \A k \in 0 .. Len(f) - Len(g) :
                   SubSeq(f, k + 1, k + Len(g)) = g => k > 0 /\ k + Len(g) = Len(f)

\* No header starts at a place of t.
NoHead(sch, t, at) == \A i \in 1 .. Len(sch.frames) : ~HeaderAt(sch.frames[i], t, at)

\* None starts at n places from b on.
Quiet(sch, t, b, n) == \A k \in 0 .. n - 1 : NoHead(sch, t, b + k)

\* A header that starts no later than another one and ends no sooner is the same one, but
\* for two that end together.
LEMMA NoInner ==
    ASSUME schema \in Schemas, PlainSchema(schema), NEW i \in Frames, NEW j \in Frames,
           NEW t, NEW x \in Nat, NEW y \in Nat,
           HeaderAt(schema.frames[i], t, x), HeaderAt(schema.frames[j], t, y), x <= y,
           y + Len(schema.frames[j].header) <= x + Len(schema.frames[i].header),
           x = y \/ y + Len(schema.frames[j].header) < x + Len(schema.frames[i].header)
    PROVE  i = j /\ x = y
<1> DEFINE f == schema.frames[i].header
           g == schema.frames[j].header
           k == y - x
<1>1. FrameOk(schema.frames[i]) /\ FrameOk(schema.frames[j]) /\ Frames = 1 .. Len(schema.frames)
  BY FrameFacts
<1>2. f \in Seq(Byte) /\ g \in Seq(Byte) /\ Len(f) \in Nat /\ Len(g) \in Nat /\ Len(g) # 0
  BY <1>1, HeaderLength DEF FrameOk
<1>3. k \in Nat /\ y = x + k /\ k + Len(g) <= Len(f) /\ k \in 0 .. Len(f) - Len(g)
      /\ (k = 0 \/ k + Len(g) < Len(f))
  BY <1>2
<1>4. \A m \in 1 .. Len(f) : t[x + m] = f[m]
  BY DEF HeaderAt
<1>5. \A m \in 1 .. Len(g) : t[y + m] = g[m]
  BY DEF HeaderAt
<1>6. SubSeq(f, k + 1, k + Len(g)) = g
  <2> DEFINE p == k + 1
             q == k + Len(g)
             u == SubSeq(f, p, q)
  <2> HIDE DEF k, f, g
  <2>1. p \in Nat /\ q \in Nat /\ p >= 1 /\ q <= Len(f) /\ p <= q + 1 /\ q - p + 1 = Len(g)
        /\ \A m \in 1 .. Len(g) : p + m - 1 = k + m /\ k + m \in 1 .. Len(f)
                                  /\ x + (k + m) = y + m
    BY <1>2, <1>3
  <2> HIDE DEF p, q
  <2>2. u \in Seq(Byte) /\ Len(u) = Len(g) /\ \A m \in 1 .. Len(g) : u[m] = f[p + m - 1]
    BY <1>2, <2>1, PieceOf
  <2> HIDE DEF u
  <2>3. ASSUME NEW m \in 1 .. Len(g) PROVE u[m] = g[m]
    <3>1. u[m] = f[k + m]
      BY <2>1, <2>2
    <3>2. f[k + m] = t[x + (k + m)]
      BY <1>4, <2>1
    <3>3. t[y + m] = g[m]
      BY <1>5
    <3> QED
      BY <2>1, <3>1, <3>2, <3>3
  <2>4. u = g
    BY <1>2, <2>2, <2>3, SeqEqual
  <2> QED
    BY <2>4 DEF u, p, q
<1>7. i = j
  <2> SUFFICES ASSUME i # j PROVE FALSE
    OBVIOUS
  <2>1. k > 0 /\ k + Len(g) = Len(f)
    BY <1>1, <1>3, <1>6 DEF PlainSchema
  <2> HIDE DEF f, g, k
  <2> QED
    BY <1>2, <1>3, <2>1
<1>8. Len(f) = Len(g)
  BY <1>7
<1> HIDE DEF f, g
<1> QED
  BY <1>2, <1>3, <1>7, <1>8

\* At one place starts one header at most.
LEMMA OneHead ==
    ASSUME schema \in Schemas, PlainSchema(schema), NEW i \in Frames, NEW j \in Frames,
           NEW t, NEW x \in Nat,
           HeaderAt(schema.frames[i], t, x), HeaderAt(schema.frames[j], t, x)
    PROVE  i = j
<1> DEFINE m == Len(schema.frames[i].header)
           n == Len(schema.frames[j].header)
<1>1. FrameOk(schema.frames[i]) /\ FrameOk(schema.frames[j])
  BY FrameFacts
<1>2. m \in Nat /\ n \in Nat
  BY <1>1, HeaderLength
<1> HIDE DEF m, n
<1>3. CASE n <= m
  <2>1. x + n <= x + m /\ x <= x
    BY <1>2, <1>3
  <2> QED
    BY <2>1, NoInner DEF m, n
<1>4. CASE m <= n
  <2>1. x + m <= x + n /\ x <= x
    BY <1>2, <1>4
  <2> QED
    BY <2>1, NoInner DEF m, n
<1> QED
  BY <1>2, <1>3, <1>4

\* A header stays where it is whatever comes behind.
LEMMA HeadStays ==
    ASSUME NEW f, FrameOk(f), NEW s \in Seq(Byte), NEW t \in Seq(Byte), Extends(s, t), NEW x \in Nat
    PROVE  x + Len(f.header) <= Len(s) => (HeaderAt(f, s, x) <=> HeaderAt(f, t, x))
<1> DEFINE h == Len(f.header)
<1>1. Len(s) \in Nat /\ Len(t) \in Nat /\ h \in Nat /\ Len(s) <= Len(t)
      /\ \A k \in 1 .. Len(s) : t[k] = s[k]
  BY LenProperties, HeaderLength DEF Extends
<1> SUFFICES ASSUME x + h <= Len(s) PROVE HeaderAt(f, s, x) <=> HeaderAt(f, t, x)
  OBVIOUS
<1> HIDE DEF h
<1>2. x + h <= Len(t)
  BY <1>1
<1>3. \A k \in 1 .. h : t[x + k] = s[x + k]
  <2> SUFFICES ASSUME NEW k \in 1 .. h PROVE t[x + k] = s[x + k]
    OBVIOUS
  <2>1. x + k \in 1 .. Len(s)
    BY <1>1
  <2> QED
    BY <1>1, <2>1
<1>4. HeaderAt(f, s, x) <=> \A k \in 1 .. h : s[x + k] = f.header[k]
  BY DEF HeaderAt, h
<1>5. HeaderAt(f, t, x) <=> \A k \in 1 .. h : t[x + k] = f.header[k]
  BY <1>2 DEF HeaderAt, h
<1> QED
  BY <1>3, <1>4, <1>5

\* The bytes of t from the place "at" on.
Rest(t, at) == SubSeq(t, at + 1, Len(t))

\* They are these bytes.
LEMMA RestIs ==
    ASSUME NEW t \in Seq(Byte), NEW at \in Nat, at <= Len(t)
    PROVE  /\ Rest(t, at) \in Seq(Byte) /\ Len(Rest(t, at)) = Len(t) - at
           /\ \A k \in 1 .. Len(t) - at : Rest(t, at)[k] = t[at + k]
<1> DEFINE m == at + 1
           n == Len(t)
           u == SubSeq(t, m, n)
<1>1. m \in Nat /\ n \in Nat /\ m >= 1 /\ n <= Len(t) /\ m <= n + 1 /\ n - m + 1 = n - at
  BY LenProperties
<1>2. \A k \in 1 .. n - at : m + k - 1 = at + k
  BY <1>1
<1> HIDE DEF m
<1>3. u \in Seq(Byte) /\ Len(u) = n - m + 1 /\ \A k \in 1 .. n - m + 1 : u[k] = t[m + k - 1]
  <2> HIDE DEF n
  <2> QED
    BY <1>1, PieceOf
<1> HIDE DEF u, n
<1>4. u \in Seq(Byte) /\ Len(u) = n - at /\ \A k \in 1 .. n - at : u[k] = t[at + k]
  BY <1>1, <1>2, <1>3
<1>5. u = Rest(t, at)
  BY DEF Rest, u, m, n
<1> QED
  BY <1>4, <1>5 DEF n

\* A header in these bytes is one of t.
LEMMA RestHead ==
    ASSUME NEW f, FrameOk(f), NEW t \in Seq(Byte), NEW at \in Nat, at <= Len(t), NEW x \in Nat
    PROVE  HeaderAt(f, Rest(t, at), x) <=> HeaderAt(f, t, at + x)
<1> DEFINE h == Len(f.header)
           w == Rest(t, at)
           n == Len(t)
<1>1. n \in Nat /\ h \in Nat /\ Len(w) = n - at /\ \A k \in 1 .. n - at : w[k] = t[at + k]
  BY RestIs, LenProperties, HeaderLength
<1> HIDE DEF h, w, n
<1>2. x + h <= Len(w) <=> at + x + h <= n
  BY <1>1
<1>3. ASSUME x + h <= Len(w) PROVE \A k \in 1 .. h : w[x + k] = t[at + x + k]
  <2> SUFFICES ASSUME NEW k \in 1 .. h PROVE w[x + k] = t[at + x + k]
    OBVIOUS
  <2>1. x + k \in 1 .. n - at /\ at + (x + k) = at + x + k
    BY <1>1, <1>3
  <2>2. w[x + k] = t[at + (x + k)]
    BY <1>1, <2>1
  <2> QED
    BY <2>1, <2>2
<1>4. HeaderAt(f, w, x) <=> x + h <= Len(w) /\ \A k \in 1 .. h : w[x + k] = f.header[k]
  BY DEF HeaderAt, h
<1>5. HeaderAt(f, t, at + x) <=> at + x + h <= n /\ \A k \in 1 .. h : t[at + x + k] = f.header[k]
  BY DEF HeaderAt, h, n
<1> QED
  BY <1>2, <1>3, <1>4, <1>5 DEF w

\* What goes on behind s goes on behind the rest of s.
LEMMA RestExtends ==
    ASSUME NEW s \in Seq(Byte), NEW t \in Seq(Byte), Extends(s, t), NEW at \in Nat, at <= Len(s)
    PROVE  Extends(Rest(s, at), Rest(t, at))
<1>1. Len(s) \in Nat /\ Len(t) \in Nat /\ Len(s) <= Len(t) /\ \A k \in 1 .. Len(s) : t[k] = s[k]
  BY LenProperties DEF Extends
<1>2. Len(Rest(s, at)) = Len(s) - at /\ \A k \in 1 .. Len(s) - at : Rest(s, at)[k] = s[at + k]
  BY RestIs
<1>3. Len(Rest(t, at)) = Len(t) - at /\ \A k \in 1 .. Len(t) - at : Rest(t, at)[k] = t[at + k]
  <2>1. at <= Len(t)
    BY <1>1
  <2> QED
    BY <2>1, RestIs
<1>4. ASSUME NEW k \in 1 .. Len(s) - at PROVE Rest(t, at)[k] = Rest(s, at)[k]
  <2>1. k \in 1 .. Len(t) - at /\ at + k \in 1 .. Len(s)
    BY <1>1
  <2> QED
    BY <1>1, <1>2, <1>3, <2>1
<1> QED
  BY <1>1, <1>2, <1>3, <1>4 DEF Extends
-----------------------------------------------------------------------------
(* Scans                                                                    *)

\* What the frame i at the place "at" of t makes of the scan c.
Takes(sch, t, c, at, i) ==
    LET a == AnalyzeBy(sch.capacity, sch.frames[i], Rest(t, at))
    IN  /\ a.action = "parsed" =>
               c[at] = <<FrameAt(at, a, SubSeq(Rest(t, at), 1, a.length))>> \o c[at + a.length]
        /\ a.action = "more" => c[at] = <<>>
        /\ a.action = "error" => c[at] = c[at + 1]

\* c holds for each place of t the frames that are read from there on.
IsScan(sch, t, c) ==
    /\ \E D : \A at \in 0 .. Len(t) : c[at] \in Seq(D)
    /\ c[Len(t)] = <<>>
    /\ \A at \in 0 .. Len(t) - 1 :
           /\ NoHead(sch, t, at) => c[at] = c[at + 1]
           /\ \A i \in 1 .. Len(sch.frames) :
                  HeaderAt(sch.frames[i], t, at) => Takes(sch, t, c, at, i)

\* Where no header starts nothing is read.
LEMMA SkipScan ==
    ASSUME NEW sch, NEW t, Len(t) \in Nat, NEW c, IsScan(sch, t, c),
           NEW b \in Nat, NEW n \in Nat, b + n <= Len(t), Quiet(sch, t, b, n)
    PROVE  c[b] = c[b + n]
<1> DEFINE S == {k \in Nat : k <= n => c[b] = c[b + k]}
<1>1. 0 \in S
  OBVIOUS
<1>2. ASSUME NEW k \in S PROVE k + 1 \in S
  <2>1. k \in Nat /\ k + 1 \in Nat
    OBVIOUS
  <2> SUFFICES ASSUME k + 1 <= n PROVE c[b] = c[b + (k + 1)]
    BY <2>1
  <2>2. k \in 0 .. n - 1 /\ b + k \in 0 .. Len(t) - 1 /\ c[b] = c[b + k]
        /\ (b + k) + 1 = b + (k + 1)
    BY <2>1
  <2>3. c[b + k] = c[(b + k) + 1]
    BY <2>2 DEF IsScan, Quiet
  <2> QED
    BY <2>2, <2>3
<1>3. n \in S
  <2>1. S \in SUBSET Nat
    OBVIOUS
  <2> HIDE DEF S
  <2> QED
    BY <1>1, <1>2, <2>1, NatSet
<1> QED
  BY <1>3

\* The frames reported so far are those of every stream that goes on where s ends, up to
\* its last z bytes.
Tracks(sch, es, s, z) ==
    \A t \in Seq(Byte) : Extends(s, t) =>
        \A c : IsScan(sch, t, c) => c[0] = FramesOf(es) \o c[Len(s) - z]

\* The last z bytes of s hold no frame that is complete.
Settled(sch, s, z) == \A c : IsScan(sch, s, c) => c[Len(s) - z] = <<>>

\* A frame more in front of what follows.
LEMMA JoinFrame ==
    ASSUME NEW X, NEW u \in Seq(X), NEW Y, NEW v \in Seq(Y), NEW e
    PROVE  u \o (<<e>> \o v) = Append(u, e) \o v
<1> DEFINE D == X \cup Y \cup {e}
<1>1. u \in Seq(D) /\ v \in Seq(D) /\ e \in D
  BY SeqMonotonic
<1> HIDE DEF D
<1>2. <<e>> \in Seq(D)
  BY <1>1
<1>3. Append(u, e) = u \o <<e>>
  BY <1>1, AppendIsConcat
<1> QED
  BY <1>1, <1>2, <1>3, ConcatAssociative
-----------------------------------------------------------------------------
(* The loop follows every scan                                              *)

\* What the ring holds is the rest of the stream.
LEMMA RingRest ==
    ASSUME NEW r, RingOk(r), NEW s \in Seq(Byte), EndOf(r, s)
    PROVE  Contents(r) = Rest(s, Len(s) - r.size)
<1> DEFINE z == r.size
           L == Len(s)
           w == Contents(r)
           v == Rest(s, L - z)
<1>1. z \in Nat /\ L \in Nat /\ z <= L /\ \A i \in 1 .. z : At(r, i) = s[L - z + i]
  BY RingFacts, LenProperties DEF EndOf
<1>2. w \in Seq(Byte) /\ Len(w) = z /\ \A i \in 1 .. z : w[i] = At(r, i)
  BY ContentsIs
<1> HIDE DEF w, z
<1>3. v \in Seq(Byte) /\ Len(v) = z /\ \A i \in 1 .. z : v[i] = s[L - z + i]
  <2> DEFINE at == L - z
  <2>1. at \in Nat /\ at <= Len(s) /\ Len(s) - at = z
    BY <1>1
  <2> HIDE DEF at, L
  <2>2. Rest(s, at) \in Seq(Byte) /\ Len(Rest(s, at)) = z
        /\ \A i \in 1 .. z : Rest(s, at)[i] = s[at + i]
    BY <2>1, RestIs
  <2> QED
    BY <2>2 DEF at
<1> HIDE DEF v, L
<1>4. \A i \in 1 .. z : w[i] = v[i]
  BY <1>1, <1>2, <1>3
<1>5. w = v
  BY <1>2, <1>3, <1>4, SeqEqual
<1> QED
  BY <1>5 DEF w, v, L, z

\* Bytes that every scan skips are skipped by an event that is no frame.
LEMMA SkipTracks ==
    ASSUME NEW sch, NEW D, NEW es \in Seq(D), NEW s \in Seq(Byte), NEW z \in Nat, z <= Len(s),
           NEW n \in Nat, n <= z, NEW e, e.kind # "frame", Tracks(sch, es, s, z),
           \A t \in Seq(Byte) : Extends(s, t) =>
               \A c : IsScan(sch, t, c) => c[Len(s) - z] = c[Len(s) - z + n]
    PROVE  Tracks(sch, Append(es, e), s, z - n)
<1>1. Len(s) - z + n = Len(s) - (z - n)
  BY LenProperties
<1>2. FramesOf(Append(es, e)) = FramesOf(es)
  BY FramesOfAppend
<1>3. ASSUME NEW t \in Seq(Byte), Extends(s, t), NEW c, IsScan(sch, t, c)
      PROVE  c[0] = FramesOf(Append(es, e)) \o c[Len(s) - (z - n)]
  <2>1. c[0] = FramesOf(es) \o c[Len(s) - z]
    BY <1>3 DEF Tracks
  <2>2. c[Len(s) - z] = c[Len(s) - z + n]
    BY <1>3
  <2> QED
    BY <1>1, <1>2, <2>1, <2>2
<1> QED
  BY <1>3 DEF Tracks

\* A frame that every scan reads is reported.
LEMMA FrameTracks ==
    ASSUME NEW sch, NEW D, NEW es \in Seq(D), NEW s \in Seq(Byte), NEW z \in Nat, z <= Len(s),
           NEW n \in Nat, n <= z, NEW e, e.kind = "frame", Tracks(sch, es, s, z),
           \A t \in Seq(Byte) : Extends(s, t) =>
               \A c : IsScan(sch, t, c) => c[Len(s) - z] = <<e>> \o c[Len(s) - z + n]
    PROVE  Tracks(sch, Append(es, e), s, z - n)
<1>1. Len(s) \in Nat /\ Len(s) - z + n = Len(s) - (z - n)
  BY LenProperties
<1>2. FramesOf(Append(es, e)) = Append(FramesOf(es), e) /\ FramesOf(es) \in Seq(D)
  BY FramesOfAppend, FramesOfType
<1>3. ASSUME NEW t \in Seq(Byte), Extends(s, t), NEW c, IsScan(sch, t, c)
      PROVE  c[0] = FramesOf(Append(es, e)) \o c[Len(s) - (z - n)]
  <2>1. c[0] = FramesOf(es) \o c[Len(s) - z]
    BY <1>3 DEF Tracks
  <2>2. c[Len(s) - z] = <<e>> \o c[Len(s) - z + n]
    BY <1>3
  <2> DEFINE v == c[Len(s) - (z - n)]
             u == FramesOf(es)
  <2>3. \E Y : v \in Seq(Y)
    <3>1. PICK Y : \A at \in 0 .. Len(t) : c[at] \in Seq(Y)
      BY <1>3 DEF IsScan
    <3>2. Len(s) - (z - n) \in 0 .. Len(t)
      BY <1>1, <1>3, LenProperties DEF Extends
    <3> QED
      BY <3>1, <3>2
  <2>4. PICK Y : v \in Seq(Y)
    BY <2>3
  <2>5. c[0] = u \o (<<e>> \o v)
    BY <1>1, <2>1, <2>2
  <2>6. u \in Seq(D)
    BY <1>2
  <2> HIDE DEF u, v
  <2>7. u \o (<<e>> \o v) = Append(u, e) \o v
    BY <2>4, <2>6, JoinFrame, SMTT(20)
  <2> QED
    BY <1>2, <2>5, <2>7 DEF u, v
<1> QED
  BY <1>3 DEF Tracks

\* Where no header starts to the end, nothing waits to be read.
LEMMA QuietSettles ==
    ASSUME NEW sch, NEW s \in Seq(Byte), NEW z \in Nat, z <= Len(s),
           Quiet(sch, s, Len(s) - z, z)
    PROVE  \A n \in 0 .. z : Settled(sch, s, n)
<1> SUFFICES ASSUME NEW n \in 0 .. z, NEW c, IsScan(sch, s, c) PROVE c[Len(s) - n] = <<>>
  BY DEF Settled
<1> DEFINE b == Len(s) - n
<1>1. b \in Nat /\ n \in Nat /\ b + n = Len(s) /\ Len(s) \in Nat
  BY LenProperties
<1>2. ASSUME NEW k \in 0 .. n - 1 PROVE NoHead(sch, s, b + k)
  <2>1. (z - n) + k \in 0 .. z - 1 /\ Len(s) - z + ((z - n) + k) = b + k
    BY <1>1
  <2> QED
    BY <2>1 DEF Quiet
<1> HIDE DEF b
<1>3. b + n <= Len(s)
  BY <1>1
<1>4. c[b] = c[b + n]
  <2>1. Quiet(sch, s, b, n)
    BY <1>2 DEF Quiet
  <2> QED
    BY <1>1, <1>3, <2>1, SkipScan
<1> QED
  BY <1>1, <1>4 DEF IsScan, b

\* A header that no bytes behind s can complete does not start before the last ones kept.
LEMMA NothingHides ==
    ASSUME schema \in Schemas, NEW s \in Seq(Byte), NEW z \in Nat, z <= Len(s), z > Kept,
           Quiet(schema, s, Len(s) - z, z), NEW t \in Seq(Byte), Extends(s, t)
    PROVE  Quiet(schema, t, Len(s) - z, z - Kept)
<1> DEFINE b == Len(s) - z
           n == z - Kept
<1>1. b \in Nat /\ b + z = Len(s) /\ Len(s) \in Nat
  BY LenProperties
<1>2. MaxHeader \in Nat /\ MaxHeader # 0 /\ Kept = MaxHeader - 1
      /\ \A i \in Frames : Len(schema.frames[i].header) <= MaxHeader
  BY MaxHeaderIs DEF Kept
<1>3. n \in Nat /\ n + MaxHeader = z + 1
  BY <1>2
<1> HIDE DEF b, n
<1>4. ASSUME NEW k \in 0 .. n - 1, NEW i \in Frames, HeaderAt(schema.frames[i], t, b + k)
      PROVE  FALSE
  <2> DEFINE f == schema.frames[i]
             h == Len(f.header)
  <2>1. FrameOk(f)
    BY FrameFacts
  <2>2. h \in Nat /\ h <= MaxHeader
    BY <1>2, <2>1, HeaderLength
  <2> HIDE DEF h
  <2>3. b + k \in Nat /\ b + k + h <= Len(s) /\ k \in 0 .. z - 1
    BY <1>1, <1>2, <1>3, <2>2
  <2>4. HeaderAt(f, s, b + k)
    <3> DEFINE x == b + k
    <3>1. x \in Nat /\ x + Len(f.header) <= Len(s) /\ HeaderAt(f, t, x)
      BY <1>4, <2>3 DEF h
    <3> HIDE DEF x, f
    <3>2. HeaderAt(f, s, x)
      BY <2>1, <3>1, HeadStays
    <3> QED
      BY <3>2 DEF x
  <2>5. NoHead(schema, s, b + k)
    BY <2>3 DEF Quiet, b
  <2> QED
    BY <2>4, <2>5, FrameFacts DEF NoHead
<1> QED
  BY <1>4, FrameFacts DEF Quiet, NoHead, b, n

\* A header that starts before one that is complete is complete.
LEMMA NothingBefore ==
    ASSUME schema \in Schemas, PlainSchema(schema), NEW s \in Seq(Byte),
           NEW b \in Nat, NEW n \in Nat, Quiet(schema, s, b, n),
           NEW i \in Frames, HeaderAt(schema.frames[i], s, b + n),
           NEW t \in Seq(Byte), Extends(s, t)
    PROVE  Quiet(schema, t, b, n)
<1> DEFINE f == schema.frames[i]
           y == b + n
<1>1. FrameOk(f) /\ Len(f.header) \in Nat /\ Len(s) \in Nat
  BY FrameFacts, HeaderLength, LenProperties
<1>6. y \in Nat /\ HeaderAt(f, s, y)
  OBVIOUS
<1> HIDE DEF y
<1>2. y \in Nat /\ y + Len(f.header) <= Len(s) /\ HeaderAt(f, s, y)
  BY <1>6 DEF HeaderAt
<1>3. HeaderAt(f, t, y)
  BY <1>1, <1>2, HeadStays
<1>4. ASSUME NEW k \in 0 .. n - 1, NEW j \in Frames, HeaderAt(schema.frames[j], t, b + k)
      PROVE  FALSE
  <2> DEFINE g == schema.frames[j]
             x == b + k
  <2>1. FrameOk(g) /\ Len(g.header) \in Nat
    BY FrameFacts, HeaderLength
  <2>2. x \in Nat /\ x < y /\ HeaderAt(g, t, x)
    BY <1>4 DEF y
  <2> HIDE DEF x
  <2>3. CASE x + Len(g.header) <= Len(s)
    <3>1. HeaderAt(g, s, x)
      BY <2>1, <2>2, <2>3, HeadStays
    <3>2. NoHead(schema, s, x)
      BY DEF Quiet, x
    <3> QED
      BY <3>1, <3>2, FrameFacts DEF NoHead
  <2>4. CASE ~(x + Len(g.header) <= Len(s))
    <3>1. y + Len(f.header) < x + Len(g.header) /\ x <= y
          /\ y + Len(f.header) <= x + Len(g.header)
      <4> DEFINE d == Len(f.header)
                 e == Len(g.header)
                 L == Len(s)
      <4>1. /\ d \in Nat /\ e \in Nat /\ L \in Nat /\ x \in Nat /\ y \in Nat
            /\ y + d <= L /\ ~(x + e <= L) /\ x < y
        BY <1>1, <1>2, <2>1, <2>2, <2>4
      <4> HIDE DEF d, e, L
      <4>2. y + d < x + e /\ x <= y /\ y + d <= x + e
        BY <4>1
      <4> QED
        BY <4>2 DEF d, e
    <3>2. x = y
      BY <1>2, <1>3, <2>2, <3>1, NoInner
    <3> QED
      BY <1>2, <2>2, <3>2
  <2> QED
    BY <2>3, <2>4
<1> QED
  BY <1>4, FrameFacts DEF Quiet, NoHead

\* The frame whose header is at the front speaks for all.
LEMMA FrontIs ==
    ASSUME schema \in Schemas, PlainSchema(schema), NEW w \in Seq(Byte), NEW i \in Frames,
           HeaderAt(schema.frames[i], w, 0)
    PROVE  LET a == AnalyzeBy(schema.capacity, schema.frames[i], w)
           IN  AnalyzeCandidates(w) = (IF a.action = "more" THEN More ELSE a) /\ Answer(a, i, w)
<1> DEFINE f == schema.frames[i]
           a == AnalyzeBy(schema.capacity, f, w)
           D == {j \in Frames : HeaderAt(schema.frames[j], w, 0)}
           result == [j \in D |-> Analyze(schema.frames[j], w)]
           Of(action) == {j \in D : result[j].action = action}
<1>1. FrameOk(f) /\ f.length # "profile" /\ Frames = 1 .. Len(schema.frames)
  BY FrameFacts DEF PlainSchema
<1>2. Analyze(f, w) = a
  BY <1>1, AnalyzeIs
<1>3. Answer(a, i, w)
  BY <1>2, AnalyzeAnswers, LenProperties
<1>4. D = {i}
  <2>1. \A j \in D : j = i
    BY OneHead
  <2> QED
    BY <2>1
<1>5. AnalyzeCandidates(w)
        = IF Of("parsed") # {} THEN result[First(Of("parsed"))]
          ELSE IF Of("more") # {} THEN More
          ELSE result[First(Of("error"))]
  BY DEF AnalyzeCandidates, Best
<1> HIDE DEF D
<1>6. result[i] = a
  BY <1>2, <1>4
<1> HIDE DEF result, a
<1>7. a.action \in {"parsed", "more", "error"}
  BY <1>3 DEF Answer
<1>8. \A action : Of(action) = IF a.action = action THEN {i} ELSE {}
  BY <1>4, <1>6
<1>9. First({i}) = i
  <2>1. {i} \in SUBSET Frames /\ {i} # {}
    OBVIOUS
  <2>2. First({i}) \in {i}
    BY <2>1, FirstIn
  <2> QED
    BY <2>2
<1>10. AnalyzeCandidates(w) = IF a.action = "more" THEN More ELSE a
  <2>1. CASE a.action = "parsed"
    <3>1. Of("parsed") = {i}
      BY <1>8, <2>1
    <3> HIDE DEF Of
    <3> QED
      BY <1>5, <1>6, <1>9, <2>1, <3>1
  <2>2. CASE a.action = "more"
    <3>1. Of("parsed") = {} /\ Of("more") = {i}
      BY <1>8, <2>2
    <3> HIDE DEF Of
    <3> QED
      BY <1>5, <2>2, <3>1
  <2>3. CASE a.action = "error"
    <3>1. Of("parsed") = {} /\ Of("more") = {} /\ Of("error") = {i}
      BY <1>8, <2>3
    <3> HIDE DEF Of
    <3> QED
      BY <1>5, <1>6, <1>9, <2>3, <3>1
  <2> QED
    BY <1>7, <2>1, <2>2, <2>3
<1> QED
  BY <1>3, <1>10 DEF a

\* What every scan reads where a header is complete and its frame does not wait.
LEMMA HeadReads ==
    ASSUME schema \in Schemas, PlainSchema(schema), NEW s \in Seq(Byte),
           NEW b \in Nat, b < Len(s), NEW i \in Frames, HeaderAt(schema.frames[i], s, b),
           NEW a, a = AnalyzeBy(schema.capacity, schema.frames[i], Rest(s, b)),
           Answer(a, i, Rest(s, b)),
           NEW t \in Seq(Byte), Extends(s, t), NEW c, IsScan(schema, t, c)
    PROVE  /\ a.action = "parsed" =>
                  c[b] = <<FrameAt(b, a, SubSeq(Rest(s, b), 1, a.length))>> \o c[b + a.length]
           /\ a.action = "error" => c[b] = c[b + 1]
<1> DEFINE f == schema.frames[i]
           cap == schema.capacity
           u == Rest(s, b)
           v == Rest(t, b)
<1>1. FrameOk(f) /\ f.length # "profile" /\ Frames = 1 .. Len(schema.frames) /\ cap \in Nat
  BY FrameFacts DEF PlainSchema
<1>2. Len(s) \in Nat /\ Len(t) \in Nat /\ Len(s) <= Len(t) /\ b <= Len(s) /\ b <= Len(t)
      /\ b \in 0 .. Len(t) - 1
  BY LenProperties DEF Extends
<1>3. u \in Seq(Byte) /\ v \in Seq(Byte) /\ Extends(u, v)
  BY <1>2, RestIs, RestExtends
<1>4. HeaderAt(f, t, b)
  <2>1. b + Len(f.header) <= Len(s)
    BY DEF HeaderAt
  <2> QED
    BY <1>1, <2>1, HeadStays
<1>5. Takes(schema, t, c, b, i)
  BY <1>1, <1>2, <1>4 DEF IsScan
<1>6. ASSUME a.action # "more" PROVE AnalyzeBy(cap, f, v) = a
  <2> HIDE DEF u, v, cap
  <2>1. AnalyzeBy(cap, f, u) = a
    BY DEF u, cap
  <2> QED
    BY <1>1, <1>3, <1>6, <2>1, AnalyzeStable
<1>7. CASE a.action = "parsed"
  <2>1. AnalyzeBy(cap, f, v) = a
    BY <1>6, <1>7
  <2>2. c[b] = <<FrameAt(b, a, SubSeq(v, 1, a.length))>> \o c[b + a.length]
    BY <1>5, <1>7, <2>1 DEF Takes
  <2>3. a.length \in Nat /\ a.length <= Len(u)
    BY <1>7 DEF Answer
  <2> HIDE DEF u, v
  <2>4. a.length <= Len(v) /\ AgreeTo(u, v, a.length)
    <3>1. Len(u) \in Nat /\ Len(v) \in Nat
      BY <1>3, LenProperties
    <3> QED
      BY <1>3, <2>3, <3>1 DEF Extends, AgreeTo
  <2>5. SubSeq(u, 1, a.length) = SubSeq(v, 1, a.length)
    BY <1>3, <2>3, <2>4, PieceSame
  <2> QED
    BY <1>7, <2>2, <2>5 DEF u
<1>8. CASE a.action = "error"
  <2>1. AnalyzeBy(cap, f, v) = a
    BY <1>6, <1>8
  <2> QED
    BY <1>5, <1>8, <2>1 DEF Takes
<1> QED
  BY <1>7, <1>8

\* Bytes were lost.
Lossy(es) == \E k \in 1 .. Len(es) : es[k].kind = "overflow"

\* What was lost stays lost.
LEMMA LossyAppend ==
    ASSUME NEW D, NEW es \in Seq(D), NEW e, Lossy(es)
    PROVE  Lossy(Append(es, e))
<1> DEFINE t == Append(es, e)
           N == Len(es)
<1>1. N \in Nat /\ Len(t) = N + 1 /\ \A k \in 1 .. N : t[k] = es[k]
  <2>1. es \in Seq(D \cup {e}) /\ e \in D \cup {e}
    BY SeqMonotonic
  <2> QED
    BY <2>1, AppendProperties, LenProperties
<1> HIDE DEF t
<1>2. PICK k \in 1 .. N : es[k].kind = "overflow"
  BY DEF Lossy
<1>3. k \in 1 .. Len(t) /\ t[k].kind = "overflow"
  BY <1>1, <1>2
<1> QED
  BY <1>3 DEF Lossy, t

\* What takes n bytes off the ring, with one event more.
LEMMA Onward ==
    ASSUME NEW base \in Seq(Event), NEW r, RingOk(r), NEW found \in Seq(Event),
           NEW n \in Nat, n <= r.size, NEW e
    PROVE  /\ DiscardFront(r, n).size = r.size - n
           /\ base \o Append(found, e) = Append(base \o found, e)
           /\ base \o found \in Seq(Event)
           /\ Lossy(base \o found) => Lossy(base \o Append(found, e))
<1>1. DiscardFront(r, n).size = r.size - n
  BY DiscardTakes
<1> DEFINE D == Event \cup {e}
<1>2. base \in Seq(D) /\ found \in Seq(D) /\ e \in D
  BY SeqMonotonic
<1> HIDE DEF D
<1>3. <<e>> \in Seq(D)
  BY <1>2
<1>4. Append(found, e) = found \o <<e>>
  BY <1>2, AppendIsConcat
<1>5. base \o found \in Seq(D) /\ base \o found \in Seq(Event)
  BY <1>2, ConcatProperties
<1>6. Append(base \o found, e) = (base \o found) \o <<e>>
  BY <1>2, <1>5, AppendIsConcat
<1>7. base \o Append(found, e) = Append(base \o found, e)
  BY <1>2, <1>3, <1>4, <1>6, ConcatAssociative
<1>8. Lossy(base \o found) => Lossy(base \o Append(found, e))
  BY <1>5, <1>7, LossyAppend
<1> QED
  BY <1>1, <1>5, <1>7, <1>8

\* After p the loop still follows the scans, and waits only where all of them do.
Follows(base, s, p, q) ==
    /\ Tracks(schema, base \o p.found, s, p.ring.size)
           => Tracks(schema, base \o q.found, s, q.ring.size)
    /\ q.waits => Settled(schema, s, q.ring.size)
    /\ Lossy(base \o p.found) => Lossy(base \o q.found)

\* A pass follows every scan.
LEMMA PassFollows ==
    ASSUME schema \in Schemas, PlainSchema(schema),
           NEW base \in Seq(Event), NEW s \in Seq(Byte), NEW c, NEW rec \in Nat,
           NEW p, PassOk(p, base, s, c, rec), p.waits => Settled(schema, s, p.ring.size)
    PROVE  Follows(base, s, p, Pass(p, Len(s)))
<1> DEFINE r == p.ring
           w == Contents(r)
           z == r.size
           b == Len(s) - z
           es == base \o p.found
           starts == {k \in 0 .. Len(w) - 1 : \E i \in Frames : HeaderAt(schema.frames[i], w, k)}
           start == CHOOSE k \in starts : \A j \in starts : k <= j
           front == AnalyzeCandidates(w)
           q == Pass(p, Len(s))
           To(n, e, x) == [ring |-> DiscardFront(r, n), found |-> Append(p.found, e), waits |-> x]
           Waiting == [ring |-> r, found |-> p.found, waits |-> TRUE]
<1>1. /\ RingOk(r) /\ EndOf(r, s) /\ p.found \in Seq(Event)
  BY DEF PassOk
<1>2. /\ z \in Nat /\ z <= Len(s) /\ Len(s) \in Nat
      /\ w \in Seq(Byte) /\ Len(w) = z /\ w = Rest(s, b)
  BY <1>1, RingFacts, ContentsIs, LenProperties, RingRest DEF EndOf
<1>3. b \in Nat /\ b + z = Len(s) /\ b <= Len(s)
  BY <1>2
<1>4. MaxHeader \in Nat /\ MaxHeader # 0 /\ Kept \in Nat /\ Kept = MaxHeader - 1
  BY MaxHeaderIs DEF Kept
<1>5. es \in Seq(Event)
  BY <1>1, ConcatProperties
<1>6. Frames = 1 .. Len(schema.frames) /\ \A i \in Frames : FrameOk(schema.frames[i])
  BY FrameFacts
<1>7. q = IF p.waits \/ z = 0 THEN Waiting
          ELSE IF starts = {}
          THEN IF z <= Kept THEN Waiting ELSE To(z - Kept, Noise(z - Kept), TRUE)
          ELSE IF start > 0 THEN To(start, Noise(start), FALSE)
          ELSE CASE front.action = "parsed" ->
                      To(front.length, FrameAt(b, front, SubSeq(w, 1, front.length)), FALSE)
                 [] front.action = "more" -> Waiting
                 [] front.action = "error" -> To(1, Failure(front.code), FALSE)
  BY DEF Pass
<1> HIDE DEF q, front, start
<1>8. ASSUME NEW k \in 0 .. z - 1, NEW i \in Frames
      PROVE  HeaderAt(schema.frames[i], w, k) <=> HeaderAt(schema.frames[i], s, b + k)
  <2> HIDE DEF w, b, z
  <2>1. k \in Nat /\ FrameOk(schema.frames[i])
    BY <1>6
  <2> QED
    BY <1>2, <1>3, <2>1, RestHead
<1>9. \A k \in 0 .. z - 1 : k \notin starts => NoHead(schema, s, b + k)
  BY <1>2, <1>6, <1>8 DEF NoHead
<1> HIDE DEF starts
<1>10. ASSUME Settled(schema, s, z) PROVE Follows(base, s, p, Waiting)
  BY <1>10 DEF Follows
<1>11. ASSUME NEW n \in Nat, n <= z, NEW e, NEW x,
              Tracks(schema, es, s, z) => Tracks(schema, Append(es, e), s, z - n),
              x => Settled(schema, s, z - n)
       PROVE  Follows(base, s, p, To(n, e, x))
  <2> DEFINE t == To(n, e, x)
  <2>1. t.ring = DiscardFront(r, n) /\ t.found = Append(p.found, e) /\ t.waits = x
    OBVIOUS
  <2> HIDE DEF t
  <2>2. t.ring.size = z - n /\ base \o t.found = Append(es, e) /\ (Lossy(es) => Lossy(base \o t.found))
    <3> DEFINE found == p.found
    <3>0. RingOk(r) /\ found \in Seq(Event) /\ n \in Nat /\ n <= r.size
      BY <1>1, <1>11
    <3> HIDE DEF found, r
    <3>1. /\ DiscardFront(r, n).size = r.size - n
          /\ base \o Append(found, e) = Append(base \o found, e)
          /\ base \o found \in Seq(Event)
          /\ Lossy(base \o found) => Lossy(base \o Append(found, e))
      BY <3>0, Onward
    <3> QED
      BY <2>1, <3>1 DEF found, r
  <2>3. t.waits => Settled(schema, s, z - n)
    BY <1>11, <2>1
  <2>4. Follows(base, s, p, t)
    BY <1>11, <2>2, <2>3 DEF Follows
  <2> QED
    BY <2>4 DEF t
<1>12. CASE p.waits \/ z = 0
  <2>1. q = Waiting
    BY <1>7, <1>12
  <2>2. CASE p.waits
    BY <1>10, <2>1, <2>2 DEF q
  <2>3. CASE z = 0
    <3>1. Settled(schema, s, z)
      BY <1>2, <2>3 DEF Settled, IsScan
    <3> QED
      BY <1>10, <2>1, <3>1 DEF q
  <2> QED
    BY <1>12, <2>2, <2>3
<1>13. CASE ~(p.waits \/ z = 0) /\ starts = {}
  <2>1. Quiet(schema, s, b, z)
    BY <1>9, <1>13 DEF Quiet
  <2>2. \A n \in 0 .. z : Settled(schema, s, n)
    BY <1>2, <2>1, QuietSettles
  <2>3. CASE z <= Kept
    <3>1. q = Waiting
      BY <1>7, <1>13, <2>3
    <3>2. Settled(schema, s, z)
      BY <1>2, <2>2
    <3> QED
      BY <1>10, <3>1, <3>2 DEF q
  <2>4. CASE ~(z <= Kept)
    <3> DEFINE n == z - Kept
               e == Noise(n)
    <3>1. q = To(n, e, TRUE)
      BY <1>7, <1>13, <2>4
    <3>2. n \in Nat /\ n <= z /\ z - n = Kept /\ z > Kept /\ z - n \in 0 .. z /\ b + n <= Len(s)
      BY <1>2, <1>3, <1>4, <2>4, SMTT(20)
    <3>3. e.kind # "frame"
      BY DEF Noise
    <3> HIDE DEF e
    <3>4. ASSUME NEW t \in Seq(Byte), Extends(s, t), NEW d, IsScan(schema, t, d)
          PROVE  d[b] = d[b + n]
      <4>1. Quiet(schema, t, b, n)
        BY <1>2, <2>1, <3>2, <3>4, NothingHides
      <4> HIDE DEF n, b
      <4>2. Len(t) \in Nat /\ b + n <= Len(t)
        BY <1>2, <1>3, <3>2, <3>4, LenProperties DEF Extends
      <4> QED
        BY <1>3, <3>2, <3>4, <4>1, <4>2, SkipScan
    <3>5. Tracks(schema, es, s, z) => Tracks(schema, Append(es, e), s, z - n)
      <4> HIDE DEF n
      <4> QED
        BY <1>2, <1>5, <3>2, <3>3, <3>4, SkipTracks
    <3>6. Settled(schema, s, z - n)
      BY <2>2, <3>2
    <3> HIDE DEF n
    <3>7. Follows(base, s, p, To(n, e, TRUE))
      BY <1>11, <3>2, <3>5, <3>6
    <3> QED
      BY <3>1, <3>7 DEF q
  <2> QED
    BY <2>3, <2>4
<1>14. ASSUME starts # {}
       PROVE  start \in 0 .. z - 1 /\ start \in starts /\ \A j \in starts : start <= j
  <2>1. starts \in SUBSET Nat /\ starts \in SUBSET (0 .. z - 1)
    BY <1>2 DEF starts
  <2>2. \E k \in starts : \A j \in starts : k <= j
    BY <1>14, <2>1, LeastExists
  <2> QED
    BY <2>1, <2>2 DEF start
<1>15. CASE ~(p.waits \/ z = 0) /\ starts # {} /\ start > 0
  <2> DEFINE n == start
             e == Noise(n)
  <2>1. q = To(n, e, FALSE)
    BY <1>7, <1>15
  <2>2. n \in Nat /\ n < z /\ n <= z /\ n \in starts /\ n \in 0 .. z - 1 /\ \A j \in starts : n <= j
    BY <1>2, <1>14, <1>15
  <2>3. e.kind # "frame"
    BY DEF Noise
  <2> HIDE DEF e, n
  <2>4. PICK i \in Frames : HeaderAt(schema.frames[i], s, b + n)
    BY <1>8, <2>2 DEF starts
  <2>5. Quiet(schema, s, b, n)
    <3>1. \A k \in 0 .. n - 1 : k \in 0 .. z - 1 /\ k \notin starts
      BY <1>2, <2>2
    <3> QED
      BY <1>9, <3>1 DEF Quiet
  <2>6. ASSUME NEW t \in Seq(Byte), Extends(s, t), NEW d, IsScan(schema, t, d)
        PROVE  d[b] = d[b + n]
    <3> HIDE DEF b
    <3>1. Quiet(schema, t, b, n)
      BY <1>3, <2>2, <2>4, <2>5, <2>6, NothingBefore
    <3>2. Len(t) \in Nat /\ b + n <= Len(t)
      BY <1>2, <1>3, <2>2, <2>6, LenProperties DEF Extends
    <3> QED
      BY <1>3, <2>2, <2>6, <3>1, <3>2, SkipScan
  <2>7. Tracks(schema, es, s, z) => Tracks(schema, Append(es, e), s, z - n)
    BY <1>2, <1>5, <2>2, <2>3, <2>6, SkipTracks
  <2>8. Follows(base, s, p, To(n, e, FALSE))
    BY <1>11, <2>2, <2>7
  <2> QED
    BY <2>1, <2>8 DEF q
<1>16. CASE ~(p.waits \/ z = 0) /\ starts # {} /\ ~(start > 0)
  <2>1. start = 0 /\ 0 \in starts /\ 0 \in 0 .. z - 1 /\ b < Len(s) /\ 1 <= z
    BY <1>2, <1>3, <1>14, <1>16
  <2>2. PICK i \in Frames : HeaderAt(schema.frames[i], w, 0)
    BY <2>1 DEF starts
  <2>3. HeaderAt(schema.frames[i], s, b)
    <3>1. b + 0 = b
      BY <1>3
    <3> QED
      BY <1>8, <2>1, <2>2, <3>1
  <2> DEFINE a == AnalyzeBy(schema.capacity, schema.frames[i], w)
  <2>4. front = (IF a.action = "more" THEN More ELSE a) /\ Answer(a, i, w)
    BY <1>2, <2>2, FrontIs DEF front
  <2>5. a = AnalyzeBy(schema.capacity, schema.frames[i], Rest(s, b)) /\ Answer(a, i, Rest(s, b))
    BY <1>2, <2>4
  <2> HIDE DEF a
  <2>6. ASSUME NEW t \in Seq(Byte), Extends(s, t), NEW d, IsScan(schema, t, d)
        PROVE  /\ a.action = "parsed" =>
                      d[b] = <<FrameAt(b, a, SubSeq(w, 1, a.length))>> \o d[b + a.length]
               /\ a.action = "error" => d[b] = d[b + 1]
    <3>1. /\ a.action = "parsed" =>
                 d[b] = <<FrameAt(b, a, SubSeq(Rest(s, b), 1, a.length))>> \o d[b + a.length]
          /\ a.action = "error" => d[b] = d[b + 1]
      <4> HIDE DEF b
      <4>1. /\ schema \in Schemas /\ PlainSchema(schema) /\ s \in Seq(Byte)
            /\ b \in Nat /\ b < Len(s) /\ i \in Frames /\ HeaderAt(schema.frames[i], s, b)
        BY <1>3, <2>1, <2>3
      <4> QED
        BY ONLY <2>5, <2>6, <4>1, HeadReads, SMTT(20)
    <3>2. w = Rest(s, b)
      BY <1>2
    <3> HIDE DEF w, b
    <3> QED
      BY ONLY <3>1, <3>2
  <2>7. CASE a.action = "parsed"
    <3> DEFINE n == a.length
               e == FrameAt(b, a, SubSeq(w, 1, n))
    <3>1. front = a
      BY <2>4, <2>7
    <3>2. q = To(n, e, FALSE)
      BY <1>7, <1>16, <2>7, <3>1
    <3>3. n \in Nat /\ n <= z
      BY <1>2, <2>4, <2>7 DEF Answer
    <3>4. e.kind = "frame"
      BY DEF FrameAt
    <3>5. \A t \in Seq(Byte) : Extends(s, t) =>
              \A d : IsScan(schema, t, d) => d[b] = <<e>> \o d[b + n]
      BY <2>6, <2>7
    <3> HIDE DEF e, n
    <3>6. Tracks(schema, es, s, z) => Tracks(schema, Append(es, e), s, z - n)
      BY <1>2, <1>5, <3>3, <3>4, <3>5, FrameTracks
    <3>7. Follows(base, s, p, To(n, e, FALSE))
      BY <1>11, <3>3, <3>6
    <3> QED
      BY <3>2, <3>7 DEF q
  <2>8. CASE a.action = "more"
    <3>1. front.action = "more"
      BY <2>4, <2>8 DEF More
    <3>2. q = Waiting
      BY <1>7, <1>16, <3>1
    <3>3. ASSUME NEW d, IsScan(schema, s, d) PROVE d[b] = <<>>
      <4>1. b \in 0 .. Len(s) - 1 /\ i \in 1 .. Len(schema.frames)
        BY <1>2, <1>3, <1>6, <2>1
      <4>2. Takes(schema, s, d, b, i)
        BY <2>3, <3>3, <4>1 DEF IsScan
      <4> QED
        BY <2>5, <2>8, <4>2 DEF Takes
    <3>4. Settled(schema, s, z)
      BY <3>3 DEF Settled
    <3> QED
      BY <1>10, <3>2, <3>4 DEF q
  <2>9. CASE a.action = "error"
    <3> DEFINE e == Failure(a.code)
    <3>1. front = a
      BY <2>4, <2>9
    <3>2. q = To(1, e, FALSE)
      BY <1>7, <1>16, <2>9, <3>1
    <3>3. 1 \in Nat /\ 1 <= z
      BY <2>1
    <3>4. e.kind # "frame"
      BY DEF Failure
    <3>5. \A t \in Seq(Byte) : Extends(s, t) =>
              \A d : IsScan(schema, t, d) => d[b] = d[b + 1]
      BY <2>6, <2>9
    <3> HIDE DEF e
    <3>6. Tracks(schema, es, s, z) => Tracks(schema, Append(es, e), s, z - 1)
      BY <1>2, <1>5, <3>3, <3>4, <3>5, SkipTracks
    <3>7. Follows(base, s, p, To(1, e, FALSE))
      BY <1>11, <3>3, <3>6
    <3> QED
      BY <3>2, <3>7 DEF q
  <2> QED
    BY <2>4, <2>7, <2>8, <2>9 DEF Answer
<1> QED
  BY <1>12, <1>13, <1>15, <1>16 DEF q

\* The loop follows every scan, and ends only where all of them wait.
LEMMA ParseFollows ==
    ASSUME schema \in Schemas, PlainSchema(schema),
           NEW base \in Seq(Event), NEW s \in Seq(Byte), NEW rec \in Nat,
           NEW r, RingOk(r), EndOf(r, s), NEW found \in Seq(Event),
           Accounts(base \o found, s, r.size, rec)
    PROVE  LET q == Parse(r, Len(s), found)
           IN  /\ Tracks(schema, base \o found, s, r.size)
                      => Tracks(schema, base \o q.found, s, q.ring.size)
               /\ Settled(schema, s, q.ring.size)
               /\ Lossy(base \o found) => Lossy(base \o q.found)
<1> DEFINE N == r.size
           x == Cap(r)
           start == [ring |-> r, found |-> found, waits |-> FALSE]
<1>1. N \in Nat
  BY RingFacts
<1>2. PICK c : /\ Parse(r, Len(s), found) = c[N] /\ c[0] = start
               /\ \A k \in 1 .. N : c[k] = Pass(c[k - 1], Len(s))
  <2> DEFINE total == Len(s)
  <2> HIDE DEF total
  <2>1. \E c : /\ Parse(r, total, found) = c[r.size]
               /\ c[0] = [ring |-> r, found |-> found, waits |-> FALSE]
               /\ \A k \in 1 .. r.size : c[k] = Pass(c[k - 1], total)
    <3>1. r.size \in Nat
      BY <1>1
    <3> QED
      BY ONLY <3>1, ParseUnfolds, SMTT(20)
  <2> QED
    BY <2>1, Zenon DEF total
<1> DEFINE Small(k) == c[k].ring.size <= N - k
           Good(k) == PassOk(c[k], base, s, x, rec) /\ (c[k].waits \/ Small(k))
           Far(k) == Follows(base, s, start, c[k])
           S == {k \in Nat : k <= N => Good(k) /\ Far(k)}
<1>3. start.ring = r /\ start.found = found /\ ~start.waits
      /\ start \in [ring : {r}, found : Seq(Event), waits : BOOLEAN]
  OBVIOUS
<1> HIDE DEF start
<1>4. 0 \in S
  <2>1. PassOk(start, base, s, x, rec)
    BY <1>3 DEF PassOk
  <2>2. Small(0)
    BY <1>1, <1>2, <1>3
  <2>3. Follows(base, s, start, start)
    BY <1>3 DEF Follows
  <2> QED
    BY <1>2, <2>1, <2>2, <2>3
<1>5. ASSUME NEW k \in S PROVE k + 1 \in S
  <2>1. k \in Nat /\ k + 1 \in Nat
    OBVIOUS
  <2> SUFFICES ASSUME k + 1 <= N PROVE Good(k + 1) /\ Far(k + 1)
    BY <2>1
  <2>2. k <= N /\ k + 1 \in 1 .. N /\ (k + 1) - 1 = k
    BY <1>1, <2>1
  <2> DEFINE p == c[k]
             q == c[k + 1]
  <2>3. PassOk(p, base, s, x, rec) /\ (p.waits \/ Small(k)) /\ Follows(base, s, start, p)
    BY <2>2
  <2>4. q = Pass(p, Len(s))
    BY <1>2, <2>2
  <2> HIDE DEF p, q
  <2>5. PassOk(q, base, s, x, rec) /\ (q.waits \/ q.ring.size < p.ring.size)
    BY <2>3, <2>4, PassKeeps
  <2>6. Follows(base, s, p, q)
    <3>1. p.waits => Settled(schema, s, p.ring.size)
      BY <2>3 DEF Follows
    <3> QED
      BY <2>3, <2>4, <3>1, PassFollows
  <2>7. Follows(base, s, start, q)
    BY <2>3, <2>6 DEF Follows
  <2>8. q.waits \/ q.ring.size <= N - (k + 1)
    <3>1. CASE p.waits
      <4>1. q = [ring |-> p.ring, found |-> p.found, waits |-> TRUE]
        BY <2>4, <3>1 DEF Pass
      <4> QED
        BY <4>1
    <3>2. CASE ~p.waits
      <4>1. RingOk(p.ring) /\ RingOk(q.ring)
        BY <2>3, <2>5 DEF PassOk
      <4>2. p.ring.size \in Nat /\ q.ring.size \in Nat
        BY <4>1, RingFacts
      <4>3. p.ring.size <= N - k
        BY <2>3, <3>2 DEF p
      <4>4. q.ring.size < p.ring.size => q.ring.size <= N - (k + 1)
        BY <1>1, <2>1, <4>2, <4>3
      <4> QED
        BY <2>5, <4>4
    <3> QED
      BY <3>1, <3>2
  <2> QED
    BY <2>5, <2>7, <2>8 DEF q
<1>6. N \in S
  <2>1. S \in SUBSET Nat
    OBVIOUS
  <2> HIDE DEF S
  <2> QED
    BY <1>1, <1>4, <1>5, <2>1, NatSet
<1> DEFINE q == c[N]
<1>7. PassOk(q, base, s, x, rec) /\ (q.waits \/ q.ring.size <= N - N) /\ Follows(base, s, start, q)
  BY <1>1, <1>6
<1> HIDE DEF q, S
<1>8. Settled(schema, s, q.ring.size)
  <2>1. q.ring.size \in Nat
    <3>1. RingOk(q.ring)
      BY <1>7 DEF PassOk
    <3> QED
      BY <3>1, RingFacts
  <2>2. CASE q.waits
    BY <1>7, <2>2 DEF Follows
  <2>3. CASE q.ring.size <= N - N
    <3>1. q.ring.size = 0 /\ Len(s) - 0 = Len(s)
      BY <1>1, <2>1, <2>3, LenProperties
    <3> QED
      BY <3>1 DEF Settled, IsScan
  <2> QED
    BY <1>7, <2>2, <2>3
<1>9. Parse(r, Len(s), found) = q
  BY <1>2 DEF q
<1> QED
  BY <1>3, <1>7, <1>8, <1>9 DEF Follows
-----------------------------------------------------------------------------
(* The invariant of the scans                                               *)

\* By a schema that is meant, the frames reported are those of every stream that goes on
\* where this one ends, and what waits holds none; only where the oldest bytes are
\* overwritten the frames of what was lost are missing.
ScanInv ==
    PlainSchema(schema) =>
        /\ ~(schema.dropOldest /\ Lossy(events)) => Tracks(schema, events, stream, ring.size)
        /\ Settled(schema, stream, ring.size)

\* Nothing read follows every scan.
LEMMA NothingRead ==
    ASSUME NEW sch
    PROVE  Tracks(sch, <<>>, <<>>, 0) /\ Settled(sch, <<>>, 0)
<1>1. Len(<<>>) = 0 /\ 0 - 0 = 0
  OBVIOUS
<1>2. FramesOf(<<>>) = <<>>
  BY SeqEmpty, FramesOfType
<1>3. ASSUME NEW t \in Seq(Byte), NEW c, IsScan(sch, t, c)
      PROVE  c[0] = FramesOf(<<>>) \o c[Len(<<>>) - 0]
  <2>1. PICK D : \A at \in 0 .. Len(t) : c[at] \in Seq(D)
    BY <1>3 DEF IsScan
  <2>2. 0 \in 0 .. Len(t)
    BY LenProperties
  <2>3. c[0] \in Seq(D)
    BY <2>1, <2>2
  <2> DEFINE v == c[0]
  <2> HIDE DEF v
  <2>4. <<>> \o v = v
    BY <2>3, ConcatEmptySeq DEF v
  <2> QED
    BY <1>1, <1>2, <2>4 DEF v
<1>4. Tracks(sch, <<>>, <<>>, 0)
  BY <1>3 DEF Tracks
<1>5. Settled(sch, <<>>, 0)
  BY <1>1 DEF Settled, IsScan
<1> QED
  BY <1>4, <1>5

\* What was lost before or with a piece was lost.
LEMMA LossyConcat ==
    ASSUME NEW D, NEW es \in Seq(D), NEW fs \in Seq(D)
    PROVE  /\ Lossy(es) => Lossy(es \o fs)
           /\ fs # <<>> /\ fs[1].kind = "overflow" => Lossy(es \o fs)
<1> DEFINE t == es \o fs
<1>1. Len(es) \in Nat /\ Len(fs) \in Nat /\ Len(t) = Len(es) + Len(fs)
      /\ (\A k \in 1 .. Len(es) : t[k] = es[k])
      /\ \A k \in 1 .. Len(fs) : t[Len(es) + k] = fs[k]
  BY ConcatProperties, LenProperties
<1> HIDE DEF t
<1>2. ASSUME Lossy(es) PROVE Lossy(t)
  <2>1. PICK k \in 1 .. Len(es) : es[k].kind = "overflow"
    BY <1>2 DEF Lossy
  <2>2. k \in 1 .. Len(t) /\ t[k].kind = "overflow"
    BY <1>1, <2>1
  <2> QED
    BY <2>2 DEF Lossy
<1>3. ASSUME fs # <<>>, fs[1].kind = "overflow" PROVE Lossy(t)
  <2>1. Len(fs) # 0
    BY <1>3, EmptySeq
  <2>2. 1 \in 1 .. Len(fs) /\ Len(es) + 1 \in 1 .. Len(t)
    BY <1>1, <2>1
  <2>3. t[Len(es) + 1].kind = "overflow"
    BY <1>1, <1>3, <2>2
  <2> QED
    BY <2>2, <2>3 DEF Lossy
<1> QED
  BY <1>2, <1>3 DEF t

\* A push follows every scan.
LEMMA PushFollows ==
    ASSUME IInv, ScanInv, NEW bytes \in Seq(Byte), Push(bytes)
    PROVE  ScanInv'
<1>1. PICK a, u, lost : PushRuns(bytes, a, u, lost)
  BY PushDoes
<1> DEFINE t == stream \o u
           q == Parse(a, Len(t), lost)
           rec == received + Len(bytes)
<1>2. /\ schema \in Schemas /\ received \in Nat /\ stream \in Seq(Byte) /\ EndOf(ring, stream)
      /\ RingOk(ring) /\ events \in Seq(Event)
  BY DEF IInv, Accounts
<1>3. /\ RingOk(a) /\ EndOf(a, t) /\ u \in Seq(Byte) /\ t \in Seq(Byte) /\ lost \in Seq(Event)
      /\ Accounts(events \o lost, t, a.size, rec)
      /\ schema' = schema /\ ring' = q.ring /\ stream' = t /\ events' = events \o q.found
  BY <1>1 DEF PushRuns
<1>4. \/ schema.dropOldest /\ lost # <<>> /\ lost[1].kind = "overflow"
      \/ Len(t) - a.size = Len(stream) - ring.size
  BY <1>1 DEF PushRuns
<1>5. lost = <<>> \/ \E e : lost = <<e>> /\ e.kind # "frame"
  BY <1>1 DEF PushRuns
<1>6. rec \in Nat
  BY <1>2, LenProperties
<1>7. Extends(stream, t)
  <2>1. Len(t) = Len(stream) + Len(u) /\ Len(stream) \in Nat /\ Len(u) \in Nat
        /\ \A k \in 1 .. Len(stream) : t[k] = stream[k]
    BY <1>2, <1>3, ConcatProperties, LenProperties
  <2> HIDE DEF t
  <2> QED
    BY <2>1 DEF Extends
<1> HIDE DEF t, rec
<1> SUFFICES ASSUME PlainSchema(schema)
             PROVE  /\ ~(schema.dropOldest /\ Lossy(events \o q.found))
                           => Tracks(schema, events \o q.found, t, q.ring.size)
                    /\ Settled(schema, t, q.ring.size)
  BY <1>3 DEF ScanInv
<1>8. /\ Tracks(schema, events \o lost, t, a.size)
             => Tracks(schema, events \o q.found, t, q.ring.size)
      /\ Settled(schema, t, q.ring.size)
      /\ Lossy(events \o lost) => Lossy(events \o q.found)
  BY <1>2, <1>3, <1>6, ParseFollows
<1> HIDE DEF q
<1>9. ASSUME ~(schema.dropOldest /\ Lossy(events \o q.found))
      PROVE  Tracks(schema, events \o q.found, t, q.ring.size)
  <2>1. ~(schema.dropOldest /\ Lossy(events \o lost))
    BY <1>8, <1>9
  <2>2. ~(schema.dropOldest /\ Lossy(events)) /\ Len(t) - a.size = Len(stream) - ring.size
    BY <1>2, <1>3, <1>4, <2>1, LossyConcat
  <2>3. Tracks(schema, events, stream, ring.size)
    BY <2>2 DEF ScanInv
  <2>4. FramesOf(events \o lost) = FramesOf(events)
    <3>1. CASE lost = <<>>
      BY <1>2, <3>1, ConcatEmptySeq
    <3>2. CASE lost # <<>>
      <4>1. PICK e : lost = <<e>> /\ e.kind # "frame"
        BY <1>5, <3>2
      <4>2. e \in Event
        <5>1. 1 \in 1 .. Len(lost) /\ lost[1] = e
          BY <4>1
        <5> QED
          BY <1>3, <5>1, ElementOfSeq
      <4>3. events \o lost = Append(events, e)
        BY <1>2, <4>1, <4>2, AppendIsConcat
      <4> QED
        BY <1>2, <4>1, <4>3, FramesOfAppend
    <3> QED
      BY <3>1, <3>2
  <2>5. ASSUME NEW x \in Seq(Byte), Extends(t, x), NEW c, IsScan(schema, x, c)
        PROVE  c[0] = FramesOf(events \o lost) \o c[Len(t) - a.size]
    <3>1. Extends(stream, x)
      <4>1. Len(stream) \in Nat /\ Len(t) \in Nat /\ Len(x) \in Nat
        BY <1>2, <1>3, LenProperties
      <4> QED
        BY <1>7, <2>5, <4>1 DEF Extends
    <3>2. c[0] = FramesOf(events) \o c[Len(stream) - ring.size]
      BY <2>3, <2>5, <3>1 DEF Tracks
    <3> QED
      BY <2>2, <2>4, <3>2
  <2>6. Tracks(schema, events \o lost, t, a.size)
    BY <2>5 DEF Tracks
  <2> QED
    BY <1>8, <2>6
<1> QED
  BY <1>8, <1>9

\* What FramesAsScanned reads in one go is such a scan.
LEMMA ScanIs ==
    ASSUME schema \in Schemas, PlainSchema(schema), stream \in Seq(Byte)
    PROVE  \E c : Scan = c[0] /\ IsScan(schema, stream, c)
<1> DEFINE L == Len(stream)
           Win(at) == SubSeq(stream, at + 1, Len(stream))
           Hds(at) == {i \in Frames : HeaderAt(schema.frames[i], Win(at), 0)}
           Fr(at) == Analyze(schema.frames[CHOOSE i \in Hds(at) : TRUE], Win(at))
           One(at) == FrameAt(at, Fr(at), SubSeq(Win(at), 1, Fr(at).length))
           Step(h, at) == IF Win(at) = <<>> THEN <<>>
                          ELSE IF Hds(at) = {} THEN h[at + 1]
                          ELSE CASE Fr(at).action = "parsed" -> <<One(at)>> \o h[at + Fr(at).length]
                                 [] Fr(at).action = "more" -> <<>>
                                 [] Fr(at).action = "error" -> h[at + 1]
           Up(h) == h = [at \in 0 .. Len(stream) |-> Step(h, at)]
           c == CHOOSE h : Up(h)
<1>1. Scan = c[0]
  BY DEF Scan
<1>2. L \in Nat
  BY LenProperties
<1>3. ASSUME NEW at \in 0 .. L
      PROVE  /\ Win(at) = Rest(stream, at) /\ Win(at) \in Seq(Byte) /\ Len(Win(at)) = L - at
             /\ Win(at) = <<>> <=> at = L
  <2>1. Win(at) = Rest(stream, at)
    BY DEF Rest
  <2>2. at \in Nat /\ at <= Len(stream)
    BY <1>2
  <2> HIDE DEF Win
  <2>3. Win(at) \in Seq(Byte) /\ Len(Win(at)) = L - at
    BY <2>1, <2>2, RestIs
  <2> HIDE DEF L
  <2>4. Win(at) = <<>> <=> Len(Win(at)) = 0
    BY <2>3, EmptySeq
  <2> QED
    BY <1>2, <2>1, <2>3, <2>4
<1> HIDE DEF Win
<1>4. ASSUME NEW at \in 0 .. L - 1, NEW i \in Frames, HeaderAt(schema.frames[i], stream, at)
      PROVE  /\ Hds(at) # {}
             /\ Fr(at) = AnalyzeBy(schema.capacity, schema.frames[i], Rest(stream, at))
             /\ Answer(Fr(at), i, Win(at))
  <2> DEFINE w == Win(at)
             f == schema.frames[i]
  <2>1. at \in 0 .. L /\ at \in Nat /\ at <= Len(stream) /\ at + 0 = at
    BY <1>2
  <2>2. w = Rest(stream, at) /\ w \in Seq(Byte)
    BY <1>3, <2>1
  <2>3. FrameOk(f) /\ f.length # "profile"
    BY FrameFacts DEF PlainSchema
  <2>4. HeaderAt(f, w, 0)
    <3>1. HeaderAt(f, Rest(stream, at), 0) <=> HeaderAt(f, stream, at + 0)
      BY <2>1, <2>3, RestHead
    <3>2. HeaderAt(f, stream, at + 0)
      BY <1>4, <2>1
    <3> HIDE DEF f, w
    <3> QED
      BY <2>2, <3>1, <3>2
  <2>5. Hds(at) = {i}
    <3>1. \A j \in Hds(at) : j = i
      <4> HIDE DEF w
      <4> SUFFICES ASSUME NEW j \in Frames, HeaderAt(schema.frames[j], w, 0) PROVE j = i
        BY DEF w
      <4> QED
        BY <2>4, OneHead
    <3> QED
      BY <2>4, <3>1
  <2>6. (CHOOSE j \in Hds(at) : TRUE) = i
    <3> HIDE DEF Hds
    <3> QED
      BY <2>5
  <2> HIDE DEF Hds
  <2>7. Fr(at) = Analyze(f, w)
    BY <2>6
  <2>8. Analyze(f, w) = AnalyzeBy(schema.capacity, f, w)
    BY <2>3, AnalyzeIs
  <2>9. Answer(Analyze(f, w), i, w)
    BY <2>2, AnalyzeAnswers, LenProperties
  <2> QED
    BY <2>2, <2>5, <2>7, <2>8, <2>9
<1>5. ASSUME NEW at \in 0 .. L - 1
      PROVE  Hds(at) = {} <=> NoHead(schema, stream, at)
  <2>1. at \in 0 .. L /\ at \in Nat /\ at <= Len(stream) /\ at + 0 = at
    BY <1>2
  <2>2. Win(at) = Rest(stream, at) /\ Frames = 1 .. Len(schema.frames)
    BY <1>3, <2>1, FrameFacts
  <2>3. ASSUME NEW i \in Frames
        PROVE  HeaderAt(schema.frames[i], Win(at), 0) <=> HeaderAt(schema.frames[i], stream, at)
    <3>1. FrameOk(schema.frames[i])
      BY FrameFacts
    <3> QED
      BY <2>1, <2>2, <3>1, RestHead
  <2> QED
    BY <2>2, <2>3 DEF NoHead
<1>6. ASSUME NEW at \in 0 .. L - 1, Hds(at) # {}
      PROVE  /\ Fr(at).action \in {"parsed", "more", "error"}
             /\ Fr(at).action = "parsed" => Fr(at).length \in 1 .. L - at
  <2>1. PICK i \in Frames : HeaderAt(schema.frames[i], stream, at)
    BY <1>5, <1>6, FrameFacts DEF NoHead
  <2>2. Answer(Fr(at), i, Win(at))
    BY <1>4, <2>1
  <2>3. Len(Win(at)) = L - at
    BY <1>2, <1>3
  <2> HIDE DEF Fr
  <2> QED
    BY <1>2, <2>2, <2>3 DEF Answer
<1> HIDE DEF Hds, Fr, One
<1>7. ASSUME NEW at \in 0 .. L, NEW g, NEW h, \A k \in at + 1 .. L : g[k] = h[k]
      PROVE  Step(g, at) = Step(h, at)
  <2>1. CASE at = L
    BY <1>3, <2>1
  <2>2. CASE at # L
    <3>1. at \in 0 .. L - 1 /\ at + 1 \in at + 1 .. L
      BY <1>2, <2>2
    <3>2. g[at + 1] = h[at + 1]
      BY <1>7, <3>1
    <3>3. CASE Hds(at) # {} /\ Fr(at).action = "parsed"
      <4>1. at + Fr(at).length \in at + 1 .. L
        BY <1>2, <1>6, <3>1, <3>3
      <4> QED
        BY <1>7, <3>3, <4>1
    <3>4. CASE Hds(at) # {} /\ Fr(at).action = "more"
      BY <3>4
    <3>5. CASE Hds(at) # {} /\ Fr(at).action = "error"
      BY <3>2, <3>5
    <3>6. CASE Hds(at) = {}
      BY <3>2, <3>6
    <3> QED
      BY <1>6, <3>1, <3>3, <3>4, <3>5, <3>6
  <2> QED
    BY <2>1, <2>2
<1>8. \A h : Step(h, L) = <<>>
  BY <1>2, <1>3
<1> HIDE DEF Step
<1>9. \E h : Up(h)
  <2> DEFINE Down(h, m) == \A at \in L - m .. L : h[at] = Step(h, at)
             S == {m \in Nat : m <= L => \E h : Down(h, m)}
  <2>1. 0 \in S
    <3> DEFINE h == [at \in 0 .. L |-> <<>>]
    <3>1. \A at \in L - 0 .. L : at = L /\ at \in 0 .. L
      BY <1>2
    <3>2. Down(h, 0)
      BY <1>8, <3>1
    <3> QED
      BY <3>2
  <2>2. ASSUME NEW m \in S PROVE m + 1 \in S
    <3>1. m \in Nat /\ m + 1 \in Nat
      OBVIOUS
    <3> SUFFICES ASSUME m + 1 <= L PROVE \E h : Down(h, m + 1)
      BY <3>1
    <3>2. PICK h : Down(h, m)
      BY <1>2, <3>1
    <3> DEFINE x == L - (m + 1)
               g == [at \in 0 .. L |-> IF at = x THEN Step(h, at) ELSE h[at]]
    <3>3. x \in Nat /\ x + 1 = L - m /\ x < L
      BY <1>2, <3>1
    <3> HIDE DEF x, L
    <3>4. \A at \in 0 .. L : g[at] = IF at = x THEN Step(h, at) ELSE h[at]
      OBVIOUS
    <3> HIDE DEF g
    <3>5. ASSUME NEW at \in x .. L PROVE g[at] = Step(g, at)
      <4>1. at \in 0 .. L /\ at \in Nat /\ at >= x
        BY <1>2, <3>3
      <4>2. \A k \in at + 1 .. L : g[k] = h[k]
        <5> SUFFICES ASSUME NEW k \in at + 1 .. L PROVE g[k] = h[k]
          OBVIOUS
        <5>1. k \in 0 .. L /\ k # x
          BY <1>2, <3>3, <4>1
        <5> QED
          BY <3>4, <5>1
      <4>3. Step(g, at) = Step(h, at)
        BY <1>7, <4>1, <4>2
      <4>4. CASE at = x
        BY <3>4, <4>1, <4>3, <4>4
      <4>5. CASE at # x
        <5>1. at \in L - m .. L
          BY <1>2, <3>3, <4>1, <4>5
        <5> QED
          BY <3>2, <3>4, <4>1, <4>3, <4>5, <5>1
      <4> QED
        BY <4>4, <4>5
    <3>6. Down(g, m + 1)
      BY <3>5 DEF x
    <3> QED
      BY <3>6
  <2>3. L \in S
    <3>1. S \in SUBSET Nat
      OBVIOUS
    <3> HIDE DEF S
    <3> QED
      BY <1>2, <2>1, <2>2, <3>1, NatSet
  <2>4. PICK h : Down(h, L)
    BY <1>2, <2>3
  <2> DEFINE g == [at \in 0 .. L |-> h[at]]
  <2>5. ASSUME NEW at \in 0 .. L PROVE g[at] = Step(g, at)
    <3>1. at \in L - L .. L /\ \A k \in at + 1 .. L : k \in 0 .. L
      BY <1>2
    <3>2. \A k \in at + 1 .. L : g[k] = h[k]
      BY <3>1
    <3>3. h[at] = Step(h, at) /\ g[at] = h[at]
      BY <2>4, <3>1
    <3> HIDE DEF g
    <3> QED
      BY <1>7, <3>2, <3>3
  <2>6. g = [at \in 0 .. L |-> g[at]]
    OBVIOUS
  <2> HIDE DEF g
  <2>7. g = [at \in 0 .. L |-> Step(g, at)]
    BY <2>5, <2>6
  <2> QED
    BY <2>7
<1>10. \A at \in 0 .. L : c[at] = Step(c, at)
  <2>1. Up(c)
    BY <1>9
  <2> HIDE DEF c
  <2> QED
    BY <2>1
<1> HIDE DEF c
<1>11. \E D : \A at \in 0 .. L : c[at] \in Seq(D)
  <2> DEFINE D == {One(at) : at \in 0 .. L}
             S == {m \in Nat : m <= L => \A at \in L - m .. L : c[at] \in Seq(D)}
  <2>0. <<>> \in Seq(D)
    BY SeqEmpty
  <2>1. 0 \in S
    <3>1. \A at \in L - 0 .. L : at = L /\ at \in 0 .. L
      BY <1>2
    <3> QED
      BY <1>8, <1>10, <2>0, <3>1
  <2>2. ASSUME NEW m \in S PROVE m + 1 \in S
    <3>1. m \in Nat /\ m + 1 \in Nat
      OBVIOUS
    <3> SUFFICES ASSUME m + 1 <= L PROVE \A at \in L - (m + 1) .. L : c[at] \in Seq(D)
      BY <3>1
    <3>2. \A at \in L - m .. L : c[at] \in Seq(D)
      BY <1>2, <3>1
    <3> DEFINE x == L - (m + 1)
    <3>3. x \in 0 .. L - 1 /\ x \in 0 .. L /\ x # L /\ x + 1 = L - m
          /\ \A at \in x .. L : at = x \/ at \in L - m .. L
      BY <1>2, <3>1
    <3> HIDE DEF x
    <3>4. One(x) \in D
      BY <3>3
    <3>5. c[x] = Step(c, x) /\ Win(x) # <<>>
      BY <1>3, <1>10, <3>3
    <3>6. c[x + 1] \in Seq(D)
      <4>1. x + 1 \in L - m .. L
        BY <1>2, <3>3
      <4> QED
        BY <3>2, <4>1
    <3> HIDE DEF D
    <3>7. c[x] \in Seq(D)
      <4>1. CASE Hds(x) = {}
        BY <3>5, <3>6, <4>1 DEF Step
      <4>2. CASE Hds(x) # {} /\ Fr(x).action = "parsed"
        <5>1. x + Fr(x).length \in L - m .. L
          BY <1>2, <1>6, <3>3, <4>2
        <5>2. c[x + Fr(x).length] \in Seq(D)
          BY <3>2, <5>1
        <5>3. c[x] = <<One(x)>> \o c[x + Fr(x).length]
          BY <3>5, <4>2 DEF Step
        <5>4. <<One(x)>> \in Seq(D)
          BY <3>4
        <5> QED
          BY <5>2, <5>3, <5>4, ConcatProperties
      <4>3. CASE Hds(x) # {} /\ Fr(x).action = "more"
        BY <2>0, <3>5, <4>3 DEF Step
      <4>4. CASE Hds(x) # {} /\ Fr(x).action = "error"
        BY <3>5, <3>6, <4>4 DEF Step
      <4> QED
        BY <1>6, <3>3, <4>1, <4>2, <4>3, <4>4
    <3> QED
      BY <3>2, <3>3, <3>7 DEF x
  <2>3. L \in S
    <3>1. S \in SUBSET Nat
      OBVIOUS
    <3> HIDE DEF S
    <3> QED
      BY <1>2, <2>1, <2>2, <3>1, NatSet
  <2>4. \A at \in 0 .. L : c[at] \in Seq(D)
    <3>1. L - L = 0
      BY <1>2
    <3> HIDE DEF D
    <3> QED
      BY <1>2, <2>3, <3>1
  <2> QED
    BY <2>4
<1>12. c[L] = <<>>
  BY <1>2, <1>8, <1>10
<1>13. ASSUME NEW at \in 0 .. L - 1
       PROVE  /\ NoHead(schema, stream, at) => c[at] = c[at + 1]
              /\ \A i \in 1 .. Len(schema.frames) :
                     HeaderAt(schema.frames[i], stream, at) => Takes(schema, stream, c, at, i)
  <2>1. at \in 0 .. L /\ at # L
    BY <1>2
  <2>2. c[at] = Step(c, at) /\ Win(at) # <<>> /\ Win(at) = Rest(stream, at)
    BY <1>3, <1>10, <2>1
  <2>3. ASSUME NoHead(schema, stream, at) PROVE c[at] = c[at + 1]
    BY <1>5, <2>2, <2>3 DEF Step
  <2>4. ASSUME NEW i \in Frames, HeaderAt(schema.frames[i], stream, at)
        PROVE  Takes(schema, stream, c, at, i)
    <3>1. Hds(at) # {} /\ Fr(at) = AnalyzeBy(schema.capacity, schema.frames[i], Rest(stream, at))
      BY <1>4, <2>4
    <3>2. c[at] = CASE Fr(at).action = "parsed" -> <<One(at)>> \o c[at + Fr(at).length]
                    [] Fr(at).action = "more" -> <<>>
                    [] Fr(at).action = "error" -> c[at + 1]
      BY <2>2, <3>1 DEF Step
    <3>3. One(at) = FrameAt(at, Fr(at), SubSeq(Rest(stream, at), 1, Fr(at).length))
      BY <2>2 DEF One
    <3> DEFINE a == AnalyzeBy(schema.capacity, schema.frames[i], Rest(stream, at))
    <3>4. Fr(at) = a
      BY <3>1
    <3> HIDE DEF a
    <3>5. /\ a.action = "parsed" =>
                 c[at] = <<FrameAt(at, a, SubSeq(Rest(stream, at), 1, a.length))>> \o c[at + a.length]
          /\ a.action = "more" => c[at] = <<>>
          /\ a.action = "error" => c[at] = c[at + 1]
      BY <3>2, <3>3, <3>4
    <3> QED
      BY <3>5 DEF Takes, a
  <2> QED
    BY <2>3, <2>4, FrameFacts
<1>14. IsScan(schema, stream, c)
  BY <1>11, <1>12, <1>13 DEF IsScan
<1> QED
  BY <1>1, <1>14

\* A reset starts with a stream of which nothing has been read.
LEMMA ResetFollows ==
    ASSUME IInv, Reset
    PROVE  ScanInv'
<1>1. stream' = <<>> /\ events' = <<>> /\ ring' = [ring EXCEPT !.head = 0, !.size = 0]
  BY DEF Reset
<1> DEFINE e == ring'
<1>2. e.size = 0
  <2>1. e = [ring EXCEPT !.head = 0, !.size = 0] /\ RingOk(ring)
    BY <1>1 DEF IInv
  <2> HIDE DEF e
  <2> QED
    BY <2>1, Emptied
<1>3. Tracks(schema', <<>>, <<>>, 0) /\ Settled(schema', <<>>, 0)
  BY NothingRead
<1> QED
  BY <1>1, <1>2, <1>3 DEF ScanInv

\* In the first state nothing has been read.
LEMMA ScanStarts == Init => ScanInv
<1> SUFFICES ASSUME Init PROVE ScanInv
  OBVIOUS
<1>1. schema \in Schemas /\ ring = EmptyRing(schema.capacity) /\ stream = <<>> /\ events = <<>>
  BY DEF Init
<1>2. ring.size = 0
  BY <1>1, EmptyRingOk, FrameFacts
<1>3. Tracks(schema, <<>>, <<>>, 0) /\ Settled(schema, <<>>, 0)
  BY NothingRead
<1> QED
  BY <1>1, <1>2, <1>3 DEF ScanInv

\* Every step keeps the frames those of the scan.
LEMMA StepFollows == IInv /\ ScanInv /\ [Next]_vars => ScanInv'
<1> SUFFICES ASSUME IInv, ScanInv, [Next]_vars PROVE ScanInv'
  OBVIOUS
<1>1. CASE \E n \in ChunkLengths : \E bytes \in [1 .. n -> Byte] : Push(bytes)
  <2>1. PICK n \in ChunkLengths : \E bytes \in [1 .. n -> Byte] : Push(bytes)
    BY <1>1
  <2>2. PICK bytes \in [1 .. n -> Byte] : Push(bytes)
    BY <2>1
  <2>3. n \in Nat
    BY <2>1, ParserAssumption DEF IInv, ChunkLengths, Least
  <2>4. bytes \in Seq(Byte)
    BY <2>2, <2>3
  <2> QED
    BY <2>2, <2>4, PushFollows
<1>2. CASE UNCHANGED <<schema, ring, stream, events>>
  BY <1>2 DEF ScanInv
<1>3. ASSUME NEW name \in ProfileFrames, NEW length \in Lengths, SetProfile(name, length)
      PROVE  UNCHANGED <<schema, ring, stream, events>>
  BY <1>3 DEF SetProfile
<1>4. ASSUME NEW names, ClearProfiles(names)
      PROVE  UNCHANGED <<schema, ring, stream, events>>
  BY <1>4 DEF ClearProfiles
<1>5. CASE Reset
  BY <1>5, ResetFollows
<1>6. CASE UNCHANGED vars
  BY <1>2, <1>6 DEF vars
<1> QED
  BY <1>1, <1>2, <1>3, <1>4, <1>5, <1>6 DEF Next

\* The schemas that FramesAsScanned means.
LEMMA PlainIs ==
    ASSUME Unambiguous, ProfileFrames = {}
    PROVE  PlainSchema(schema)
<1>1. \A i \in Frames : schema.frames[i].length # "profile"
  BY DEF ProfileFrames
<1> QED
  BY <1>1 DEF Unambiguous, PlainSchema, Frames

\* Where the frames are tracked and none waits, they are those of the scan.
LEMMA ScanReads ==
    ASSUME IInv, ScanInv
    PROVE  FramesAsScanned
<1> SUFFICES ASSUME Unambiguous, ProfileFrames = {}, ~(schema.dropOldest /\ HasKind("overflow"))
             PROVE  FramesFound = Scan
  BY DEF FramesAsScanned
<1>1. schema \in Schemas /\ stream \in Seq(Byte) /\ events \in Seq(Event)
  BY DEF IInv, Accounts
<1>2. PlainSchema(schema)
  BY PlainIs
<1>3. ~(schema.dropOldest /\ Lossy(events))
  <2>1. DOMAIN events = 1 .. Len(events)
    BY <1>1, LenProperties
  <2> QED
    BY <2>1 DEF HasKind, Lossy
<1>4. Tracks(schema, events, stream, ring.size) /\ Settled(schema, stream, ring.size)
  BY <1>2, <1>3 DEF ScanInv
<1>5. PICK c : Scan = c[0] /\ IsScan(schema, stream, c)
  BY <1>1, <1>2, ScanIs
<1>6. Extends(stream, stream)
  BY <1>1, LenProperties DEF Extends
<1>7. c[0] = FramesOf(events) \o c[Len(stream) - ring.size]
  BY <1>1, <1>4, <1>5, <1>6 DEF Tracks
<1>8. c[Len(stream) - ring.size] = <<>>
  BY <1>4, <1>5 DEF Settled
<1>9. FramesOf(events) \in Seq(Event)
  BY <1>1, FramesOfType
<1> DEFINE fs == FramesOf(events)
<1> HIDE DEF fs
<1>10. fs \o <<>> = fs
  BY <1>9, ConcatEmptySeq DEF fs
<1> QED
  BY <1>5, <1>7, <1>8, <1>10 DEF FramesFound, fs

\* For every schema whose headers tell its frames apart and that needs no length set at run
\* time, and for every way to cut the bytes into pushes, the frames reported are those of one
\* scan of the whole stream from its start, unless the oldest bytes were overwritten
\* (pushBytes).
THEOREM FramesAreAsScanned == Spec => []FramesAsScanned
<1>1. Init => ScanInv
  BY ScanStarts
<1>2. IInv /\ ScanInv /\ [Next]_vars => ScanInv'
  BY StepFollows
<1>3. IInv /\ ScanInv => FramesAsScanned
  BY ScanReads
<1> QED
  BY <1>1, <1>2, <1>3, ParserInvariant, PTL DEF Spec

-----------------------------------------------------------------------------
(* The same bytes in one push                                               *)

\* A ring that is large enough takes all of a stream at once.
LEMMA TakesAll ==
    ASSUME NEW s \in Seq(Byte), NEW c \in Nat, c # 0, Len(s) <= c
    PROVE  LET a == AppendBytes(EmptyRing(c), s, TRUE)
           IN  RingOk(a) /\ EndOf(a, s) /\ a.size = Len(s)
<1> DEFINE r == EmptyRing(c)
           a == AppendBytes(r, s, TRUE)
           d == Dropped(r, s, TRUE)
<1>1. RingOk(r) /\ Cap(r) = c /\ r.size = 0
  BY EmptyRingOk
<1>2. EndOf(r, <<>>) /\ <<>> \in Seq(Byte)
  BY <1>1, NoneAccounts
<1>3. <<>> \o s = s
  BY ConcatEmptySeq
<1> HIDE DEF r
<1>4. RingOk(a) /\ d \in Nat /\ a.size + d = r.size + Len(s) /\ EndOf(a, <<>> \o s)
  BY <1>1, <1>2, DropsTheOldest
<1>5. d = 0
  <2>1. Len(s) \in Nat
    BY LenProperties
  <2> QED
    BY <1>1, <2>1 DEF Dropped, Greatest
<1>6. a.size = Len(s)
  <2>1. a.size \in Nat /\ Len(s) \in Nat
    BY <1>4, RingFacts, LenProperties
  <2> HIDE DEF a, d
  <2> QED
    BY <1>1, <1>4, <1>5, <2>1
<1> HIDE DEF a
<1> QED
  BY <1>3, <1>4, <1>6 DEF a, r

\* The loop over a whole stream finds the frames of its scan.
LEMMA AllFollows ==
    ASSUME schema \in Schemas, PlainSchema(schema), NEW s \in Seq(Byte),
           NEW a, RingOk(a), EndOf(a, s), a.size = Len(s),
           NEW c, IsScan(schema, s, c)
    PROVE  FramesOf(Parse(a, Len(s), <<>>).found) = c[0]
<1> DEFINE q == Parse(a, Len(s), <<>>)
           none == <<>>
<1>1. none \in Seq(Event) /\ none \o none = none /\ Len(s) \in Nat
      /\ FramesOf(none) = <<>>
  BY SeqEmpty, ConcatEmptySeq, LenProperties, FramesOfType
<1>2. Accounts(none, s, a.size, a.size)
  <2>1. Weights(none) = <<>>
    <3>1. Weights(none) \in Seq(Nat) /\ Len(Weights(none)) = Len(none)
      BY <1>1, WeightsType
    <3> QED
      BY <3>1, EmptySeq
  <2>2. a.size = a.size + SumOf(Weights(none))
    BY <1>1, <2>1, SumNone
  <2> QED
    BY <1>1, <2>2 DEF Accounts
<1>3. /\ q.found \in Seq(Event)
      /\ Tracks(schema, none, s, a.size) => Tracks(schema, none \o q.found, s, q.ring.size)
      /\ Settled(schema, s, q.ring.size)
  <2>1. Accounts(none \o none, s, a.size, a.size) /\ a.size \in Nat
    BY <1>1, <1>2
  <2> DEFINE w == Parse(a, Len(s), none)
  <2> HIDE DEF none, w
  <2>2. w.found \in Seq(Event)
    BY <1>1, <2>1, ParseKeeps DEF w
  <2>3. /\ Tracks(schema, none \o none, s, a.size)
               => Tracks(schema, none \o w.found, s, w.ring.size)
        /\ Settled(schema, s, w.ring.size)
    BY <1>1, <2>1, ParseFollows DEF w
  <2>4. w = q
    BY DEF w, none
  <2> HIDE DEF q
  <2> QED
    BY <1>1, <2>2, <2>3, <2>4
<1>4. Tracks(schema, none, s, a.size)
  <2> SUFFICES ASSUME NEW t \in Seq(Byte), NEW h, IsScan(schema, t, h)
               PROVE  h[0] = FramesOf(none) \o h[Len(s) - a.size]
    BY DEF Tracks
  <2>1. PICK D : \A at \in 0 .. Len(t) : h[at] \in Seq(D)
    BY DEF IsScan
  <2>2. 0 \in 0 .. Len(t) /\ Len(s) - a.size = 0
    BY <1>1, LenProperties
  <2> DEFINE v == h[0]
  <2>3. v \in Seq(D)
    BY <2>1, <2>2
  <2> HIDE DEF v
  <2>4. <<>> \o v = v
    BY <2>3, ConcatEmptySeq
  <2> QED
    BY <1>1, <2>2, <2>4 DEF v
<1> HIDE DEF q, none
<1>5. none \o q.found = q.found
  BY <1>3, ConcatEmptySeq DEF none
<1>6. Tracks(schema, q.found, s, q.ring.size)
  BY <1>3, <1>4, <1>5
<1>7. Extends(s, s)
  BY <1>1 DEF Extends
<1> DEFINE fs == FramesOf(q.found)
<1>8. fs \in Seq(Event)
  BY <1>3, FramesOfType
<1> HIDE DEF fs
<1>9. c[0] = fs \o c[Len(s) - q.ring.size]
  BY <1>6, <1>7 DEF Tracks, fs
<1>10. c[Len(s) - q.ring.size] = <<>>
  BY <1>3 DEF Settled
<1>11. fs \o <<>> = fs
  BY <1>8, ConcatEmptySeq
<1> QED
  BY <1>9, <1>10, <1>11 DEF fs, q

\* What is received stays within the bound of a run, and the ring takes no more than that.
Bounded == received <= MaxInput /\ Len(stream) <= received

\* A push receives no more than is left of the bound.
LEMMA PushStaysBounded ==
    ASSUME IInv, Bounded, NEW n \in ChunkLengths, NEW bytes \in [1 .. n -> Byte], Push(bytes)
    PROVE  Bounded'
<1>1. received \in Nat /\ stream \in Seq(Byte) /\ MaxInput \in Nat /\ MaxChunk \in Nat
      /\ schema \in Schemas /\ RingOk(ring) /\ Cap(ring) <= schema.maxCapacity
      /\ EndOf(ring, stream)
  BY ParserAssumption DEF IInv
<1>2. n \in Nat /\ received + n <= MaxInput
  BY <1>1 DEF Bounded, ChunkLengths, Least
<1>3. bytes \in Seq(Byte) /\ Len(bytes) = n
  BY <1>2
<1> DEFINE r == EnsureAppendCapacity(ring, Len(bytes))
           u == Taken(r, bytes, schema.dropOldest)
<1>4. stream' = stream \o u /\ received' = received + Len(bytes)
  BY DEF Push, Taken
<1>5. u \in Seq(Byte) /\ Len(u) <= n
  <2>1. schema.dropOldest \in BOOLEAN
    BY <1>1, FrameFacts
  <2>2. RingOk(r) /\ EndOf(r, stream)
    BY <1>1, <1>2, <1>3, EnsureAppendKeeps
  <2> DEFINE old == schema.dropOldest
             d == Dropped(r, bytes, old)
  <2> HIDE DEF r, old
  <2>3. u \in Seq(Byte) /\ d \in Nat
    BY <1>1, <1>3, <2>1, <2>2, AppendKeeps DEF old
  <2> HIDE DEF d
  <2>4. CASE old
    BY <1>2, <1>3, <2>3, <2>4 DEF Taken, old
  <2>5. CASE ~old
    <3>1. u = SubSeq(bytes, 1, n - d)
      BY <1>3, <2>5 DEF Taken, old, d
    <3>2. Len(u) <= n
      <4> HIDE DEF u
      <4>1. CASE n - d >= 0
        <5>1. Len(SubSeq(bytes, 1, n - d)) = n - d
          <6> DEFINE m == n - d
          <6>1. m \in Nat /\ m <= Len(bytes) /\ 1 <= m + 1 /\ m - 1 + 1 = m
            BY <1>2, <1>3, <2>3, <4>1
          <6> HIDE DEF m
          <6>2. Len(SubSeq(bytes, 1, m)) = m - 1 + 1
            BY <1>3, <6>1, PieceOf
          <6> QED
            BY <6>1, <6>2 DEF m
        <5> QED
          BY <1>2, <2>3, <3>1, <5>1
      <4>2. CASE n - d < 0
        BY <1>2, <1>3, <2>3, <3>1, <4>2
      <4> QED
        BY <1>2, <2>3, <4>1, <4>2
    <3> QED
      BY <2>3, <3>2
  <2> QED
    BY <2>1, <2>4, <2>5 DEF old
<1> HIDE DEF r, u
<1>6. Len(stream \o u) = Len(stream) + Len(u)
  BY <1>1, <1>5, ConcatProperties
<1>7. Len(stream) \in Nat /\ Len(u) \in Nat
  BY <1>1, <1>5, LenProperties
<1> QED
  BY <1>1, <1>2, <1>3, <1>4, <1>5, <1>6, <1>7 DEF Bounded

\* No step passes the bound.
LEMMA StepStaysBounded == IInv /\ Bounded /\ [Next]_vars => Bounded'
<1> SUFFICES ASSUME IInv, Bounded, [Next]_vars PROVE Bounded'
  OBVIOUS
<1>1. CASE \E n \in ChunkLengths : \E bytes \in [1 .. n -> Byte] : Push(bytes)
  BY <1>1, PushStaysBounded
<1>2. CASE UNCHANGED <<received, stream>>
  BY <1>2 DEF Bounded
<1>3. ASSUME NEW name \in ProfileFrames, NEW length \in Lengths, SetProfile(name, length)
      PROVE  UNCHANGED <<received, stream>>
  BY <1>3 DEF SetProfile
<1>4. ASSUME NEW names, ClearProfiles(names)
      PROVE  UNCHANGED <<received, stream>>
  BY <1>4 DEF ClearProfiles
<1>5. CASE Reset
  BY <1>5, ParserAssumption, SeqEmpty DEF Reset, Bounded
<1>6. CASE UNCHANGED vars
  BY <1>2, <1>6 DEF vars
<1> QED
  BY <1>1, <1>2, <1>3, <1>4, <1>5, <1>6 DEF Next

\* With headers that tell the frames apart a stream gives the same frames in one push.
LEMMA PlainSplits ==
    ASSUME IInv, ScanInv, Bounded, Unambiguous
    PROVE  SplitsDoNotMatter
<1> DEFINE a == AppendBytes(EmptyRing(MaxInput), stream, TRUE)
           all == Parse(a, Len(stream), <<>>)
<1> SUFFICES ASSUME ProfileFrames = {}, ~HasKind("overflow")
             PROVE  FramesFound = FramesOf(all.found)
  BY DEF SplitsDoNotMatter
<1>1. schema \in Schemas /\ stream \in Seq(Byte) /\ received \in Nat /\ MaxInput \in Nat
      /\ Len(stream) \in Nat
  BY LenProperties, ParserAssumption DEF IInv
<1>2. PlainSchema(schema)
  BY PlainIs
<1>3. PICK c : Scan = c[0] /\ IsScan(schema, stream, c)
  BY <1>1, <1>2, ScanIs
<1>4. FramesFound = c[0]
  BY <1>3, ScanReads DEF FramesAsScanned
<1>5. Len(stream) <= MaxInput
  BY <1>1 DEF Bounded
<1>6. CASE MaxInput # 0
  <2>1. RingOk(a) /\ EndOf(a, stream) /\ a.size = Len(stream)
    BY <1>1, <1>5, <1>6, TakesAll
  <2> HIDE DEF a
  <2> QED
    BY <1>1, <1>2, <1>3, <1>4, <2>1, AllFollows
<1>7. CASE MaxInput = 0
  <2>1. Len(stream) = 0
    BY <1>1, <1>5, <1>7
  <2>2. c[0] = <<>>
    BY <1>3, <2>1 DEF IsScan
  <2>3. a.size = 0
    BY <1>7, <2>1 DEF EmptyRing, AppendBytes, AppendContiguous, Cap, Least
  <2>4. all.found = <<>>
    <3> DEFINE total == Len(stream)
    <3> HIDE DEF a, total
    <3>1. PICK h : /\ Parse(a, total, <<>>) = h[a.size]
                   /\ h[0] = [ring |-> a, found |-> <<>>, waits |-> FALSE]
      <4>1. a.size \in Nat
        BY <2>3
      <4> QED
        BY <4>1, ParseUnfolds
    <3> QED
      BY <2>3, <3>1 DEF total
  <2>5. FramesOf(<<>>) = <<>>
    BY SeqEmpty, FramesOfType
  <2> HIDE DEF all
  <2> QED
    BY <1>4, <2>2, <2>4, <2>5
<1> QED
  BY <1>6, <1>7

\* The documentation promises that a frame which arrives in pieces is collected. The promise is
\* kept for every schema whose headers tell its frames apart: however pushBytes is called, the
\* frames are those that the same bytes give in one call (pushBytes).
THEOREM PlainFramesSurviveSplits == Spec => [](Unambiguous => SplitsDoNotMatter)
<1>1. Init => ScanInv /\ Bounded
  <2>1. Init => Bounded
    BY ParserAssumption, SeqEmpty DEF Init, Bounded
  <2> QED
    BY <2>1, ScanStarts
<1>2. IInv /\ ScanInv /\ Bounded /\ [Next]_vars => ScanInv' /\ Bounded'
  BY StepFollows, StepStaysBounded
<1>3. IInv /\ ScanInv /\ Bounded => (Unambiguous => SplitsDoNotMatter)
  BY PlainSplits
<1> QED
  BY <1>1, <1>2, <1>3, ParserInvariant, PTL DEF Spec
=============================================================================
