-------------------------- MODULE ConnectionProofs --------------------------
(***************************************************************************)
(* Theorems about the way from the socket to the script, for every number  *)
(* of connections, bytes, openings and writes and every budget.            *)
(***************************************************************************)
EXTENDS Connection, SeqPickProofs, SequenceTheorems, TLAPS

-----------------------------------------------------------------------------
(* The inductive invariant                                                  *)

\* The events that the application still has to deal with.
Waiting == pending \o EventsOf(transport)

Typed ==
    /\ transport \in TransportType \cup {None}
    /\ made \in 0 .. MaxConns /\ active \in Conns \cup {None}
    /\ pending \in Seq(EventType) /\ chunks \in Seq(EventType) /\ commands \in Seq(EventType)
    /\ told \in Conns \cup {None}
    /\ origin \in Seq(Conns \cup {None})
    /\ received \subseteq 1 .. Len(origin) /\ lost \subseteq received

\* An event about a connection names it; only bytes have bytes.
Sound(e) ==
    /\ e.op # "bytes" => e.bytes = {}
    /\ e.ready /\ e.op # "error" => e.conn \in Conns
    /\ e.op = "close" => e.ready

\* Events are about a live connection, chunks are bytes of one that was closed, and a listener is
\* never reported to the worker.
Shape ==
    /\ \A e \in Range(Waiting) : Sound(e) /\ (e.op = "bytes" => e.ready)
    /\ \A e \in Range(chunks) : Sound(e) /\ e.op = "bytes" /\ ~e.ready
    /\ \A e \in Range(commands) : Sound(e) /\ (e.op = "open" => e.ready)

\* BytesOfTheirOwn, said of the elements.
Own == \A e \in Range(Waiting) \cup Range(chunks) \cup Range(commands) :
           \A b \in e.bytes : origin[b] = e.conn

\* EachByteOnce, queue by queue.
Kept ==
    /\ received \ lost = heard \cup BytesIn(commands) \cup BytesIn(chunks) \cup BytesIn(Waiting)
    /\ InOrder(commands) /\ InOrder(chunks) /\ InOrder(Waiting)
    /\ Before(heard, BytesIn(commands)) /\ Before(heard, BytesIn(chunks))
    /\ Before(heard, BytesIn(Waiting))
    /\ Before(BytesIn(commands), BytesIn(chunks)) /\ Before(BytesIn(commands), BytesIn(Waiting))
    /\ Before(BytesIn(chunks), BytesIn(Waiting))

\* The reads that are completed: in the order of their bytes, behind all that was reported, and
\* those of the present generation on the present connection.
Reads ==
    transport # None =>
        /\ transport.read \in {0, transport.generation}
        /\ InOrder(transport.done) /\ Before(received, BytesIn(transport.done))
        /\ BytesIn(transport.done) \subseteq 1 .. Len(origin)
        /\ \A read \in Range(transport.done) :
              /\ read.generation <= transport.generation
              /\ transport.kind # "server" => read.generation = transport.generation
              /\ transport.conn # None /\ read.generation = transport.generation =>
                    \A b \in read.bytes : origin[b] = transport.conn

\* The events that change which connection there is, and the connection after one.
Mark(e) == e.ready /\ e.op \in {"open", "close"}
After(e) == IF e.op = "open" THEN e.conn ELSE None

\* Of a queue that begins on connection a: c is the connection in front of position k, and the one
\* at its end.
At(a, q, k, c) ==
    \/ a = c /\ \A j \in 1 .. (k - 1) : ~Mark(q[j])
    \/ \E j \in 1 .. (k - 1) : /\ Mark(q[j]) /\ After(q[j]) = c
                               /\ \A i \in (j + 1) .. (k - 1) : ~Mark(q[i])
Ends(a, q, c) == At(a, q, Len(q) + 1, c)

\* What must be on its own connection is.
Bound(e) == e.ready /\ e.op \in {"close", "bytes"}
Follows(a, q) == \A k \in DOMAIN q : Bound(q[k]) => At(a, q, k, q[k].conn)

\* Where each of the three threads takes the connection to be.
Lines ==
    /\ heardConn \in {None, told}
    /\ Follows(told, commands)
    /\ active # None => Ends(told, commands, active)
    /\ IF transport = None
       THEN pending = <<>> /\ active = None
       ELSE Follows(active, Waiting) /\ Ends(active, Waiting, transport.conn)

IInv == Typed /\ Shape /\ Own /\ Kept /\ Reads /\ Lines

-----------------------------------------------------------------------------
(* The bytes of a queue                                                     *)

\* The positions of a concatenation.
LEMMA ConcatAt ==
    ASSUME NEW D, NEW p \in Seq(D), NEW q \in Seq(D)
    PROVE  /\ Len(p) \in Nat /\ Len(q) \in Nat /\ DOMAIN p = 1 .. Len(p) /\ DOMAIN q = 1 .. Len(q)
           /\ p \o q \in Seq(D) /\ DOMAIN (p \o q) = 1 .. (Len(p) + Len(q))
           /\ \A i \in 1 .. Len(p) : (p \o q)[i] = p[i]
           /\ \A i \in 1 .. Len(q) : (p \o q)[Len(p) + i] = q[i]
<1>1. /\ Len(p) \in Nat /\ Len(q) \in Nat /\ DOMAIN p = 1 .. Len(p) /\ DOMAIN q = 1 .. Len(q)
  BY LenProperties
<1>2. /\ p \o q \in Seq(D) /\ Len(p \o q) = Len(p) + Len(q)
      /\ \A i \in 1 .. Len(p) + Len(q) :
            (p \o q)[i] = IF i <= Len(p) THEN p[i] ELSE q[i - Len(p)]
  BY ConcatProperties
<1>3. DOMAIN (p \o q) = 1 .. (Len(p) + Len(q))
  BY <1>2, LenProperties
<1>4. \A i \in 1 .. Len(q) : (p \o q)[Len(p) + i] = q[i]
  BY <1>1, <1>2
<1> QED
  BY <1>1, <1>2, <1>3, <1>4

\* The bytes of a queue are those of its elements.
LEMMA BytesOfRange ==
    ASSUME NEW q
    PROVE  BytesIn(q) = UNION {e.bytes : e \in Range(q)}
  BY DEF BytesIn, Range

\* The elements and the bytes of a concatenation are those of its parts, and it is in order when
\* the parts are and the second follows the first.
LEMMA ConcatBytes ==
    ASSUME NEW D, NEW p \in Seq(D), NEW q \in Seq(D)
    PROVE  /\ p \o q \in Seq(D) /\ Range(p \o q) = Range(p) \cup Range(q)
           /\ BytesIn(p \o q) = BytesIn(p) \cup BytesIn(q)
           /\ InOrder(p \o q) <=> InOrder(p) /\ InOrder(q) /\ Before(BytesIn(p), BytesIn(q))
<1> DEFINE s == p \o q
           m == Len(p)
           n == Len(q)
<1>1. /\ m \in Nat /\ n \in Nat /\ DOMAIN p = 1 .. m /\ DOMAIN q = 1 .. n
      /\ s \in Seq(D) /\ DOMAIN s = 1 .. (m + n)
      /\ \A i \in 1 .. m : s[i] = p[i]
      /\ \A i \in 1 .. n : s[m + i] = q[i]
  BY ConcatAt
<1> HIDE DEF s, m, n
<1>2. \A k \in 1 .. (m + n) : k \in 1 .. m \/ \E i \in 1 .. n : k = m + i
  <2> SUFFICES ASSUME NEW k \in 1 .. (m + n), k \notin 1 .. m
               PROVE  \E i \in 1 .. n : k = m + i
    OBVIOUS
  <2>1. k - m \in 1 .. n /\ k = m + (k - m)
    BY <1>1
  <2> QED
    BY <2>1
<1>3. \A i \in 1 .. n : m + i \in 1 .. (m + n)
  BY <1>1
<1>4. \A i \in 1 .. m : i \in 1 .. (m + n)
  BY <1>1
<1>5. Range(s) = Range(p) \cup Range(q)
  <2>1. ASSUME NEW k \in 1 .. (m + n) PROVE s[k] \in Range(p) \cup Range(q)
    BY <1>1, <1>2 DEF Range
  <2>2. \A i \in 1 .. m : p[i] \in Range(s)
    BY <1>1, <1>4 DEF Range
  <2>3. \A i \in 1 .. n : q[i] \in Range(s)
    BY <1>1, <1>3 DEF Range
  <2>4. Range(s) \subseteq Range(p) \cup Range(q)
    BY <1>1, <2>1 DEF Range
  <2>5. Range(p) \subseteq Range(s) /\ Range(q) \subseteq Range(s)
    BY <1>1, <2>2, <2>3 DEF Range
  <2> QED
    BY <2>4, <2>5
<1>6. BytesIn(s) = BytesIn(p) \cup BytesIn(q)
  <2>1. BytesIn(s) = UNION {e.bytes : e \in Range(s)}
    BY BytesOfRange
  <2>2. BytesIn(p) = UNION {e.bytes : e \in Range(p)}
    BY BytesOfRange
  <2>3. BytesIn(q) = UNION {e.bytes : e \in Range(q)}
    BY BytesOfRange
  <2>4. \A A, B : UNION {e.bytes : e \in A \cup B} = (UNION {e.bytes : e \in A})
                                                    \cup (UNION {e.bytes : e \in B})
    OBVIOUS
  <2>5. UNION {e.bytes : e \in Range(p) \cup Range(q)} = (UNION {e.bytes : e \in Range(p)})
                                                    \cup (UNION {e.bytes : e \in Range(q)})
    BY <2>4
  <2> QED
    BY <1>5, <2>1, <2>2, <2>3, <2>5
<1>7. ASSUME InOrder(s) PROVE InOrder(p) /\ InOrder(q) /\ Before(BytesIn(p), BytesIn(q))
  <2>1. InOrder(p)
    BY <1>1, <1>4, <1>7 DEF InOrder
  <2>2. InOrder(q)
    <3> SUFFICES ASSUME NEW j \in 1 .. n, NEW k \in 1 .. n, j < k
                 PROVE  Before(q[j].bytes, q[k].bytes)
      BY <1>1 DEF InOrder
    <3>1. m + j < m + k
      BY <1>1
    <3> QED
      BY <1>1, <1>3, <1>7, <3>1 DEF InOrder
  <2>3. \A i \in 1 .. m, k \in 1 .. n : Before(p[i].bytes, q[k].bytes)
    <3> SUFFICES ASSUME NEW i \in 1 .. m, NEW k \in 1 .. n
                 PROVE  Before(p[i].bytes, q[k].bytes)
      OBVIOUS
    <3>1. i < m + k
      BY <1>1
    <3> QED
      BY <1>1, <1>3, <1>4, <1>7, <3>1 DEF InOrder
  <2> QED
    BY <1>1, <2>1, <2>2, <2>3 DEF Before, BytesIn
<1>8. ASSUME InOrder(p), InOrder(q), Before(BytesIn(p), BytesIn(q)) PROVE InOrder(s)
  <2> SUFFICES ASSUME NEW j \in 1 .. (m + n), NEW k \in 1 .. (m + n), j < k
               PROVE  Before(s[j].bytes, s[k].bytes)
    BY <1>1 DEF InOrder
  <2>1. CASE j \in 1 .. m /\ k \in 1 .. m
    BY <1>1, <1>8, <2>1 DEF InOrder
  <2>2. CASE j \in 1 .. m /\ k \notin 1 .. m
    <3>1. PICK b \in 1 .. n : k = m + b
      BY <1>2, <2>2
    <3>2. s[j] = p[j] /\ s[k] = q[b]
      BY <1>1, <2>2, <3>1
    <3> QED
      BY <1>1, <1>8, <2>2, <3>2 DEF Before, BytesIn
  <2>3. CASE j \notin 1 .. m
    <3>1. PICK a \in 1 .. n : j = m + a
      BY <1>2, <2>3
    <3>2. k \notin 1 .. m
      BY <1>1, <2>3
    <3>3. PICK b \in 1 .. n : k = m + b
      BY <1>2, <3>2
    <3>4. a < b /\ s[j] = q[a] /\ s[k] = q[b]
      BY <1>1, <3>1, <3>3
    <3> QED
      BY <1>1, <1>8, <3>4 DEF InOrder
  <2> QED
    BY <2>1, <2>2, <2>3
<1> QED
  BY <1>1, <1>5, <1>6, <1>7, <1>8 DEF s

\* The queue of one element.
LEMMA OneBytes ==
    ASSUME NEW D, NEW e \in D
    PROVE  /\ <<e>> \in Seq(D) /\ Range(<<e>>) = {e} /\ BytesIn(<<e>>) = e.bytes
           /\ InOrder(<<e>>)
<1>1. <<e>> \in Seq(D) /\ DOMAIN <<e>> = {1} /\ <<e>>[1] = e
  OBVIOUS
<1> QED
  BY <1>1 DEF Range, BytesIn, InOrder

\* A queue of none has no bytes and is in order.
LEMMA NoBytes ==
    ASSUME NEW D
    PROVE  /\ <<>> \in Seq(D) /\ Range(<<>>) = {} /\ BytesIn(<<>>) = {} /\ InOrder(<<>>)
<1>1. <<>> \in Seq(D) /\ DOMAIN <<>> = {}
  OBVIOUS
<1> QED
  BY <1>1 DEF Range, BytesIn, InOrder

\* A queue is its head and the rest.
LEMMA HeadFirst ==
    ASSUME NEW D, NEW q \in Seq(D), q # <<>>
    PROVE  Head(q) \in D /\ Tail(q) \in Seq(D) /\ q = <<Head(q)>> \o Tail(q)
<1>1. Head(q) \in D /\ Tail(q) \in Seq(D)
  BY HeadTailProperties
<1>2. q = <<Head(q)>> \o Tail(q)
  <2>1. Len(q) \in 1 .. Len(q) /\ 1 \in 1 .. Len(q)
    BY EmptySeq
  <2>2. SubSeq(q, 1, Len(q)) = <<q[1]>> \o SubSeq(q, 2, Len(q))
    BY <2>1, SubSeqRecursiveFirst
  <2>3. SubSeq(q, 1, Len(q)) = q /\ Tail(q) = SubSeq(q, 2, Len(q)) /\ Head(q) = q[1]
    BY SubSeqFull, TailIsSubSeq
  <2> QED
    BY <2>2, <2>3
<1> QED
  BY <1>1, <1>2

\* The elements of a queue are of its type.
LEMMA RangeIn ==
    ASSUME NEW D, NEW q \in Seq(D)
    PROVE  \A e \in Range(q) : e \in D
  BY LenProperties, ElementOfSeq DEF Range

\* A queue with one more element.
LEMMA AppendBytes ==
    ASSUME NEW D, NEW q \in Seq(D), NEW e \in D
    PROVE  /\ Append(q, e) \in Seq(D)
           /\ \A x : x \in Range(Append(q, e)) <=> x \in Range(q) \/ x = e
           /\ \A x : x \in BytesIn(Append(q, e)) <=> x \in BytesIn(q) \/ x \in e.bytes
           /\ InOrder(Append(q, e)) <=> InOrder(q) /\ Before(BytesIn(q), e.bytes)
<1>1. Append(q, e) = q \o <<e>>
  BY AppendIsConcat
<1>2. <<e>> \in Seq(D) /\ Range(<<e>>) = {e} /\ BytesIn(<<e>>) = e.bytes /\ InOrder(<<e>>)
  BY OneBytes
<1> DEFINE one == <<e>>
<1>3. one \in Seq(D) /\ Range(one) = {e} /\ BytesIn(one) = e.bytes /\ InOrder(one)
  BY <1>2
<1> HIDE DEF one
<1>4. /\ q \o one \in Seq(D) /\ Range(q \o one) = Range(q) \cup Range(one)
      /\ BytesIn(q \o one) = BytesIn(q) \cup BytesIn(one)
      /\ InOrder(q \o one) <=> InOrder(q) /\ InOrder(one) /\ Before(BytesIn(q), BytesIn(one))
  BY <1>3, ConcatBytes
<1> QED
  BY <1>1, <1>3, <1>4 DEF one

\* The bytes of a queue are those of its head, and then those of the rest.
LEMMA HeadBytes ==
    ASSUME NEW D, NEW q \in Seq(D), q # <<>>
    PROVE  /\ Head(q) \in D /\ Tail(q) \in Seq(D)
           /\ Range(q) = {Head(q)} \cup Range(Tail(q))
           /\ BytesIn(q) = Head(q).bytes \cup BytesIn(Tail(q))
           /\ InOrder(q) <=> InOrder(Tail(q)) /\ Before(Head(q).bytes, BytesIn(Tail(q)))
<1> DEFINE h == Head(q)
           t == Tail(q)
           one == <<h>>
<1>1. h \in D /\ t \in Seq(D) /\ q = one \o t
  BY HeadFirst
<1> HIDE DEF h, t
<1>2. one \in Seq(D) /\ Range(one) = {h} /\ BytesIn(one) = h.bytes /\ InOrder(one)
  BY <1>1, OneBytes
<1> HIDE DEF one
<1>3. /\ Range(one \o t) = Range(one) \cup Range(t)
      /\ BytesIn(one \o t) = BytesIn(one) \cup BytesIn(t)
      /\ InOrder(one \o t) <=> InOrder(one) /\ InOrder(t) /\ Before(BytesIn(one), BytesIn(t))
  BY <1>1, <1>2, ConcatBytes
<1> QED
  BY <1>1, <1>2, <1>3 DEF h, t

-----------------------------------------------------------------------------
(* The connection along a queue                                             *)

\* No connection is at the end of a queue but one.
LEMMA EndIsOne ==
    ASSUME NEW a, NEW D, NEW q \in Seq(D), NEW c, NEW d, Ends(a, q, c), Ends(a, q, d)
    PROVE  c = d
<1> DEFINE n == Len(q)
<1>1. n \in Nat
  BY LenProperties
<1>2. \A x : At(a, q, n + 1, x) <=>
          \/ a = x /\ \A j \in 1 .. n : ~Mark(q[j])
          \/ \E j \in 1 .. n : Mark(q[j]) /\ After(q[j]) = x /\ \A i \in (j + 1) .. n : ~Mark(q[i])
  <2>1. (n + 1) - 1 = n
    BY <1>1
  <2> QED
    BY <2>1 DEF At
<1>3. At(a, q, n + 1, c) /\ At(a, q, n + 1, d)
  BY DEF Ends
<1> HIDE DEF n
<1>4. CASE \A j \in 1 .. n : ~Mark(q[j])
  BY <1>2, <1>3, <1>4
<1>5. CASE \E j \in 1 .. n : Mark(q[j])
  <2>1. PICK j \in 1 .. n : Mark(q[j]) /\ After(q[j]) = c /\ \A i \in (j + 1) .. n : ~Mark(q[i])
    BY <1>2, <1>3, <1>5
  <2>2. PICK k \in 1 .. n : Mark(q[k]) /\ After(q[k]) = d /\ \A i \in (k + 1) .. n : ~Mark(q[i])
    BY <1>2, <1>3, <1>5
  <2>3. ~(j < k) /\ ~(k < j)
    <3>1. j < k => k \in (j + 1) .. n
      BY <1>1
    <3>2. k < j => j \in (k + 1) .. n
      BY <1>1
    <3> QED
      BY <2>1, <2>2, <3>1, <3>2
  <2>4. j = k
    BY <1>1, <2>3
  <2> QED
    BY <2>1, <2>2, <2>4
<1> QED
  BY <1>4, <1>5

\* In the second part of a queue the connection is the one along that part, which begins where the
\* first part ends.
LEMMA AtSecond ==
    ASSUME NEW D, NEW p \in Seq(D), NEW q \in Seq(D), NEW x, NEW y, NEW c, Ends(x, p, y),
           NEW k \in 1 .. (Len(q) + 1)
    PROVE  At(x, p \o q, Len(p) + k, c) <=> At(y, q, k, c)
<1> DEFINE s == p \o q
           m == Len(p)
           n == Len(q)
<1>1. /\ m \in Nat /\ n \in Nat /\ DOMAIN p = 1 .. m /\ DOMAIN q = 1 .. n
      /\ \A i \in 1 .. m : s[i] = p[i]
      /\ \A i \in 1 .. n : s[m + i] = q[i]
  BY ConcatAt
<1>2. \/ x = y /\ \A j \in 1 .. m : ~Mark(p[j])
      \/ \E j \in 1 .. m : Mark(p[j]) /\ After(p[j]) = y /\ \A i \in (j + 1) .. m : ~Mark(p[i])
  <2>1. (m + 1) - 1 = m
    BY <1>1
  <2> QED
    BY <2>1 DEF Ends, At
<1>0. k \in 1 .. (n + 1)
  OBVIOUS
<1> HIDE DEF s, m, n
<1>3. \A j \in 1 .. ((m + k) - 1) : j \in 1 .. m \/ \E i \in 1 .. (k - 1) : j = m + i
  <2> SUFFICES ASSUME NEW j \in 1 .. ((m + k) - 1), j \notin 1 .. m
               PROVE  \E i \in 1 .. (k - 1) : j = m + i
    OBVIOUS
  <2>1. j - m \in 1 .. (k - 1) /\ j = m + (j - m)
    BY <1>0, <1>1
  <2> QED
    BY <2>1
<1>4. \A i \in 1 .. (k - 1) : i \in 1 .. n /\ m + i \in 1 .. ((m + k) - 1) /\ m + i \notin 1 .. m
  BY <1>0, <1>1
<1>5. \A i \in 1 .. m : i \in 1 .. ((m + k) - 1)
  BY <1>0, <1>1
<1>8. At(x, s, m + k, c) <=>
          \/ x = c /\ \A j \in 1 .. ((m + k) - 1) : ~Mark(s[j])
          \/ \E j \in 1 .. ((m + k) - 1) : /\ Mark(s[j]) /\ After(s[j]) = c
                                        /\ \A i \in (j + 1) .. ((m + k) - 1) : ~Mark(s[i])
  BY DEF At
<1>9. At(y, q, k, c) <=>
          \/ y = c /\ \A j \in 1 .. (k - 1) : ~Mark(q[j])
          \/ \E j \in 1 .. (k - 1) : /\ Mark(q[j]) /\ After(q[j]) = c
                                    /\ \A i \in (j + 1) .. (k - 1) : ~Mark(q[i])
  BY DEF At
<1>6. ASSUME At(y, q, k, c) PROVE At(x, s, m + k, c)
  <2>1. CASE y = c /\ \A j \in 1 .. (k - 1) : ~Mark(q[j])
    <3>1. CASE x = y /\ \A j \in 1 .. m : ~Mark(p[j])
      <4>1. \A j \in 1 .. ((m + k) - 1) : ~Mark(s[j])
        BY <1>1, <1>3, <1>4, <2>1, <3>1
      <4> QED
        BY <1>8, <2>1, <3>1, <4>1
    <3>2. ASSUME NEW j \in 1 .. m, Mark(p[j]), After(p[j]) = y, \A i \in (j + 1) .. m : ~Mark(p[i])
          PROVE  At(x, s, m + k, c)
      <4>1. \A i \in (j + 1) .. ((m + k) - 1) : ~Mark(s[i])
        <5> SUFFICES ASSUME NEW i \in (j + 1) .. ((m + k) - 1) PROVE ~Mark(s[i])
          OBVIOUS
        <5>1. i \in 1 .. ((m + k) - 1)
          BY <1>0, <1>1
        <5>2. CASE i \in 1 .. m
          <6>1. i \in (j + 1) .. m
            BY <5>2
          <6> QED
            BY <1>1, <3>2, <5>2, <6>1
        <5>3. CASE i \notin 1 .. m
          BY <1>1, <1>3, <1>4, <2>1, <5>1, <5>3
        <5> QED
          BY <5>2, <5>3
      <4>2. j \in 1 .. ((m + k) - 1) /\ Mark(s[j]) /\ After(s[j]) = c
        BY <1>1, <1>5, <2>1, <3>2
      <4> QED
        BY <1>8, <4>1, <4>2
    <3> QED
      BY <1>2, <3>1, <3>2
  <2>2. ASSUME NEW j \in 1 .. (k - 1), Mark(q[j]), After(q[j]) = c,
               \A i \in (j + 1) .. (k - 1) : ~Mark(q[i])
        PROVE  At(x, s, m + k, c)
    <3>1. m + j \in 1 .. ((m + k) - 1) /\ Mark(s[m + j]) /\ After(s[m + j]) = c
      BY <1>1, <1>4, <2>2
    <3>2. \A i \in (m + j + 1) .. ((m + k) - 1) : ~Mark(s[i])
      <4> SUFFICES ASSUME NEW i \in (m + j + 1) .. ((m + k) - 1) PROVE ~Mark(s[i])
        OBVIOUS
      <4>1. i - m \in (j + 1) .. (k - 1) /\ i - m \in 1 .. (k - 1) /\ i = m + (i - m)
        BY <1>0, <1>1
      <4> QED
        BY <1>1, <1>4, <2>2, <4>1
    <3> QED
      BY <1>8, <3>1, <3>2
  <2> QED
    BY <1>6, <1>9, <2>1, <2>2
<1>7. ASSUME At(x, s, m + k, c) PROVE At(y, q, k, c)
  <2>1. CASE x = c /\ \A j \in 1 .. ((m + k) - 1) : ~Mark(s[j])
    <3>1. \A j \in 1 .. m : ~Mark(p[j])
      BY <1>1, <1>5, <2>1
    <3>2. x = y
      BY <1>2, <3>1
    <3>3. \A j \in 1 .. (k - 1) : ~Mark(q[j])
      BY <1>1, <1>4, <2>1
    <3> QED
      BY <1>9, <2>1, <3>2, <3>3
  <2>2. ASSUME NEW j \in 1 .. ((m + k) - 1), Mark(s[j]), After(s[j]) = c,
               \A i \in (j + 1) .. ((m + k) - 1) : ~Mark(s[i])
        PROVE  At(y, q, k, c)
    <3>1. CASE j \in 1 .. m
      <4>1. \A i \in 1 .. (k - 1) : ~Mark(q[i])
        <5> SUFFICES ASSUME NEW i \in 1 .. (k - 1) PROVE ~Mark(q[i])
          OBVIOUS
        <5>1. m + i \in (j + 1) .. ((m + k) - 1)
          BY <1>0, <1>1, <3>1
        <5> QED
          BY <1>1, <1>4, <2>2, <5>1
      <4>2. \A i \in (j + 1) .. m : ~Mark(p[i])
        <5> SUFFICES ASSUME NEW i \in (j + 1) .. m PROVE ~Mark(p[i])
          OBVIOUS
        <5>1. i \in (j + 1) .. ((m + k) - 1) /\ i \in 1 .. m
          BY <1>0, <1>1, <3>1
        <5> QED
          BY <1>1, <2>2, <5>1
      <4>3. Mark(p[j]) /\ After(p[j]) = c
        BY <1>1, <2>2, <3>1
      <4>4. PICK h \in 1 .. m : /\ Mark(p[h]) /\ After(p[h]) = y
                                /\ \A i \in (h + 1) .. m : ~Mark(p[i])
        BY <1>2, <3>1, <4>3
      <4>5. ~(j < h) /\ ~(h < j)
        <5>1. j < h => h \in (j + 1) .. m
          BY <3>1
        <5>2. h < j => j \in (h + 1) .. m
          BY <3>1
        <5> QED
          BY <4>2, <4>3, <4>4, <5>1, <5>2
      <4>6. y = c
        <5>1. h = j
          BY <1>1, <3>1, <4>5
        <5> QED
          BY <4>3, <4>4, <5>1
      <4> QED
        BY <1>9, <4>1, <4>6
    <3>2. CASE j \notin 1 .. m
      <4>1. PICK i \in 1 .. (k - 1) : j = m + i
        BY <1>3, <3>2
      <4>2. Mark(q[i]) /\ After(q[i]) = c
        BY <1>1, <1>4, <2>2, <4>1
      <4>3. \A h \in (i + 1) .. (k - 1) : ~Mark(q[h])
        <5> SUFFICES ASSUME NEW h \in (i + 1) .. (k - 1) PROVE ~Mark(q[h])
          OBVIOUS
        <5>1. m + h \in (j + 1) .. ((m + k) - 1) /\ h \in 1 .. (k - 1)
          BY <1>0, <1>1, <4>1
        <5> QED
          BY <1>1, <1>4, <2>2, <5>1
      <4> QED
        BY <1>9, <4>2, <4>3
    <3> QED
      BY <3>1, <3>2
  <2> QED
    BY <1>7, <1>8, <2>1, <2>2
<1> QED
  BY <1>6, <1>7 DEF s, m

\* Along the first part of a queue the connection is as if it were the whole.
LEMMA AtFirst ==
    ASSUME NEW D, NEW p \in Seq(D), NEW q \in Seq(D), NEW x, NEW c, NEW k \in 1 .. (Len(p) + 1)
    PROVE  At(x, p \o q, k, c) <=> At(x, p, k, c)
<1>1. /\ Len(p) \in Nat
      /\ \A i \in 1 .. Len(p) : (p \o q)[i] = p[i]
  BY ConcatAt
<1>2. \A i \in 1 .. (k - 1) : (p \o q)[i] = p[i]
  BY <1>1
<1>3. \A j \in 1 .. (k - 1) : \A i \in (j + 1) .. (k - 1) : i \in 1 .. (k - 1)
  BY <1>1
<1> QED
  BY <1>2, <1>3 DEF At

\* A queue is in two parts: how it ends, and whether its bytes and closings are on their own
\* connection, is decided part by part.
LEMMA ConcatFollows ==
    ASSUME NEW D, NEW p \in Seq(D), NEW q \in Seq(D), NEW x, NEW y, Ends(x, p, y)
    PROVE  /\ Follows(x, p \o q) <=> Follows(x, p) /\ Follows(y, q)
           /\ \A z : Ends(x, p \o q, z) <=> Ends(y, q, z)
<1> DEFINE s == p \o q
           m == Len(p)
           n == Len(q)
<1>1. /\ m \in Nat /\ n \in Nat /\ DOMAIN p = 1 .. m /\ DOMAIN q = 1 .. n
      /\ s \in Seq(D) /\ DOMAIN s = 1 .. (m + n)
      /\ \A i \in 1 .. m : s[i] = p[i]
      /\ \A i \in 1 .. n : s[m + i] = q[i]
  BY ConcatAt
<1>2. Len(s) = m + n
  BY ConcatProperties
<1>3. \A c : \A k \in 1 .. m : At(x, s, k, c) <=> At(x, p, k, c)
  <2> SUFFICES ASSUME NEW c, NEW k \in 1 .. m PROVE At(x, s, k, c) <=> At(x, p, k, c)
    OBVIOUS
  <2>1. k \in 1 .. (Len(p) + 1)
    BY <1>1
  <2> QED
    BY <2>1, AtFirst
<1>4. \A c : \A k \in 1 .. n : At(x, s, m + k, c) <=> At(y, q, k, c)
  <2> SUFFICES ASSUME NEW c, NEW k \in 1 .. n PROVE At(x, s, m + k, c) <=> At(y, q, k, c)
    OBVIOUS
  <2>1. k \in 1 .. (Len(q) + 1)
    BY <1>1
  <2> QED
    BY <2>1, AtSecond
<1>5. \A z : Ends(x, s, z) <=> Ends(y, q, z)
  <2> SUFFICES ASSUME NEW z PROVE Ends(x, s, z) <=> Ends(y, q, z)
    OBVIOUS
  <2>1. n + 1 \in 1 .. (Len(q) + 1) /\ m + (n + 1) = (m + n) + 1
    BY <1>1
  <2>2. At(x, s, m + (n + 1), z) <=> At(y, q, n + 1, z)
    BY <2>1, AtSecond
  <2> QED
    BY <1>2, <2>1, <2>2 DEF Ends
<1> HIDE DEF s, m, n
<1>6. ASSUME Follows(x, s) PROVE Follows(x, p) /\ Follows(y, q)
  <2>1. \A i \in 1 .. m : i \in DOMAIN s
    BY <1>1
  <2>2. \A i \in 1 .. n : m + i \in DOMAIN s
    BY <1>1
  <2> QED
    BY <1>1, <1>3, <1>4, <1>6, <2>1, <2>2 DEF Follows
<1>7. ASSUME Follows(x, p), Follows(y, q) PROVE Follows(x, s)
  <2> SUFFICES ASSUME NEW k \in 1 .. (m + n), Bound(s[k]) PROVE At(x, s, k, s[k].conn)
    BY <1>1 DEF Follows
  <2>1. CASE k \in 1 .. m
    BY <1>1, <1>3, <1>7, <2>1 DEF Follows
  <2>2. CASE k \notin 1 .. m
    <3>1. k - m \in 1 .. n /\ k = m + (k - m)
      BY <1>1, <2>2
    <3>2. PICK i \in 1 .. n : k = m + i
      BY <3>1
    <3> QED
      BY <1>1, <1>4, <1>7, <3>2 DEF Follows
  <2> QED
    BY <2>1, <2>2
<1> QED
  BY <1>5, <1>6, <1>7 DEF s

\* The connection behind one event.
Next1(x, e) == IF Mark(e) THEN After(e) ELSE x

\* A queue of one event.
LEMMA OneFollows ==
    ASSUME NEW x, NEW e
    PROVE  /\ Follows(x, <<e>>) <=> (Bound(e) => x = e.conn)
           /\ Ends(x, <<e>>, Next1(x, e))
<1>1. DOMAIN <<e>> = {1} /\ <<e>>[1] = e /\ Len(<<e>>) = 1
  OBVIOUS
<1>2. \A c : At(x, <<e>>, 1, c) <=> x = c
  BY DEF At
<1>3. At(x, <<e>>, 2, Next1(x, e))
  <2>1. 1 .. (2 - 1) = {1} /\ \A i \in (1 + 1) .. (2 - 1) : FALSE
    OBVIOUS
  <2> QED
    BY <1>1, <2>1 DEF At, Next1
<1>4. Follows(x, <<e>>) <=> (Bound(e) => x = e.conn)
  BY <1>1, <1>2 DEF Follows
<1>5. Ends(x, <<e>>, Next1(x, e))
  BY <1>1, <1>3 DEF Ends
<1> QED
  BY <1>4, <1>5

\* A queue without events ends on the connection on which it begins.
LEMMA NoneFollows ==
    ASSUME NEW x
    PROVE  Follows(x, <<>>) /\ \A c : Ends(x, <<>>, c) <=> x = c
<1>1. DOMAIN <<>> = {} /\ Len(<<>>) = 0 /\ 1 .. (0 + 1 - 1) = {}
  OBVIOUS
<1>2. Follows(x, <<>>)
  BY <1>1 DEF Follows
<1>3. \A c : Ends(x, <<>>, c) <=> x = c
  BY <1>1 DEF Ends, At
<1> QED
  BY <1>2, <1>3

\* A queue with one more event at its end.
LEMMA OneMore ==
    ASSUME NEW D, NEW q \in Seq(D), NEW e \in D, NEW x, NEW y, Ends(x, q, y), Follows(x, q),
           Bound(e) => y = e.conn
    PROVE  Follows(x, q \o <<e>>) /\ Ends(x, q \o <<e>>, Next1(y, e))
<1>1. <<e>> \in Seq(D)
  BY OneBytes
<1>2. Follows(y, <<e>>) /\ Ends(y, <<e>>, Next1(y, e))
  BY OneFollows
<1> QED
  BY <1>1, <1>2, ConcatFollows

\* Without its first event a queue begins behind that event.
LEMMA OneLess ==
    ASSUME NEW D, NEW q \in Seq(D), q # <<>>, NEW x, Follows(x, q)
    PROVE  /\ Bound(Head(q)) => x = Head(q).conn
           /\ Follows(Next1(x, Head(q)), Tail(q))
           /\ \A z : Ends(x, q, z) <=> Ends(Next1(x, Head(q)), Tail(q), z)
<1>1. Head(q) \in D /\ Tail(q) \in Seq(D) /\ q = <<Head(q)>> \o Tail(q)
  BY HeadFirst
<1>2. <<Head(q)>> \in Seq(D)
  BY <1>1, OneBytes
<1>3. /\ Follows(x, <<Head(q)>>) <=> (Bound(Head(q)) => x = Head(q).conn)
      /\ Ends(x, <<Head(q)>>, Next1(x, Head(q)))
  BY OneFollows
<1>4. /\ Follows(x, <<Head(q)>> \o Tail(q)) <=>
            Follows(x, <<Head(q)>>) /\ Follows(Next1(x, Head(q)), Tail(q))
      /\ \A z : Ends(x, <<Head(q)>> \o Tail(q), z) <=> Ends(Next1(x, Head(q)), Tail(q), z)
  BY <1>1, <1>2, <1>3, ConcatFollows
<1> QED
  BY <1>1, <1>3, <1>4

-----------------------------------------------------------------------------
(* The queues that a close makes                                            *)

\* Nth(S, _) goes through the whole of S.
LEMMA NthOnto ==
    ASSUME NEW S \in SUBSET Nat, IsFiniteSet(S), NEW j \in S
    PROVE  \E i \in 1 .. Cardinality(S) : Nth(S, i) = j
<1> DEFINE i == Rank(S, j) + 1
<1>1. Cardinality(S) \in Nat
  BY FS_CardinalityType
<1>2. Rank(S, j) \in 0 .. (Cardinality(S) - 1)
  BY RankBound
<1>3. i \in 1 .. Cardinality(S)
  BY <1>1, <1>2
<1>4. Nth(S, i) \in S /\ Rank(S, Nth(S, i)) = Rank(S, j)
  <2>1. Nth(S, i) \in S /\ Rank(S, Nth(S, i)) = i - 1
    BY <1>3, NthProperties
  <2> QED
    BY <1>2, <2>1
<1>5. ~(Nth(S, i) < j) /\ ~(j < Nth(S, i))
  <2>1. Nth(S, i) < j => Rank(S, Nth(S, i)) < Rank(S, j)
    BY <1>4, RankGrows
  <2>2. j < Nth(S, i) => Rank(S, j) < Rank(S, Nth(S, i))
    BY <1>4, RankGrows
  <2> QED
    BY <1>2, <1>4, <2>1, <2>2
<1>6. Nth(S, i) = j
  <2>1. Nth(S, i) \in Nat /\ j \in Nat
    BY <1>4
  <2> HIDE DEF i
  <2> QED
    BY <1>5, <2>1
<1> QED
  BY <1>3, <1>6

\* A part of a queue keeps the order, and its elements are those at the positions picked.
LEMMA PickKeeps ==
    ASSUME NEW D, NEW q \in Seq(D), NEW S \in SUBSET (DOMAIN q)
    PROVE  /\ Pick(q, S) \in Seq(D) /\ Range(Pick(q, S)) = {q[k] : k \in S}
           /\ InOrder(q) => InOrder(Pick(q, S))
<1> DEFINE p == Pick(q, S)
           n == Cardinality(S)
<1>1. /\ p \in Seq(D) /\ Len(p) = n
      /\ \A i \in 1 .. n : p[i] = q[Nth(S, i)] /\ Nth(S, i) \in S
      /\ \A j \in S : \E i \in 1 .. n : p[i] = q[j]
      /\ \A i, j \in 1 .. n : i < j => Nth(S, i) < Nth(S, j)
  BY PickProperties
<1>2. DOMAIN p = 1 .. n
  BY <1>1, LenProperties
<1> HIDE DEF p, n
<1>3. Range(p) = {q[k] : k \in S}
  <2>1. \A e \in Range(p) : e \in {q[k] : k \in S}
    BY <1>1, <1>2 DEF Range
  <2>2. \A k \in S : q[k] \in Range(p)
    BY <1>1, <1>2 DEF Range
  <2> QED
    BY <2>1, <2>2
<1>4. InOrder(q) => InOrder(p)
  BY <1>1, <1>2 DEF InOrder
<1> QED
  BY <1>1, <1>3, <1>4 DEF p

\* OnlyBytes and WithoutBytes.
LEMMA PickBytes ==
    ASSUME NEW D, NEW q \in Seq(D), \A e \in Range(q) : e.op # "bytes" => e.bytes = {}
    PROVE  /\ OnlyBytes(q) \in Seq(D) /\ Range(OnlyBytes(q)) \subseteq Range(q)
           /\ \A e \in Range(OnlyBytes(q)) : e.op = "bytes"
           /\ InOrder(q) => InOrder(OnlyBytes(q))
           /\ BytesIn(OnlyBytes(q)) = BytesIn(q)
           /\ WithoutBytes(q) \in Seq(D) /\ Range(WithoutBytes(q)) \subseteq Range(q)
           /\ InOrder(q) => InOrder(WithoutBytes(q))
           /\ BytesIn(WithoutBytes(q)) = {}
<1> DEFINE A == {k \in DOMAIN q : q[k].op = "bytes"}
           B == {k \in DOMAIN q : q[k].op # "bytes"}
<1>1. /\ OnlyBytes(q) \in Seq(D) /\ Range(OnlyBytes(q)) = {q[k] : k \in A}
      /\ InOrder(q) => InOrder(OnlyBytes(q))
  <2>1. A \in SUBSET (DOMAIN q)
    OBVIOUS
  <2> QED
    BY <2>1, PickKeeps DEF OnlyBytes
<1>2. /\ WithoutBytes(q) \in Seq(D) /\ Range(WithoutBytes(q)) = {q[k] : k \in B}
      /\ InOrder(q) => InOrder(WithoutBytes(q))
  <2>1. B \in SUBSET (DOMAIN q)
    OBVIOUS
  <2> QED
    BY <2>1, PickKeeps DEF WithoutBytes
<1>3. BytesIn(OnlyBytes(q)) = BytesIn(q)
  <2>1. BytesIn(OnlyBytes(q)) = UNION {e.bytes : e \in {q[k] : k \in A}}
    BY <1>1, BytesOfRange
  <2>2. BytesIn(q) = UNION {e.bytes : e \in Range(q)}
    BY BytesOfRange
  <2>3. \A k \in DOMAIN q : q[k].op # "bytes" => q[k].bytes = {}
    BY DEF Range
  <2>4. \A e \in {q[k] : k \in A} : e \in Range(q)
    BY DEF Range
  <2>5. \A e \in Range(q) : e \in {q[k] : k \in A} \/ e.bytes = {}
    BY <2>3 DEF Range
  <2> HIDE DEF A
  <2> QED
    BY <2>1, <2>2, <2>4, <2>5
<1>4. BytesIn(WithoutBytes(q)) = {}
  <2>1. BytesIn(WithoutBytes(q)) = UNION {e.bytes : e \in {q[k] : k \in B}}
    BY <1>2, BytesOfRange
  <2>2. \A e \in {q[k] : k \in B} : e.bytes = {}
    BY DEF Range
  <2> HIDE DEF B
  <2> QED
    BY <2>1, <2>2
<1> QED
  BY <1>1, <1>2, <1>3, <1>4 DEF Range

\* Dropping bytes from a queue moves no connection: they are no marks.
LEMMA WithoutBytesFollows ==
    ASSUME NEW D, NEW q \in Seq(D), NEW x
    PROVE  /\ Follows(x, q) => Follows(x, WithoutBytes(q))
           /\ \A c : Ends(x, q, c) => Ends(x, WithoutBytes(q), c)
<1> DEFINE S == {k \in DOMAIN q : q[k].op # "bytes"}
           p == Pick(q, S)
           n == Cardinality(S)
           m == Len(q)
<1>1. /\ Len(p) = n /\ p \in Seq(D)
      /\ \A i \in 1 .. n : p[i] = q[Nth(S, i)] /\ Nth(S, i) \in S
      /\ \A i, j \in 1 .. n : i < j => Nth(S, i) < Nth(S, j)
  <2>1. S \in SUBSET (DOMAIN q)
    OBVIOUS
  <2> QED
    BY <2>1, PickProperties
<1>2. DOMAIN p = 1 .. n /\ n \in Nat /\ DOMAIN q = 1 .. m /\ m \in Nat
  BY <1>1, LenProperties
<1>3. \A j \in S : \E i \in 1 .. n : Nth(S, i) = j
  <2>1. S \in SUBSET Nat /\ IsFiniteSet(S)
    <3>1. IsFiniteSet(1 .. m) /\ S \subseteq 1 .. m
      BY <1>2, FS_Interval
    <3> QED
      BY <3>1, FS_Subset
  <2> QED
    BY <2>1, NthOnto
<1>4. \A j \in DOMAIN q : Mark(q[j]) => j \in S
  BY DEF Mark
<1>5. \A i \in 1 .. n : Nth(S, i) \in 1 .. m
  BY <1>1, <1>2
<1> HIDE DEF S, n, m, p
<1> DEFINE Place(k) == IF k = n + 1 THEN m + 1 ELSE Nth(S, k)
<1>6. ASSUME NEW k \in 1 .. (n + 1), NEW c, At(x, q, Place(k), c)
      PROVE  At(x, p, k, c)
  <2>1. \A i \in 1 .. (k - 1) : i \in 1 .. n /\ Nth(S, i) < Place(k)
    <3> SUFFICES ASSUME NEW i \in 1 .. (k - 1) PROVE i \in 1 .. n /\ Nth(S, i) < Place(k)
      OBVIOUS
    <3>1. i \in 1 .. n
      BY <1>2
    <3>2. CASE k = n + 1
      BY <1>2, <1>5, <3>1, <3>2
    <3>3. CASE k \in 1 .. n
      <4>1. k # n + 1 /\ i < k
        BY <1>2, <3>3
      <4> QED
        BY <1>1, <3>1, <3>3, <4>1
    <3> QED
      BY <1>2, <3>1, <3>2, <3>3
  <2>2. Place(k) \in 1 .. (m + 1)
    BY <1>2, <1>5
  <2> HIDE DEF Place
  <2>3. CASE x = c /\ \A j \in 1 .. (Place(k) - 1) : ~Mark(q[j])
    <3>1. \A i \in 1 .. (k - 1) : ~Mark(p[i])
      <4> SUFFICES ASSUME NEW i \in 1 .. (k - 1) PROVE ~Mark(p[i])
        OBVIOUS
      <4>1. Nth(S, i) \in 1 .. (Place(k) - 1)
        BY <1>5, <2>1, <2>2
      <4> QED
        BY <1>1, <2>1, <2>3, <4>1
    <3> QED
      BY <2>3, <3>1 DEF At
  <2>4. ASSUME NEW j \in 1 .. (Place(k) - 1), Mark(q[j]), After(q[j]) = c,
               \A h \in (j + 1) .. (Place(k) - 1) : ~Mark(q[h])
        PROVE  At(x, p, k, c)
    <3>1. j \in S
      BY <1>2, <1>4, <2>2, <2>4
    <3>2. PICK i \in 1 .. n : Nth(S, i) = j
      BY <1>3, <3>1
    <3>3. i \in 1 .. (k - 1)
      <4>1. ~(k <= i)
        <5>1. k <= i => k \in 1 .. n /\ (k < i \/ k = i)
          BY <1>2
        <5>2. k \in 1 .. n => Place(k) = Nth(S, k)
          BY <1>2 DEF Place
        <5>3. k \in 1 .. n /\ k < i => Nth(S, k) < Nth(S, i)
          BY <1>1
        <5> QED
          BY <1>5, <2>2, <3>2, <5>1, <5>2, <5>3
      <4> QED
        BY <1>2, <4>1
    <3>4. Mark(p[i]) /\ After(p[i]) = c
      BY <1>1, <2>4, <3>2
    <3>5. \A h \in (i + 1) .. (k - 1) : ~Mark(p[h])
      <4> SUFFICES ASSUME NEW h \in (i + 1) .. (k - 1) PROVE ~Mark(p[h])
        OBVIOUS
      <4>1. h \in 1 .. (k - 1) /\ h \in 1 .. n /\ i < h
        BY <1>2, <3>3
      <4>2. Nth(S, h) \in (j + 1) .. (Place(k) - 1)
        BY <1>1, <1>5, <2>1, <2>2, <3>2, <4>1
      <4> QED
        BY <1>1, <2>4, <4>1, <4>2
    <3> QED
      BY <3>3, <3>4, <3>5 DEF At
  <2> QED
    BY <1>6, <2>3, <2>4 DEF At
<1>7. ASSUME Follows(x, q) PROVE Follows(x, p)
  <2> SUFFICES ASSUME NEW k \in 1 .. n, Bound(p[k]) PROVE At(x, p, k, p[k].conn)
    BY <1>2 DEF Follows
  <2>1. Place(k) = Nth(S, k) /\ k \in 1 .. (n + 1)
    BY <1>2
  <2>2. At(x, q, Nth(S, k), p[k].conn)
    BY <1>1, <1>2, <1>5, <1>7 DEF Follows
  <2> HIDE DEF Place
  <2> QED
    BY <1>6, <2>1, <2>2
<1>8. ASSUME NEW c, Ends(x, q, c) PROVE Ends(x, p, c)
  <2>1. Place(n + 1) = m + 1 /\ n + 1 \in 1 .. (n + 1)
    BY <1>2
  <2>2. At(x, q, m + 1, c)
    BY <1>8 DEF Ends, m
  <2> HIDE DEF Place
  <2>3. At(x, p, n + 1, c)
    BY <1>6, <2>1, <2>2
  <2> QED
    BY <1>1, <2>3 DEF Ends
<1>9. p = WithoutBytes(q)
  BY DEF p, S, WithoutBytes
<1> QED
  BY <1>7, <1>8, <1>9

\* DetachedBytes.
LEMMA DetachedKeeps ==
    ASSUME NEW q \in Seq(EventType)
    PROVE  /\ DetachedBytes(q) \in Seq(EventType)
           /\ \A e \in Range(DetachedBytes(q)) : \E f \in Range(q) : e = Detached(f)
           /\ BytesIn(DetachedBytes(q)) = BytesIn(q)
           /\ InOrder(q) => InOrder(DetachedBytes(q))
<1> DEFINE p == DetachedBytes(q)
<1>1. \A f \in EventType : /\ Detached(f) \in EventType /\ Detached(f).bytes = f.bytes
  BY DEF Detached, EventType
<1>2. DOMAIN q = 1 .. Len(q) /\ Len(q) \in Nat /\ \A k \in DOMAIN q : q[k] \in EventType
  BY LenProperties, ElementOfSeq
<1>3. DOMAIN p = DOMAIN q /\ \A k \in DOMAIN q : p[k] = Detached(q[k])
  BY DEF DetachedBytes
<1>4. p \in Seq(EventType)
  <2>1. /\ p = [k \in 1 .. Len(q) |-> Detached(q[k])]
        /\ \A k \in 1 .. Len(q) : Detached(q[k]) \in EventType
    BY <1>1, <1>2 DEF DetachedBytes
  <2> QED
    BY <1>2, <2>1, SeqDef
<1> HIDE DEF p
<1>5. \A e \in Range(p) : \E f \in Range(q) : e = Detached(f)
  BY <1>3 DEF Range
<1>6. \A k \in DOMAIN q : p[k].bytes = q[k].bytes
  BY <1>1, <1>2, <1>3
<1>7. BytesIn(p) = BytesIn(q)
  BY <1>3, <1>6 DEF BytesIn
<1>8. InOrder(q) => InOrder(p)
  BY <1>3, <1>6 DEF InOrder
<1> QED
  BY <1>4, <1>5, <1>7, <1>8 DEF p

-----------------------------------------------------------------------------
(* Taking a part of a chunk                                                 *)

\* What the worker took of a chunk and what stays are the chunk, and the first is in front of the
\* second; what stays is still a chunk of the same connection.
LEMMA TakePart ==
    ASSUME NEW D, NEW e \in EventType, IsFiniteSet(e.bytes), NEW count \in Int
    PROVE  /\ FirstBytes(e, count) = [e EXCEPT !.bytes = FirstOf(e.bytes, count)]
           /\ FirstBytes(e, count) \in EventType
           /\ Rest(e, count) \in Seq(EventType) /\ InOrder(Rest(e, count))
           /\ \A f \in Range(Rest(e, count)) :
                 f = [e EXCEPT !.bytes = e.bytes \ FirstOf(e.bytes, count)]
           /\ Rest(e, count) = <<>>
              \/ Rest(e, count) = <<[e EXCEPT !.bytes = e.bytes \ FirstOf(e.bytes, count)]>>
           /\ e.bytes = FirstOf(e.bytes, count) \cup BytesIn(Rest(e, count))
           /\ Before(FirstOf(e.bytes, count), BytesIn(Rest(e, count)))
<1> DEFINE first == FirstOf(e.bytes, count)
           left == [e EXCEPT !.bytes = e.bytes \ first]
<1>1. e.bytes \in SUBSET Nat
  BY DEF EventType
<1>2. first \subseteq e.bytes
  BY DEF FirstOf
<1>3. FirstBytes(e, count) = [e EXCEPT !.bytes = first]
  BY DEF FirstBytes
<1>4. [e EXCEPT !.bytes = first] \in EventType /\ left \in EventType
  BY <1>1, <1>2 DEF EventType
<1>5. left.bytes = e.bytes \ first
  BY DEF EventType
<1>6. Before(first, e.bytes \ first)
  <2> SUFFICES ASSUME NEW a \in e.bytes, NEW b \in e.bytes, Rank(e.bytes, a) < count,
                      ~(Rank(e.bytes, b) < count)
               PROVE  a < b
    BY DEF Before, FirstOf
  <2>1. Rank(e.bytes, a) \in Int /\ Rank(e.bytes, b) \in Int
    <3>1. Cardinality(e.bytes) \in Nat
      BY FS_CardinalityType
    <3>2. /\ Rank(e.bytes, a) \in 0 .. (Cardinality(e.bytes) - 1)
          /\ Rank(e.bytes, b) \in 0 .. (Cardinality(e.bytes) - 1)
      BY <1>1, RankBound
    <3> QED
      BY <3>1, <3>2
  <2>2. b < a => Rank(e.bytes, b) < Rank(e.bytes, a)
    BY <1>1, RankGrows
  <2>3. a # b
    OBVIOUS
  <2>4. a \in Nat /\ b \in Nat
    BY <1>1
  <2> QED
    BY <2>1, <2>2, <2>3, <2>4
<1>7. CASE count = Cardinality(e.bytes)
  <2>1. Rest(e, count) = <<>>
    BY <1>7 DEF Rest
  <2>2. first = e.bytes
    <3>1. Cardinality(e.bytes) \in Nat
      BY FS_CardinalityType
    <3>2. \A b \in e.bytes : Rank(e.bytes, b) < count
      <4> TAKE b \in e.bytes
      <4>1. Rank(e.bytes, b) \in 0 .. (Cardinality(e.bytes) - 1)
        BY <1>1, RankBound
      <4> QED
        BY <1>7, <3>1, <4>1
    <3> QED
      BY <3>2 DEF FirstOf
  <2>3. /\ Rest(e, count) \in Seq(EventType) /\ Range(Rest(e, count)) = {}
        /\ BytesIn(Rest(e, count)) = {} /\ InOrder(Rest(e, count))
    BY <2>1, NoBytes
  <2> HIDE DEF first, left
  <2> QED
    BY <1>3, <1>4, <2>1, <2>2, <2>3 DEF first, left, Before
<1>8. CASE count # Cardinality(e.bytes)
  <2>1. Rest(e, count) = <<left>>
    BY <1>8 DEF Rest
  <2>2. /\ Rest(e, count) \in Seq(EventType) /\ Range(Rest(e, count)) = {left}
        /\ BytesIn(Rest(e, count)) = e.bytes \ first /\ InOrder(Rest(e, count))
    <3> HIDE DEF left
    <3> QED
      BY <1>4, <1>5, <2>1, OneBytes
  <2> HIDE DEF first, left
  <2> QED
    BY <1>2, <1>3, <1>4, <1>6, <2>1, <2>2 DEF first, left
<1> QED
  BY <1>7, <1>8

-----------------------------------------------------------------------------
(* The invariant of a state, said part by part                              *)

\* What waits is what the application pulled, and then what is still in the transport.
LEMMA WaitingParts ==
    ASSUME Typed
    PROVE  /\ EventsOf(transport) \in Seq(EventType) /\ Waiting \in Seq(EventType)
           /\ Range(Waiting) = Range(pending) \cup Range(EventsOf(transport))
           /\ BytesIn(Waiting) = BytesIn(pending) \cup BytesIn(EventsOf(transport))
           /\ InOrder(Waiting) <=> /\ InOrder(pending) /\ InOrder(EventsOf(transport))
                                   /\ Before(BytesIn(pending), BytesIn(EventsOf(transport)))
<1>1. pending \in Seq(EventType) /\ EventsOf(transport) \in Seq(EventType)
  <2>1. CASE transport = None
    BY <2>1 DEF Typed, EventsOf
  <2>2. CASE transport # None
    BY <2>2 DEF Typed, EventsOf, TransportType
  <2> QED
    BY <2>1, <2>2
<1> QED
  BY <1>1, ConcatBytes DEF Waiting

\* The bytes on their way are numbers, of which each queue has its own.
LEMMA BytesApart ==
    ASSUME Typed, Kept
    PROVE  LET H == heard
               A == BytesIn(commands)
               B == BytesIn(chunks)
               C == BytesIn(Waiting)
           IN  /\ Len(origin) \in Nat /\ received \subseteq 1 .. Len(origin)
               /\ \A S \in {H, A, B, C} : S \subseteq received /\ S \cap lost = {}
               /\ H \cap A = {} /\ H \cap B = {} /\ H \cap C = {}
               /\ A \cap B = {} /\ A \cap C = {} /\ B \cap C = {}
<1> DEFINE H == heard
           A == BytesIn(commands)
           B == BytesIn(chunks)
           C == BytesIn(Waiting)
<1>1. /\ Len(origin) \in Nat /\ received \subseteq 1 .. Len(origin)
  BY LenProperties DEF Typed
<1>2. received \ lost = H \cup A \cup B \cup C
  BY DEF Kept
<1>3. /\ Before(H, A) /\ Before(H, B) /\ Before(H, C)
      /\ Before(A, B) /\ Before(A, C) /\ Before(B, C)
  BY DEF Kept
<1> HIDE DEF H, A, B, C
<1>4. \A S \in {H, A, B, C} : S \subseteq received /\ S \cap lost = {}
  BY <1>2
<1>5. \A x \in received : x \in Nat
  BY <1>1
<1>6. \A S, T \in {H, A, B, C} : Before(S, T) => S \cap T = {}
  <2> SUFFICES ASSUME NEW S \in {H, A, B, C}, NEW T \in {H, A, B, C}, Before(S, T),
                      NEW x \in S \cap T
               PROVE  FALSE
    OBVIOUS
  <2>1. x \in Nat
    BY <1>4, <1>5
  <2>2. x < x
    BY DEF Before
  <2> QED
    BY <2>1, <2>2
<1>7. /\ H \cap A = {} /\ H \cap B = {} /\ H \cap C = {}
      /\ A \cap B = {} /\ A \cap C = {} /\ B \cap C = {}
  BY <1>3, <1>6
<1> QED
  BY <1>1, <1>4, <1>7 DEF H, A, B, C

\* A chunk on its way is finite.
LEMMA FiniteBytes ==
    ASSUME Typed, Kept, NEW e \in Range(Waiting) \cup Range(chunks)
    PROVE  e \in EventType /\ IsFiniteSet(e.bytes) /\ e.bytes \subseteq received
<1>1. e \in EventType
  <2>1. Waiting \in Seq(EventType) /\ chunks \in Seq(EventType)
    BY WaitingParts DEF Typed
  <2>2. \A q \in Seq(EventType) : \A k \in DOMAIN q : q[k] \in EventType
    BY LenProperties, ElementOfSeq
  <2> QED
    BY <2>1, <2>2 DEF Range
<1>2. e.bytes \subseteq received
  <2>1. e.bytes \subseteq BytesIn(Waiting) \cup BytesIn(chunks)
    BY DEF BytesIn, Range
  <2>2. BytesIn(Waiting) \subseteq received /\ BytesIn(chunks) \subseteq received
    BY BytesApart
  <2> QED
    BY <2>1, <2>2
<1>3. IsFiniteSet(e.bytes)
  <2>1. IsFiniteSet(1 .. Len(origin)) /\ e.bytes \subseteq 1 .. Len(origin)
    BY <1>2, BytesApart, FS_Interval
  <2> QED
    BY <2>1, FS_Subset
<1> QED
  BY <1>1, <1>2, <1>3

-----------------------------------------------------------------------------
(* The user                                                                 *)

\* The one event that openTransport leaves in the new transport.
LEMMA NewTransportParts ==
    ASSUME Typed, NEW kind \in Kinds, NEW succeeds \in BOOLEAN, OpenTransport(kind, succeeds)
    PROVE  \E e \in EventType, c \in Conns \cup {None} :
              /\ transport' \in TransportType /\ transport' # None /\ transport'.events = <<e>>
              /\ transport'.conn = c /\ transport'.done = <<>> /\ transport'.generation = 1
              /\ transport'.read \in {0, 1} /\ made' \in 0 .. MaxConns
              /\ Sound(e) /\ e.op # "bytes" /\ e.bytes = {} /\ ~Bound(e) /\ Next1(None, e) = c
<1>0. Kinds \subseteq {"stream", "server"} /\ MaxConns \in Nat
  BY ConnectionAssumption
<1>1. CASE ~succeeds
  <2> DEFINE e == [Report("error", Listen) EXCEPT !.ready = kind = "stream"]
  <2>1. transport' = [NewTransport("failed", None, <<e>>) EXCEPT !.state = "error"]
        /\ made' = made
    BY <1>1 DEF OpenTransport
  <2>2. /\ e \in EventType /\ e.op = "error" /\ e.bytes = {} /\ Sound(e) /\ ~Bound(e)
        /\ ~Mark(e)
    BY DEF Report, Event, EventType, Sound, Bound, Mark, Listen
  <2> HIDE DEF e
  <2>3. <<e>> \in Seq(EventType) /\ <<>> \in Seq(ReadType)
    BY <2>2, OneBytes, EmptySeq
  <2>7. transport' = [kind |-> "failed", state |-> "error", conn |-> None, generation |-> 1,
                      done |-> <<>>, read |-> 0, posted |-> 0, events |-> <<e>>]
    BY <2>1 DEF NewTransport
  <2>4. /\ transport' \in TransportType /\ transport'.events = <<e>> /\ transport'.conn = None
        /\ transport'.done = <<>> /\ transport'.generation = 1 /\ transport'.read = 0
    BY <2>3, <2>7 DEF TransportType
  <2>5. transport' # None
    BY <2>4, NoneAssumption
  <2>6. Next1(None, e) = None
    BY <2>2 DEF Next1
  <2> QED
    BY <2>1, <2>2, <2>4, <2>5, <2>6 DEF Typed
<1>2. CASE succeeds /\ kind = "stream"
  <2> DEFINE c == made + 1
             e == Report("open", c)
  <2>1. transport' = NewTransport("stream", c, <<e>>) /\ made' = c /\ made < MaxConns
    BY <1>2 DEF OpenTransport
  <2>2. c \in Conns /\ made' \in 0 .. MaxConns /\ c # None /\ c # 0
    BY <1>0, <2>1, ConnectionAssumption DEF Conns, Typed
  <2> HIDE DEF c
  <2>3. /\ e \in EventType /\ e.op = "open" /\ e.bytes = {} /\ Sound(e) /\ ~Bound(e)
        /\ Mark(e) /\ After(e) = c
    BY <2>2 DEF Report, Event, EventType, Sound, Bound, Mark, After, Listen
  <2> HIDE DEF e
  <2>4. <<e>> \in Seq(EventType) /\ <<>> \in Seq(ReadType)
    BY <2>3, OneBytes, EmptySeq
  <2>5. /\ transport' \in TransportType /\ transport'.events = <<e>> /\ transport'.conn = c
        /\ transport'.done = <<>> /\ transport'.generation = 1 /\ transport'.read = 1
    BY <2>1, <2>2, <2>4 DEF NewTransport, TransportType
  <2>6. transport' # None
    BY <2>5, NoneAssumption
  <2>7. Next1(None, e) = c
    BY <2>3 DEF Next1
  <2> QED
    BY <2>2, <2>3, <2>5, <2>6, <2>7
<1>3. CASE succeeds /\ kind # "stream"
  <2> DEFINE e == Report("open", Listen)
  <2>1. transport' = NewTransport(kind, None, <<e>>) /\ made' = made /\ kind = "server"
    BY <1>0, <1>3 DEF OpenTransport
  <2>2. /\ e \in EventType /\ e.op = "open" /\ e.bytes = {} /\ Sound(e) /\ ~Bound(e)
        /\ ~Mark(e)
    BY DEF Report, Event, EventType, Sound, Bound, Mark, Listen
  <2> HIDE DEF e
  <2>3. <<e>> \in Seq(EventType) /\ <<>> \in Seq(ReadType)
    BY <2>2, OneBytes, EmptySeq
  <2>4. /\ transport' \in TransportType /\ transport'.events = <<e>> /\ transport'.conn = None
        /\ transport'.done = <<>> /\ transport'.generation = 1 /\ transport'.read = 0
    BY <2>1, <2>3 DEF NewTransport, TransportType
  <2>5. transport' # None
    BY <2>4, NoneAssumption
  <2>6. Next1(None, e) = None
    BY <2>2 DEF Next1
  <2> QED
    BY <2>1, <2>2, <2>4, <2>5, <2>6 DEF Typed
<1> QED
  BY <1>1, <1>2, <1>3

\* Opening drops everything behind the worker, so that the one new event is all that waits.
LEMMA OpenTransportKeeps ==
    ASSUME IInv, NEW kind \in Kinds, NEW succeeds \in BOOLEAN, OpenTransport(kind, succeeds)
    PROVE  IInv'
<1>1. PICK e \in EventType, c \in Conns \cup {None} :
         /\ transport' \in TransportType /\ transport' # None /\ transport'.events = <<e>>
         /\ transport'.conn = c /\ transport'.done = <<>> /\ transport'.generation = 1
         /\ transport'.read \in {0, 1} /\ made' \in 0 .. MaxConns
         /\ Sound(e) /\ e.op # "bytes" /\ e.bytes = {} /\ ~Bound(e) /\ Next1(None, e) = c
  BY NewTransportParts DEF IInv
<1>2. /\ pending' = <<>> /\ chunks' = <<>> /\ active' = None
      /\ lost' = lost \cup BytesIn(chunks) \cup BytesIn(pending) \cup BytesIn(EventsOf(transport))
      /\ UNCHANGED <<commands, heardConn, told, heard, origin, received>>
  BY DEF OpenTransport, workerVars
<1>3. Waiting' = <<e>>
  <2>1. <<e>> \in Seq(EventType)
    BY OneBytes
  <2> QED
    BY <1>1, <1>2, <2>1, ConcatEmptySeq DEF Waiting, EventsOf
<1>4. /\ <<e>> \in Seq(EventType) /\ Range(<<e>>) = {e} /\ BytesIn(<<e>>) = {} /\ InOrder(<<e>>)
      /\ <<>> \in Seq(EventType) /\ Range(<<>>) = {} /\ BytesIn(<<>>) = {} /\ InOrder(<<>>)
  BY <1>1, OneBytes, NoBytes
<1>5. lost' = lost \cup BytesIn(chunks) \cup BytesIn(Waiting)
  BY <1>2, WaitingParts DEF IInv
<1>6. Typed'
  <2>1. lost' \subseteq received
    BY <1>5, BytesApart DEF IInv, Typed
  <2> QED
    BY <1>1, <1>2, <1>4, <2>1 DEF IInv, Typed
<1>7. Shape'
  BY <1>1, <1>2, <1>3, <1>4 DEF IInv, Shape
<1>8. Own'
  BY <1>1, <1>2, <1>3, <1>4 DEF IInv, Own
<1>9. Kept'
  <2>1. received \ lost' = heard \cup BytesIn(commands)
    <3>1. received \ lost = heard \cup BytesIn(commands) \cup BytesIn(chunks) \cup BytesIn(Waiting)
      BY DEF IInv, Kept
    <3>2. /\ heard \cap BytesIn(chunks) = {} /\ heard \cap BytesIn(Waiting) = {}
          /\ BytesIn(commands) \cap BytesIn(chunks) = {}
          /\ BytesIn(commands) \cap BytesIn(Waiting) = {}
      BY BytesApart DEF IInv
    <3> QED
      BY <1>5, <3>1, <3>2
  <2>2. InOrder(commands) /\ Before(heard, BytesIn(commands))
    BY DEF IInv, Kept
  <2>3. \A A : Before(A, {}) /\ Before({}, A)
    BY DEF Before
  <2> QED
    BY <1>2, <1>3, <1>4, <2>1, <2>2, <2>3 DEF Kept
<1>10. Reads'
  <2>1. /\ InOrder(transport'.done) /\ BytesIn(transport'.done) = {} /\ Range(transport'.done) = {}
    BY <1>1, <1>4
  <2> QED
    BY <1>1, <2>1 DEF Reads, Before
<1>11. Lines'
  <2>1. Follows(None, <<e>>) /\ Ends(None, <<e>>, c)
    BY <1>1, OneFollows
  <2>2. heardConn \in {None, told} /\ Follows(told, commands)
    BY DEF IInv, Lines
  <2> QED
    BY <1>1, <1>2, <1>3, <2>1, <2>2 DEF Lines
<1> QED
  BY <1>6, <1>7, <1>8, <1>9, <1>10, <1>11 DEF IInv

\* Closing turns the bytes that were pulled into chunks, or drops them, and drops the rest.
LEMMA CloseTransportKeeps ==
    ASSUME IInv, NEW discard \in BOOLEAN, CloseTransport(discard)
    PROVE  IInv'
<1>1. /\ transport' = None /\ active' = None /\ pending' = <<>>
      /\ chunks' = IF discard THEN <<>> ELSE DetachedBytes(chunks \o OnlyBytes(pending))
      /\ lost' = lost \cup BytesIn(EventsOf(transport))
                      \cup (IF discard THEN BytesIn(chunks) \cup BytesIn(pending) ELSE {})
      /\ UNCHANGED <<made, commands, heardConn, told, heard, origin, received>>
  BY DEF CloseTransport, workerVars
<1>2. /\ <<>> \in Seq(EventType) /\ Range(<<>>) = {} /\ BytesIn(<<>>) = {} /\ InOrder(<<>>)
  BY NoBytes
<1>3. Waiting' = <<>>
  BY <1>1, <1>2, ConcatEmptySeq DEF Waiting, EventsOf
<1>4. /\ Range(Waiting) = Range(pending) \cup Range(EventsOf(transport))
      /\ BytesIn(Waiting) = BytesIn(pending) \cup BytesIn(EventsOf(transport))
      /\ InOrder(pending) /\ pending \in Seq(EventType) /\ chunks \in Seq(EventType)
      /\ InOrder(chunks) /\ Before(BytesIn(chunks), BytesIn(pending))
      /\ Before(BytesIn(pending), BytesIn(EventsOf(transport)))
  <2>1. InOrder(Waiting) /\ InOrder(chunks) /\ Before(BytesIn(chunks), BytesIn(Waiting))
    BY DEF IInv, Kept
  <2>2. Typed
    BY DEF IInv
  <2> QED
    BY <2>1, <2>2, WaitingParts DEF Typed, Before
\* The chunks that stay.
<1>5. /\ chunks' \in Seq(EventType) /\ InOrder(chunks')
      /\ BytesIn(chunks') = IF discard THEN {} ELSE BytesIn(chunks) \cup BytesIn(pending)
      /\ \A e \in Range(chunks') :
            \E f \in Range(chunks) \cup Range(pending) : e = Detached(f) /\ f.op = "bytes"
                                                         /\ f \in EventType
  <2>1. CASE discard
    BY <1>1, <1>2, <2>1
  <2>2. CASE ~discard
    <3> DEFINE kept == OnlyBytes(pending)
               both == chunks \o kept
    <3>1. /\ kept \in Seq(EventType) /\ Range(kept) \subseteq Range(pending)
          /\ \A e \in Range(kept) : e.op = "bytes"
          /\ InOrder(kept) /\ BytesIn(kept) = BytesIn(pending)
      <4>1. \A e \in Range(pending) : e.op # "bytes" => e.bytes = {}
        BY <1>4 DEF IInv, Shape, Sound
      <4> QED
        BY <1>4, <4>1, PickBytes
    <3> HIDE DEF kept
    <3>2. /\ both \in Seq(EventType) /\ Range(both) = Range(chunks) \cup Range(kept)
          /\ BytesIn(both) = BytesIn(chunks) \cup BytesIn(kept)
          /\ InOrder(both)
      BY <1>4, <3>1, ConcatBytes
    <3>3. chunks' = DetachedBytes(both)
      BY <1>1, <2>2 DEF kept
    <3> HIDE DEF both
    <3>4. /\ chunks' \in Seq(EventType)
          /\ \A e \in Range(chunks') : \E f \in Range(both) : e = Detached(f)
          /\ BytesIn(chunks') = BytesIn(both) /\ InOrder(chunks')
      BY <3>2, <3>3, DetachedKeeps
    <3>5. \A f \in Range(both) :
              /\ f \in Range(chunks) \cup Range(pending) /\ f.op = "bytes" /\ f \in EventType
      <4>1. \A f \in Range(chunks) : f.op = "bytes"
        BY DEF IInv, Shape
      <4>2. \A f \in Range(both) : f \in EventType
        BY <3>2, LenProperties, ElementOfSeq DEF Range
      <4> QED
        BY <3>1, <3>2, <4>1, <4>2
    <3> QED
      BY <2>2, <3>1, <3>2, <3>4, <3>5
  <2> QED
    BY <2>1, <2>2
<1>6. \A f \in EventType : /\ Detached(f).op = f.op /\ Detached(f).conn = f.conn
                           /\ Detached(f).bytes = f.bytes /\ Detached(f).ready = FALSE
  BY DEF Detached, EventType
<1>7. Typed'
  <2>1. lost' \subseteq received
    BY <1>1, <1>4, BytesApart DEF IInv, Typed
  <2> QED
    BY <1>1, <1>2, <1>5, <2>1 DEF IInv, Typed
<1>8. Shape'
  <2>1. \A e \in Range(chunks') : Sound(e) /\ e.op = "bytes" /\ ~e.ready
    BY <1>5, <1>6 DEF Sound
  <2> QED
    BY <1>1, <1>2, <1>3, <2>1 DEF IInv, Shape
<1>9. Own'
  <2>1. \A e \in Range(chunks') : \A b \in e.bytes : origin[b] = e.conn
    BY <1>4, <1>5, <1>6 DEF IInv, Own
  <2> QED
    BY <1>1, <1>2, <1>3, <2>1 DEF IInv, Own
<1>10. Kept'
  <2>1. received \ lost' = heard \cup BytesIn(commands) \cup BytesIn(chunks')
    <3>1. received \ lost = heard \cup BytesIn(commands) \cup BytesIn(chunks) \cup BytesIn(Waiting)
      BY DEF IInv, Kept
    <3>2. /\ heard \cap BytesIn(chunks) = {} /\ heard \cap BytesIn(Waiting) = {}
          /\ BytesIn(commands) \cap BytesIn(chunks) = {}
          /\ BytesIn(commands) \cap BytesIn(Waiting) = {}
          /\ BytesIn(chunks) \cap BytesIn(Waiting) = {}
          /\ BytesIn(Waiting) \subseteq received
      BY BytesApart DEF IInv
    <3>3. BytesIn(pending) \cap BytesIn(EventsOf(transport)) = {}
      <4>1. \A x \in BytesIn(Waiting) : x \in Nat
        BY <3>2, BytesApart DEF IInv
      <4>2. \A x \in BytesIn(Waiting) : ~(x < x)
        BY <4>1
      <4> QED
        BY <1>4, <4>2 DEF Before
    <3> QED
      BY <1>1, <1>4, <1>5, <3>1, <3>2, <3>3
  <2>2. /\ InOrder(commands) /\ Before(heard, BytesIn(commands))
        /\ Before(heard, BytesIn(chunks')) /\ Before(BytesIn(commands), BytesIn(chunks'))
    BY <1>4, <1>5 DEF IInv, Kept, Before
  <2>3. \A A : Before(A, {})
    BY DEF Before
  <2> QED
    BY <1>1, <1>2, <1>3, <1>5, <2>1, <2>2, <2>3 DEF Kept
<1>11. Reads'
  BY <1>1 DEF Reads
<1>12. Lines'
  BY <1>1 DEF IInv, Lines
<1> QED
  BY <1>7, <1>8, <1>9, <1>10, <1>11, <1>12 DEF IInv

-----------------------------------------------------------------------------
(* The I/O thread                                                           *)

\* Events of the transport are behind all that was pulled.
LEMMA WaitingGrows ==
    ASSUME Typed, transport # None, transport' # None, pending' = pending,
           NEW ev \in Seq(EventType), transport'.events = transport.events \o ev
    PROVE  /\ Waiting' = Waiting \o ev
           /\ Waiting' \in Seq(EventType) /\ Range(Waiting') = Range(Waiting) \cup Range(ev)
           /\ BytesIn(Waiting') = BytesIn(Waiting) \cup BytesIn(ev)
           /\ InOrder(Waiting') <=> /\ InOrder(Waiting) /\ InOrder(ev)
                                    /\ Before(BytesIn(Waiting), BytesIn(ev))
           /\ \A x, y, z :
                 (Ends(x, Waiting, y) /\ Follows(x, Waiting) /\ Follows(y, ev) /\ Ends(y, ev, z))
                    => Follows(x, Waiting') /\ Ends(x, Waiting', z)
<1> DEFINE p == pending
           t == transport.events
           w == Waiting
<1>1. /\ p \in Seq(EventType) /\ t \in Seq(EventType) /\ w = p \o t /\ w \in Seq(EventType)
  <2>1. EventsOf(transport) = transport.events
    BY DEF EventsOf
  <2> QED
    BY <2>1, WaitingParts DEF Typed, Waiting
<1>2. Waiting' = p \o (t \o ev)
  BY DEF Waiting, EventsOf
<1> HIDE DEF p, t, w
<1>3. (p \o t) \o ev = p \o (t \o ev)
  BY <1>1, ConcatAssociative
<1>4. Waiting' = w \o ev
  BY <1>1, <1>2, <1>3
<1>5. /\ w \o ev \in Seq(EventType) /\ Range(w \o ev) = Range(w) \cup Range(ev)
      /\ BytesIn(w \o ev) = BytesIn(w) \cup BytesIn(ev)
      /\ InOrder(w \o ev) <=> InOrder(w) /\ InOrder(ev) /\ Before(BytesIn(w), BytesIn(ev))
  <2>1. w \in Seq(EventType)
    BY <1>1
  <2> QED
    BY ONLY <2>1, ev \in Seq(EventType), ConcatBytes
<1>6. ASSUME NEW x, NEW y, NEW z,
             Ends(x, w, y), Follows(x, w), Follows(y, ev), Ends(y, ev, z)
      PROVE  Follows(x, w \o ev) /\ Ends(x, w \o ev, z)
  BY <1>1, <1>6, ConcatFollows
<1>7. w = Waiting
  BY DEF w
<1> QED
  BY <1>4, <1>5, <1>6, <1>7

\* Whatever the I/O thread adds to the events of its transport: what has to hold of the new events
\* so that everything else stays.
LEMMA ThreadKeeps ==
    ASSUME IInv, transport # None, transport' # None, transport' \in TransportType,
           NEW ev \in Seq(EventType), transport'.events = transport.events \o ev,
           UNCHANGED <<active, pending, chunks, commands, heardConn, told, heard, lost>>,
           made' \in 0 .. MaxConns, origin' \in Seq(Conns \cup {None}),
           Len(origin) <= Len(origin'), \A k \in 1 .. Len(origin) : origin'[k] = origin[k],
           received' = received \cup BytesIn(ev), BytesIn(ev) \subseteq 1 .. Len(origin'),
           Before(received, BytesIn(ev)), InOrder(ev),
           \A e \in Range(ev) : /\ Sound(e) /\ (e.op = "bytes" => e.ready)
                                /\ \A b \in e.bytes : origin'[b] = e.conn,
           Follows(transport.conn, ev), Ends(transport.conn, ev, transport'.conn)
    PROVE  Typed' /\ Shape' /\ Own' /\ Kept' /\ Lines'
<1>0. Typed /\ Len(origin) \in Nat /\ Len(origin') \in Nat
  BY LenProperties DEF IInv, Typed
<1>2. /\ Waiting' = Waiting \o ev
      /\ Waiting' \in Seq(EventType) /\ Range(Waiting') = Range(Waiting) \cup Range(ev)
      /\ BytesIn(Waiting') = BytesIn(Waiting) \cup BytesIn(ev)
      /\ InOrder(Waiting') <=> /\ InOrder(Waiting) /\ InOrder(ev)
                               /\ Before(BytesIn(Waiting), BytesIn(ev))
      /\ \A x, y, z :
            (Ends(x, Waiting, y) /\ Follows(x, Waiting) /\ Follows(y, ev) /\ Ends(y, ev, z))
               => Follows(x, Waiting') /\ Ends(x, Waiting', z)
  BY <1>0, WaitingGrows
<1>3. /\ received \subseteq 1 .. Len(origin)
      /\ \A S \in {heard, BytesIn(commands), BytesIn(chunks), BytesIn(Waiting)} :
            S \subseteq received
  BY BytesApart DEF IInv
<1>4. Typed'
  <2>1. received' \subseteq 1 .. Len(origin')
    <3>1. 1 .. Len(origin) \subseteq 1 .. Len(origin')
      BY <1>0
    <3> QED
      BY <1>3, <3>1
  <2> QED
    BY <2>1 DEF IInv, Typed
<1>5. Shape'
  BY <1>2 DEF IInv, Shape
<1>6. Own'
  <2>1. ASSUME NEW e \in Range(Waiting) \cup Range(chunks) \cup Range(commands), NEW b \in e.bytes
        PROVE  origin'[b] = e.conn
    <3>1. b \in BytesIn(Waiting) \cup BytesIn(chunks) \cup BytesIn(commands)
      BY <2>1 DEF Range, BytesIn
    <3>2. b \in 1 .. Len(origin)
      BY <1>3, <3>1
    <3> QED
      BY <3>2, <2>1 DEF IInv, Own
  <2> QED
    BY <1>2, <2>1 DEF Own
<1>7. Kept'
  <2>1. /\ received \ lost = heard \cup BytesIn(commands) \cup BytesIn(chunks) \cup BytesIn(Waiting)
        /\ InOrder(commands) /\ InOrder(chunks) /\ InOrder(Waiting)
        /\ Before(heard, BytesIn(commands)) /\ Before(heard, BytesIn(chunks))
        /\ Before(heard, BytesIn(Waiting))
        /\ Before(BytesIn(commands), BytesIn(chunks)) /\ Before(BytesIn(commands), BytesIn(Waiting))
        /\ Before(BytesIn(chunks), BytesIn(Waiting))
    BY DEF IInv, Kept
  <2>2. lost \subseteq received
    BY DEF IInv, Typed
  <2>3. BytesIn(ev) \cap lost = {}
    <3> SUFFICES ASSUME NEW x \in BytesIn(ev), x \in lost PROVE FALSE
      OBVIOUS
    <3>1. x < x /\ x \in Nat
      BY <1>3, <2>2 DEF Before
    <3> QED
      BY <3>1
  <2>4. received' \ lost' = heard \cup BytesIn(commands) \cup BytesIn(chunks) \cup BytesIn(Waiting')
    BY <1>2, <2>1, <2>3
  <2>5. \A S \in {heard, BytesIn(commands), BytesIn(chunks), BytesIn(Waiting)} :
           Before(S, BytesIn(ev))
    BY <1>3 DEF Before
  <2>6. \A S, T, U : Before(S, T) /\ Before(S, U) => Before(S, T \cup U)
    BY DEF Before
  <2>7. /\ InOrder(Waiting') /\ Before(heard, BytesIn(Waiting'))
        /\ Before(BytesIn(commands), BytesIn(Waiting'))
        /\ Before(BytesIn(chunks), BytesIn(Waiting'))
    BY <1>2, <2>1, <2>5, <2>6
  <2> QED
    BY <2>1, <2>4, <2>7 DEF Kept
<1>8. Lines'
  <2>1. /\ heardConn \in {None, told} /\ Follows(told, commands)
        /\ active # None => Ends(told, commands, active)
        /\ Follows(active, Waiting) /\ Ends(active, Waiting, transport.conn)
    BY DEF IInv, Lines
  <2>2. Follows(active, Waiting') /\ Ends(active, Waiting', transport'.conn)
    BY <1>2, <2>1
  <2> QED
    BY <2>1, <2>2 DEF Lines
<1> QED
  BY <1>4, <1>5, <1>6, <1>7, <1>8

\* The same when there are only reports among the new events.
LEMMA ReportsKeep ==
    ASSUME IInv, transport # None, transport' # None, transport' \in TransportType,
           NEW ev \in Seq(EventType), transport'.events = transport.events \o ev,
           UNCHANGED <<active, pending, chunks, commands, heardConn, told, heard, lost>>,
           UNCHANGED <<origin, received>>, made' \in 0 .. MaxConns,
           \A e \in Range(ev) : Sound(e) /\ e.op # "bytes", InOrder(ev),
           Follows(transport.conn, ev), Ends(transport.conn, ev, transport'.conn)
    PROVE  Typed' /\ Shape' /\ Own' /\ Kept' /\ Lines'
<1>1. \A e \in Range(ev) : e.bytes = {}
  BY DEF Sound
<1>2. BytesIn(ev) = {}
  <2>1. BytesIn(ev) = UNION {e.bytes : e \in Range(ev)}
    BY BytesOfRange
  <2> QED
    BY <1>1, <2>1
<1>3. Before(received, {})
  BY DEF Before
<1>4. /\ origin' \in Seq(Conns \cup {None}) /\ Len(origin) <= Len(origin')
      /\ \A k \in 1 .. Len(origin) : origin'[k] = origin[k]
  BY LenProperties DEF IInv, Typed
<1>5. \A e \in Range(ev) : /\ Sound(e) /\ (e.op = "bytes" => e.ready)
                           /\ \A b \in e.bytes : origin'[b] = e.conn
  BY <1>1
<1>6. /\ received' = received \cup BytesIn(ev) /\ BytesIn(ev) \subseteq 1 .. Len(origin')
      /\ Before(received, BytesIn(ev))
  BY <1>2, <1>3
<1> QED
  BY <1>4, <1>5, <1>6, ThreadKeeps

\* The I/O thread adds nothing.
LEMMA QuietKeeps ==
    ASSUME IInv, transport # None, transport' # None, transport' \in TransportType,
           transport'.events = transport.events, transport'.conn = transport.conn,
           UNCHANGED <<made, active, pending, chunks, commands, heardConn, told, heard, lost>>,
           origin' \in Seq(Conns \cup {None}), Len(origin) <= Len(origin'),
           \A k \in 1 .. Len(origin) : origin'[k] = origin[k], UNCHANGED received
    PROVE  Typed' /\ Shape' /\ Own' /\ Kept' /\ Lines'
<1> DEFINE ev == <<>>
<1>1. /\ ev \in Seq(EventType) /\ Range(ev) = {} /\ BytesIn(ev) = {} /\ InOrder(ev)
  BY NoBytes
<1>2. /\ Follows(transport.conn, ev) /\ Ends(transport.conn, ev, transport'.conn)
  BY NoneFollows
<1>3. transport'.events = transport.events \o ev
  <2>1. transport.events \in Seq(EventType)
    BY DEF IInv, Typed, TransportType
  <2> QED
    BY <2>1, ConcatEmptySeq
<1>4. Before(received, {})
  BY DEF Before
<1> HIDE DEF ev
<1>5. /\ received' = received \cup BytesIn(ev) /\ BytesIn(ev) \subseteq 1 .. Len(origin')
      /\ Before(received, BytesIn(ev))
  BY <1>1, <1>4
<1>6. \A e \in Range(ev) : /\ Sound(e) /\ (e.op = "bytes" => e.ready)
                           /\ \A b \in e.bytes : origin'[b] = e.conn
  BY <1>1
<1>7. made' \in 0 .. MaxConns
  BY DEF IInv, Typed
<1> QED
  BY <1>1, <1>2, <1>3, <1>5, <1>6, <1>7, ThreadKeeps

\* One report behind all events.
LEMMA OneReport ==
    ASSUME NEW op \in {"open", "close", "error"}, NEW c \in Conns \cup {Listen},
           op = "close" => c \in Conns
    PROVE  LET e == Report(op, c)
           IN  /\ e \in EventType /\ e.op = op /\ e.conn = c /\ e.bytes = {}
               /\ e.ready = (c # Listen) /\ Sound(e)
<1> DEFINE e == Report(op, c)
<1>1. e = [op |-> op, conn |-> c, ready |-> c # Listen, bytes |-> {}]
  BY DEF Report, Event
<1>2. (c # Listen) \in BOOLEAN
  OBVIOUS
<1>3. /\ e \in EventType /\ e.op = op /\ e.conn = c /\ e.bytes = {} /\ e.ready = (c # Listen)
  BY <1>1, <1>2 DEF EventType
<1>4. Sound(e)
  <2>1. c # Listen => c \in Conns
    OBVIOUS
  <2>2. Listen \notin Conns
    BY ConnectionAssumption DEF Conns, Listen
  <2> HIDE DEF e
  <2> QED
    BY <1>3, <2>1, <2>2 DEF Sound
<1> QED
  BY <1>3, <1>4

\* The parts of the transport.
LEMMA TransportParts ==
    ASSUME Typed, transport # None
    PROVE  /\ transport \in TransportType
           /\ transport.conn \in Conns \cup {None} /\ transport.generation \in Nat \ {0}
           /\ transport.done \in Seq(ReadType) /\ transport.read \in Nat
           /\ transport.events \in Seq(EventType) /\ transport.posted \in Int
BY DEF Typed, TransportType

\* Posting a write changes nothing that is on its way.
LEMMA SendKeeps ==
    ASSUME IInv, Send
    PROVE  IInv'
<1>1. /\ transport # None /\ transport' = [transport EXCEPT !.posted = @ + 1]
      /\ UNCHANGED <<made, active, pending, chunks, commands, heardConn, told, heard, lost>>
      /\ UNCHANGED <<origin, received>>
  BY DEF Send, appVars, workerVars
<1>2. transport \in TransportType
  BY <1>1 DEF IInv, Typed
<1>3. /\ transport' \in TransportType /\ transport'.events = transport.events
      /\ transport'.conn = transport.conn /\ transport'.done = transport.done
      /\ transport'.read = transport.read /\ transport'.generation = transport.generation
      /\ transport'.kind = transport.kind
  <2>1. PICK n \in Int : n = transport.posted + 1
    BY <1>2 DEF TransportType
  <2>2. transport' = [transport EXCEPT !.posted = n]
    BY <1>1, <2>1
  <2> QED
    BY <1>2, <2>2 DEF TransportType
<1>4. transport' # None
  BY <1>3, NoneAssumption
<1>5. Typed' /\ Shape' /\ Own' /\ Kept' /\ Lines'
  <2>1. /\ origin' \in Seq(Conns \cup {None}) /\ Len(origin) <= Len(origin')
        /\ \A k \in 1 .. Len(origin) : origin'[k] = origin[k]
    BY <1>1, LenProperties DEF IInv, Typed
  <2> QED
    BY <1>1, <1>3, <1>4, <2>1, QuietKeeps
<1>6. Reads'
  BY <1>1, <1>3, <1>4 DEF IInv, Reads
<1> QED
  BY <1>5, <1>6 DEF IInv

\* A write is executed: an error of the connection there is now.
LEMMA WriteKeeps ==
    ASSUME IInv, NEW ok \in BOOLEAN, Write(ok)
    PROVE  IInv'
<1> DEFINE t == [transport EXCEPT !.posted = @ - 1]
           own == IF t.conn = None THEN <<>> ELSE <<Report("error", t.conn)>>
           ev == IF ok THEN <<>> ELSE own
<1>1. /\ transport # None
      /\ transport' = IF ok THEN t ELSE [Emit(t, own) EXCEPT !.state = "error"]
      /\ UNCHANGED <<made, active, pending, chunks, commands, heardConn, told, heard, lost>>
      /\ UNCHANGED <<origin, received>>
  BY DEF Write, ioUnchanged, appVars, workerVars
<1>2. /\ transport \in TransportType /\ transport.conn \in Conns \cup {None}
      /\ transport.events \in Seq(EventType) /\ transport.posted \in Int
  BY <1>1, TransportParts DEF IInv
<1>3. t.conn = transport.conn /\ t \in TransportType /\ t.events = transport.events
  BY <1>2 DEF TransportType
<1>4. /\ ev \in Seq(EventType) /\ InOrder(ev)
      /\ \A e \in Range(ev) : Sound(e) /\ e.op # "bytes"
      /\ Follows(transport.conn, ev) /\ Ends(transport.conn, ev, transport.conn)
  <2>1. CASE ok \/ transport.conn = None
    <3>1. ev = <<>>
      BY <1>3, <2>1
    <3> QED
      BY <3>1, NoBytes, NoneFollows
  <2>2. CASE ~ok /\ transport.conn # None
    <3>1. PICK e : e = Report("error", transport.conn)
      OBVIOUS
    <3>2. ev = <<e>>
      BY <1>3, <2>2, <3>1
    <3>3. /\ e \in EventType /\ e.op = "error" /\ Sound(e)
      BY <1>2, <2>2, <3>1, OneReport
    <3>4. ~Mark(e) /\ ~Bound(e)
      BY <3>3 DEF Mark, Bound
    <3>5. Follows(transport.conn, <<e>>) /\ Ends(transport.conn, <<e>>, transport.conn)
      BY <3>4, OneFollows DEF Next1
    <3>6. <<e>> \in Seq(EventType) /\ Range(<<e>>) = {e} /\ InOrder(<<e>>)
      BY <3>3, OneBytes
    <3> QED
      BY <3>2, <3>3, <3>5, <3>6
  <2> QED
    BY <2>1, <2>2
<1>5. ev = IF ok THEN <<>> ELSE own
  OBVIOUS
<1> HIDE DEF ev
<1>6. /\ transport' \in TransportType /\ transport'.events = transport.events \o ev
      /\ transport'.conn = transport.conn /\ transport'.done = transport.done
      /\ transport'.read = transport.read /\ transport'.generation = transport.generation
      /\ transport'.kind = transport.kind
  <2>1. CASE ok
    <3>1. transport' = t /\ ev = <<>>
      BY <1>1, <1>5, <2>1
    <3>2. transport.events \o <<>> = transport.events
      BY <1>2, ConcatEmptySeq
    <3> QED
      BY <1>2, <1>3, <3>1, <3>2 DEF TransportType
  <2>2. CASE ~ok
    <3> HIDE DEF own
    <3>1. transport' = [[t EXCEPT !.events = @ \o own] EXCEPT !.state = "error"] /\ ev = own
      BY <1>1, <1>5, <2>2 DEF Emit
    <3>2. transport.events \o own \in Seq(EventType)
      BY <1>2, <1>4, <3>1, ConcatProperties
    <3> QED
      BY <1>2, <1>3, <3>1, <3>2 DEF TransportType
  <2> QED
    BY <2>1, <2>2
<1>7. transport' # None
  BY <1>6, NoneAssumption
<1>8. Typed' /\ Shape' /\ Own' /\ Kept' /\ Lines'
  <2>1. made' \in 0 .. MaxConns
    BY <1>1 DEF IInv, Typed
  <2> HIDE DEF t, own
  <2> QED
    BY <1>1, <1>4, <1>6, <1>7, <2>1, ReportsKeep
<1>9. Reads'
  <2> HIDE DEF t, own
  <2> QED
    BY <1>1, <1>6, <1>7 DEF IInv, Reads
<1> QED
  BY <1>8, <1>9 DEF IInv

\* What a client that is accepted adds: the end of the connection there was, and its own opening.
LEMMA AcceptReports ==
    ASSUME Typed, transport # None, NEW c \in Conns,
           NEW ev, ev = IF transport.conn = None THEN <<Report("open", c)>>
                        ELSE TakeOver(transport.conn, c)
    PROVE  /\ ev \in Seq(EventType) /\ InOrder(ev)
           /\ \A e \in Range(ev) : Sound(e) /\ e.op # "bytes"
           /\ Follows(transport.conn, ev) /\ Ends(transport.conn, ev, c)
<1>1. PICK b : b = Report("open", c)
  OBVIOUS
<1>2. c # Listen /\ c \in Conns \cup {Listen}
  BY ConnectionAssumption DEF Conns, Listen
<1>3. b \in EventType /\ b.op = "open" /\ b.conn = c /\ b.bytes = {} /\ b.ready /\ Sound(b)
  BY <1>1, <1>2, OneReport
<1>4. Mark(b) /\ ~Bound(b) /\ \A x : Next1(x, b) = c
  BY <1>3 DEF Mark, Bound, Next1, After
<1>5. /\ <<b>> \in Seq(EventType) /\ Range(<<b>>) = {b} /\ InOrder(<<b>>) /\ BytesIn(<<b>>) = {}
  BY <1>3, OneBytes
<1>6. \A x : Follows(x, <<b>>) /\ Ends(x, <<b>>, c)
  BY <1>4, OneFollows
<1>7. CASE transport.conn = None
  <2>1. ev = <<b>>
    BY <1>1, <1>7
  <2> QED
    BY <1>3, <1>5, <1>6, <2>1
<1>8. CASE transport.conn # None
  <2>1. PICK a : a = Report("close", transport.conn)
    OBVIOUS
  <2>2. transport.conn \in Conns /\ transport.conn # Listen
    BY <1>8, TransportParts, ConnectionAssumption DEF Conns, Listen
  <2>3. /\ a \in EventType /\ a.op = "close" /\ a.conn = transport.conn /\ a.bytes = {}
        /\ a.ready /\ Sound(a)
    BY <2>1, <2>2, OneReport
  <2>4. /\ <<a>> \in Seq(EventType) /\ Range(<<a>>) = {a} /\ InOrder(<<a>>) /\ BytesIn(<<a>>) = {}
    BY <2>3, OneBytes
  <2>5. PICK x : x = Next1(transport.conn, a)
    OBVIOUS
  <2>6. Follows(transport.conn, <<a>>) /\ Ends(transport.conn, <<a>>, x)
    BY <2>3, <2>5, OneFollows
  <2>7. ev = <<a>> \o <<b>>
    BY <1>1, <1>8, <2>1 DEF TakeOver
  <2>8. PICK p, q : p = <<a>> /\ q = <<b>>
    OBVIOUS
  <2>9. /\ p \in Seq(EventType) /\ Range(p) = {a} /\ InOrder(p) /\ BytesIn(p) = {}
        /\ q \in Seq(EventType) /\ Range(q) = {b} /\ InOrder(q) /\ BytesIn(q) = {}
        /\ Follows(transport.conn, p) /\ Ends(transport.conn, p, x)
        /\ Follows(x, q) /\ Ends(x, q, c) /\ ev = p \o q
    BY <1>5, <1>6, <2>4, <2>6, <2>7, <2>8
  <2>10. /\ p \o q \in Seq(EventType) /\ Range(p \o q) = {a} \cup {b}
         /\ InOrder(p \o q) <=> Before({}, {})
    <3>1. p \in Seq(EventType) /\ q \in Seq(EventType)
      BY <2>9
    <3>2. /\ p \o q \in Seq(EventType) /\ Range(p \o q) = Range(p) \cup Range(q)
          /\ InOrder(p \o q) <=> InOrder(p) /\ InOrder(q) /\ Before(BytesIn(p), BytesIn(q))
      BY ONLY <3>1, ConcatBytes
    <3> QED
      BY <2>9, <3>2
  <2>11. Follows(transport.conn, p \o q) /\ Ends(transport.conn, p \o q, c)
    BY <2>9, ConcatFollows
  <2> QED
    BY <1>3, <2>3, <2>9, <2>10, <2>11 DEF Before
<1> QED
  BY <1>7, <1>8

\* A client is accepted or rejected: the reads of the client before are of an old generation.
LEMMA AcceptKeeps ==
    ASSUME IInv, NEW reject \in BOOLEAN, Accept(reject)
    PROVE  IInv'
<1>1. /\ transport # None /\ transport.kind = "server"
      /\ UNCHANGED <<active, pending, chunks, commands, heardConn, told, heard, lost>>
      /\ UNCHANGED <<origin, received>>
  BY DEF Accept, appVars, workerVars
<1>2. /\ transport \in TransportType /\ transport.conn \in Conns \cup {None}
      /\ transport.events \in Seq(EventType) /\ transport.done \in Seq(ReadType)
      /\ transport.generation \in Nat \ {0} /\ transport.read \in Nat
      /\ made \in 0 .. MaxConns
  BY <1>1, TransportParts DEF IInv, Typed
<1>3. CASE transport.conn # None /\ reject
  <2>1. PICK e : e = Report("error", Listen)
    OBVIOUS
  <2>2. transport' = Emit(transport, <<e>>) /\ made' = made
    BY <1>3, <2>1 DEF Accept
  <2>3. e \in EventType /\ e.op = "error" /\ ~e.ready /\ Sound(e)
    BY <2>1, OneReport
  <2>4. /\ <<e>> \in Seq(EventType) /\ Range(<<e>>) = {e} /\ InOrder(<<e>>)
    BY <2>3, OneBytes
  <2>5. Follows(transport.conn, <<e>>) /\ Ends(transport.conn, <<e>>, transport.conn)
    BY <2>3, OneFollows DEF Mark, Bound, Next1
  <2>6. PICK ev : ev = <<e>>
    OBVIOUS
  <2>7. transport.events \o ev \in Seq(EventType)
    BY <1>2, <2>4, <2>6, ConcatProperties
  <2>8. transport' = [transport EXCEPT !.events = @ \o ev]
    BY <2>2, <2>6 DEF Emit
  <2>9. /\ transport' \in TransportType /\ transport'.events = transport.events \o ev
        /\ transport'.conn = transport.conn /\ transport'.done = transport.done
        /\ transport'.read = transport.read /\ transport'.generation = transport.generation
        /\ transport'.kind = transport.kind
    BY <1>2, <2>7, <2>8 DEF TransportType
  <2>10. transport' # None
    BY <2>9, NoneAssumption
  <2>11. Typed' /\ Shape' /\ Own' /\ Kept' /\ Lines'
    BY <1>1, <1>2, <2>2, <2>3, <2>4, <2>5, <2>6, <2>9, <2>10, ReportsKeep
  <2>12. Reads'
    BY <1>1, <2>9, <2>10 DEF IInv, Reads
  <2> QED
    BY <2>11, <2>12 DEF IInv
<1>4. CASE ~(transport.conn # None /\ reject)
  <2> DEFINE c == made + 1
             aborted == IF transport.read = 0 THEN <<>>
                        ELSE <<[generation |-> transport.read, bytes |-> {}]>>
             generation == transport.generation + 1
  <2>1. PICK ev : ev = IF transport.conn = None THEN <<Report("open", c)>>
                       ELSE TakeOver(transport.conn, c)
    OBVIOUS
  <2>2. /\ made < MaxConns /\ made' = c
        /\ transport' = [Emit(transport, ev)
                            EXCEPT !.conn = c, !.generation = generation, !.read = generation,
                                   !.done = @ \o aborted]
    BY <1>4, <2>1 DEF Accept
  <2>3. c \in Conns /\ made' \in 0 .. MaxConns
    BY <1>2, <2>2, ConnectionAssumption DEF Conns
  <2> HIDE DEF c
  <2>4. /\ ev \in Seq(EventType) /\ InOrder(ev)
        /\ \A e \in Range(ev) : Sound(e) /\ e.op # "bytes"
        /\ Follows(transport.conn, ev) /\ Ends(transport.conn, ev, c)
    BY <1>1, <2>1, <2>3, AcceptReports DEF IInv
  <2>5. transport.events \o ev \in Seq(EventType)
    BY <1>2, <2>4, ConcatProperties
  <2>6. /\ aborted \in Seq(ReadType) /\ BytesIn(aborted) = {} /\ InOrder(aborted)
        /\ \A r \in Range(aborted) : r.generation = transport.read /\ r.bytes = {}
                                     /\ transport.read # 0
    <3>1. CASE transport.read = 0
      BY <3>1, NoBytes
    <3>2. CASE transport.read # 0
      <4>1. PICK r : r = [generation |-> transport.read, bytes |-> {}]
        OBVIOUS
      <4>2. r \in ReadType /\ r.bytes = {} /\ r.generation = transport.read
        BY <1>2, <4>1 DEF ReadType
      <4>3. <<r>> \in Seq(ReadType) /\ Range(<<r>>) = {r} /\ BytesIn(<<r>>) = {} /\ InOrder(<<r>>)
        BY <4>2, OneBytes
      <4> QED
        BY <3>2, <4>1, <4>2, <4>3
    <3> QED
      BY <3>1, <3>2
  <2> HIDE DEF aborted
  <2>7. PICK done : done = transport.done \o aborted
    OBVIOUS
  <2>8. /\ done \in Seq(ReadType) /\ Range(done) = Range(transport.done) \cup Range(aborted)
        /\ BytesIn(done) = BytesIn(transport.done)
        /\ InOrder(done) <=> InOrder(transport.done)
    <3>1. Before(BytesIn(transport.done), {})
      BY DEF Before
    <3>2. /\ done \in Seq(ReadType) /\ Range(done) = Range(transport.done) \cup Range(aborted)
          /\ BytesIn(done) = BytesIn(transport.done) \cup BytesIn(aborted)
          /\ InOrder(done) <=> /\ InOrder(transport.done) /\ InOrder(aborted)
                               /\ Before(BytesIn(transport.done), BytesIn(aborted))
      <4>1. transport.done \in Seq(ReadType) /\ aborted \in Seq(ReadType)
        BY <1>2, <2>6
      <4> QED
        BY ONLY <2>7, <4>1, ConcatBytes
    <3> QED
      BY <2>6, <3>1, <3>2
  <2>9. /\ transport' \in TransportType /\ transport'.events = transport.events \o ev
        /\ transport'.conn = c /\ transport'.done = done
        /\ transport'.read = generation /\ transport'.generation = generation
        /\ transport'.kind = "server"
    <3>1. transport' = [[transport EXCEPT !.events = @ \o ev]
                           EXCEPT !.conn = c, !.generation = generation, !.read = generation,
                                  !.done = @ \o aborted]
      BY <2>2 DEF Emit
    <3>2. generation \in Nat \ {0} /\ generation \in Nat
      BY <1>2
    <3> HIDE DEF generation
    <3> QED
      BY <1>1, <1>2, <2>3, <2>5, <2>7, <2>8, <3>1, <3>2 DEF TransportType
  <2>10. transport' # None
    BY <2>9, NoneAssumption
  <2>11. Typed' /\ Shape' /\ Own' /\ Kept' /\ Lines'
    BY <1>1, <2>3, <2>4, <2>9, <2>10, ReportsKeep
  <2>12. Reads'
    <3>1. /\ InOrder(transport.done) /\ Before(received, BytesIn(transport.done))
          /\ BytesIn(transport.done) \subseteq 1 .. Len(origin)
          /\ transport.read \in {0, transport.generation}
          /\ \A r \in Range(transport.done) : r.generation <= transport.generation
      BY <1>1 DEF IInv, Reads
    <3>2. \A r \in Range(done) : r.generation <= transport.generation /\ r.generation \in Nat
      <4>1. \A r \in Range(done) : r.generation \in Nat
        <5>0. done \in Seq(ReadType)
          BY <2>8
        <5>1. \A r \in Range(done) : r \in ReadType
          BY ONLY <5>0, RangeIn
        <5> QED
          BY <5>1 DEF ReadType
      <4> QED
        BY <1>2, <2>6, <2>8, <3>1, <4>1
    <3>3. \A r \in Range(done) : r.generation <= generation /\ r.generation # generation
      BY <1>2, <3>2
    <3> HIDE DEF generation
    <3> QED
      BY <1>1, <2>8, <2>9, <3>1, <3>3 DEF Reads
  <2> QED
    BY <2>11, <2>12 DEF IInv
<1> QED
  BY <1>3, <1>4

\* Bytes arrive, and the read that was outstanding holds them.
LEMMA ArriveKeeps ==
    ASSUME IInv, NEW count \in 0 .. ReadSize, Arrive(count)
    PROVE  IInv'
<1> DEFINE n == Len(origin)
           read == [generation |-> transport.read, bytes |-> (n + 1) .. (n + count)]
           more == [k \in 1 .. count |-> transport.conn]
<1>1. /\ transport # None /\ transport.read # 0
      /\ transport' = [transport EXCEPT !.read = 0, !.done = Append(@, read)]
      /\ origin' = origin \o more
      /\ UNCHANGED <<made, active, pending, chunks, commands, heardConn, told, heard, lost>>
      /\ UNCHANGED received
  BY DEF Arrive, ioUnchanged, appVars, workerVars
<1>2. /\ transport \in TransportType /\ transport.conn \in Conns \cup {None}
      /\ transport.done \in Seq(ReadType) /\ transport.read \in Nat
      /\ origin \in Seq(Conns \cup {None}) /\ n \in Nat /\ count \in Nat
  BY <1>1, TransportParts, LenProperties DEF IInv, Typed
\* The history.
<1>3. more \in Seq(Conns \cup {None}) /\ Len(more) = count
  <2>1. more \in [1 .. count -> Conns \cup {None}]
    BY <1>2
  <2>2. more \in Seq(Conns \cup {None})
    BY <1>2, <2>1, SeqDef
  <2>3. DOMAIN more = 1 .. count
    OBVIOUS
  <2> HIDE DEF more
  <2> QED
    BY <1>2, <2>2, <2>3, LenProperties
<1>4. \A k \in 1 .. count : more[k] = transport.conn
  OBVIOUS
<1> HIDE DEF more
<1>5. /\ origin' \in Seq(Conns \cup {None}) /\ Len(origin') = n + count
      /\ \A k \in 1 .. n : origin'[k] = origin[k]
      /\ \A k \in 1 .. count : origin'[n + k] = transport.conn
  <2>1. /\ origin \o more \in Seq(Conns \cup {None}) /\ Len(origin \o more) = n + count
    BY <1>2, <1>3, ConcatProperties
  <2>2. /\ \A k \in 1 .. n : (origin \o more)[k] = origin[k]
        /\ \A k \in 1 .. count : (origin \o more)[n + k] = more[k]
    BY <1>2, <1>3, ConcatAt
  <2> QED
    BY <1>1, <1>4, <2>1, <2>2
<1>6. \A b \in read.bytes : origin'[b] = transport.conn
  <2> SUFFICES ASSUME NEW b \in (n + 1) .. (n + count) PROVE origin'[b] = transport.conn
    OBVIOUS
  <2> HIDE DEF n
  <2>1. b - n \in 1 .. count /\ b = n + (b - n)
    BY <1>2
  <2> QED
    BY <1>5, <2>1
\* The read.
<1>7. /\ read \in ReadType /\ read.generation = transport.read
      /\ read.bytes = (n + 1) .. (n + count)
  <2>1. (n + 1) .. (n + count) \in SUBSET Nat
    BY <1>2
  <2> QED
    BY <1>2, <2>1 DEF ReadType
<1> HIDE DEF read
<1>8. /\ Append(transport.done, read) \in Seq(ReadType)
      /\ Range(Append(transport.done, read)) = Range(transport.done) \cup {read}
      /\ BytesIn(Append(transport.done, read)) = BytesIn(transport.done) \cup read.bytes
      /\ InOrder(Append(transport.done, read)) <=>
            InOrder(transport.done) /\ Before(BytesIn(transport.done), read.bytes)
  <2>1. PICK q, r : q = transport.done /\ r = read
    OBVIOUS
  <2>2. q \in Seq(ReadType) /\ r \in ReadType
    BY <1>2, <1>7, <2>1
  <2>3. /\ Append(q, r) \in Seq(ReadType)
        /\ \A x : x \in Range(Append(q, r)) <=> x \in Range(q) \/ x = r
        /\ \A x : x \in BytesIn(Append(q, r)) <=> x \in BytesIn(q) \/ x \in r.bytes
        /\ InOrder(Append(q, r)) <=> InOrder(q) /\ Before(BytesIn(q), r.bytes)
    BY ONLY <2>2, AppendBytes
  <2> QED
    BY <2>1, <2>3
<1>9. PICK done : done = Append(transport.done, read)
  OBVIOUS
<1>10. /\ transport' \in TransportType /\ transport'.events = transport.events
       /\ transport'.conn = transport.conn /\ transport'.done = done
       /\ transport'.read = 0 /\ transport'.generation = transport.generation
       /\ transport'.kind = transport.kind
  BY <1>1, <1>2, <1>8, <1>9 DEF TransportType
<1>11. transport' # None
  BY <1>10, NoneAssumption
<1>12. Typed' /\ Shape' /\ Own' /\ Kept' /\ Lines'
  <2>1. Len(origin) <= Len(origin')
    BY <1>2, <1>5
  <2> QED
    BY <1>1, <1>5, <1>10, <1>11, <2>1, QuietKeeps
<1>13. Reads'
  <2>1. /\ InOrder(transport.done) /\ Before(received, BytesIn(transport.done))
        /\ BytesIn(transport.done) \subseteq 1 .. n /\ received \subseteq 1 .. n
        /\ transport.read = transport.generation
        /\ \A r \in Range(transport.done) :
              /\ r.generation <= transport.generation
              /\ transport.kind # "server" => r.generation = transport.generation
              /\ transport.conn # None /\ r.generation = transport.generation =>
                    \A b \in r.bytes : origin[b] = transport.conn
    BY <1>1, BytesApart DEF IInv, Reads
  <2> HIDE DEF n
  <2>2. Before(1 .. n, read.bytes)
    BY <1>2, <1>7 DEF Before
  <2>3. InOrder(done) /\ Before(received, BytesIn(done))
    BY <1>8, <1>9, <2>1, <2>2 DEF Before
  <2>4. BytesIn(done) \subseteq 1 .. Len(origin')
    <3>1. 1 .. n \subseteq 1 .. (n + count) /\ read.bytes \subseteq 1 .. (n + count)
      BY <1>2, <1>7
    <3> QED
      BY <1>5, <1>8, <1>9, <2>1, <3>1
  <2>5. ASSUME NEW r \in Range(transport.done)
        PROVE  /\ r.generation <= transport.generation
               /\ transport.kind # "server" => r.generation = transport.generation
               /\ transport.conn # None /\ r.generation = transport.generation =>
                     \A b \in r.bytes : origin'[b] = transport.conn
    <3>1. r.bytes \subseteq BytesIn(transport.done)
      BY DEF Range, BytesIn
    <3> QED
      BY <1>5, <2>1, <3>1
  <2>6. /\ read.generation <= transport.generation
        /\ read.generation = transport.generation
    BY <1>2, <1>7, <2>1
  <2> QED
    BY <1>1, <1>6, <1>8, <1>9, <1>10, <2>3, <2>4, <2>5, <2>6 DEF Reads
<1> QED
  BY <1>12, <1>13 DEF IInv

\* A completed read is handled.
LEMMA ReadDoneKeeps ==
    ASSUME IInv, ReadDone
    PROVE  IInv'
<1>1. /\ transport # None /\ transport.done # <<>>
      /\ UNCHANGED <<made, active, pending, chunks, commands, heardConn, told, heard, lost, origin>>
  BY DEF ReadDone, ioUnchanged, appVars, workerVars
<1>2. /\ transport \in TransportType /\ transport.conn \in Conns \cup {None}
      /\ transport.done \in Seq(ReadType) /\ transport.events \in Seq(EventType)
      /\ transport.generation \in Nat \ {0} /\ transport.read \in Nat
      /\ origin \in Seq(Conns \cup {None}) /\ Len(origin) \in Nat /\ made \in 0 .. MaxConns
  BY <1>1, TransportParts, LenProperties DEF IInv, Typed
<1>3. PICK read, done : read = Head(transport.done) /\ done = Tail(transport.done)
  OBVIOUS
<1>4. /\ read \in ReadType /\ done \in Seq(ReadType)
      /\ Range(transport.done) = {read} \cup Range(done)
      /\ BytesIn(transport.done) = read.bytes \cup BytesIn(done)
      /\ InOrder(transport.done) <=> InOrder(done) /\ Before(read.bytes, BytesIn(done))
  <2>1. transport.done \in Seq(ReadType) /\ transport.done # <<>>
    BY <1>1, <1>2
  <2> QED
    BY ONLY <1>3, <2>1, HeadBytes
<1>5. /\ InOrder(done) /\ Before(read.bytes, BytesIn(done))
      /\ Before(received, read.bytes) /\ Before(received, BytesIn(done))
      /\ read.bytes \subseteq 1 .. Len(origin) /\ BytesIn(done) \subseteq 1 .. Len(origin)
      /\ transport.read \in {0, transport.generation}
      /\ \A r \in {read} \cup Range(done) :
            /\ r.generation <= transport.generation
            /\ transport.kind # "server" => r.generation = transport.generation
            /\ transport.conn # None /\ r.generation = transport.generation =>
                  \A b \in r.bytes : origin[b] = transport.conn
  <2>1. /\ InOrder(transport.done) /\ Before(received, BytesIn(transport.done))
        /\ BytesIn(transport.done) \subseteq 1 .. Len(origin)
        /\ transport.read \in {0, transport.generation}
        /\ \A r \in Range(transport.done) :
              /\ r.generation <= transport.generation
              /\ transport.kind # "server" => r.generation = transport.generation
              /\ transport.conn # None /\ r.generation = transport.generation =>
                    \A b \in r.bytes : origin[b] = transport.conn
    BY <1>1 DEF IInv, Reads
  <2> QED
    BY <1>4, <2>1 DEF Before
<1>6. PICK t : t = [transport EXCEPT !.done = done]
  OBVIOUS
<1>7. /\ t \in TransportType /\ t.conn = transport.conn /\ t.done = done
      /\ t.events = transport.events /\ t.generation = transport.generation
      /\ t.kind = transport.kind /\ t.read = transport.read
  BY <1>2, <1>4, <1>6 DEF TransportType
<1>8. t = [transport EXCEPT !.done = Tail(@)]
  BY <1>3, <1>6
<1>9. CASE ~CurrentRead(transport, read) \/ transport.conn = None
  <2>1. transport' = t /\ received' = received
    BY <1>3, <1>8, <1>9 DEF ReadDone
  <2>2. transport' # None
    BY <1>7, <2>1, NoneAssumption
  <2>3. Typed' /\ Shape' /\ Own' /\ Kept' /\ Lines'
    BY <1>1, <1>2, <1>7, <2>1, <2>2, QuietKeeps
  <2>4. Reads'
    BY <1>1, <1>5, <1>7, <2>1, <2>2 DEF Reads
  <2> QED
    BY <2>3, <2>4 DEF IInv
<1>10. CASE ~(~CurrentRead(transport, read) \/ transport.conn = None) /\ read.bytes # {}
  <2>1. PICK e : e = Event("bytes", transport.conn, read.bytes)
    OBVIOUS
  <2>2. PICK ev : ev = <<e>>
    OBVIOUS
  <2>3. /\ transport' = [Emit(t, ev) EXCEPT !.read = read.generation]
        /\ received' = received \cup read.bytes
    BY <1>3, <1>7, <1>8, <1>10, <2>1, <2>2 DEF ReadDone
  <2>4. transport.conn \in Conns /\ transport.conn # Listen /\ read.bytes \in SUBSET Nat
    BY <1>2, <1>4, <1>10, ConnectionAssumption DEF Conns, Listen, ReadType
  <2>5. /\ e \in EventType /\ e.op = "bytes" /\ e.conn = transport.conn /\ e.ready
        /\ e.bytes = read.bytes /\ Sound(e)
    BY <2>1, <2>4 DEF Event, EventType, Sound
  <2>6. read.generation = transport.generation
    BY <1>5, <1>10 DEF CurrentRead
  <2>7. /\ ev \in Seq(EventType) /\ Range(ev) = {e} /\ BytesIn(ev) = read.bytes /\ InOrder(ev)
    BY <2>2, <2>5, OneBytes
  <2>8. Follows(transport.conn, ev) /\ Ends(transport.conn, ev, transport.conn)
    BY <2>2, <2>5, OneFollows DEF Mark, Next1
  <2>9. transport.events \o ev \in Seq(EventType)
    BY <1>2, <2>7, ConcatProperties
  <2>10. /\ transport' \in TransportType /\ transport'.events = transport.events \o ev
         /\ transport'.conn = transport.conn /\ transport'.done = done
         /\ transport'.read = transport.generation
         /\ transport'.generation = transport.generation /\ transport'.kind = transport.kind
    <3>1. transport' = [[t EXCEPT !.events = @ \o ev] EXCEPT !.read = read.generation]
      BY <2>3 DEF Emit
    <3> QED
      BY <1>2, <1>7, <2>6, <2>9, <3>1 DEF TransportType
  <2>11. transport' # None
    BY <2>10, NoneAssumption
  <2>12. Typed' /\ Shape' /\ Own' /\ Kept' /\ Lines'
    <3>1. /\ BytesIn(ev) \subseteq 1 .. Len(origin') /\ Before(received, BytesIn(ev))
          /\ received' = received \cup BytesIn(ev) /\ made' \in 0 .. MaxConns
          /\ origin' \in Seq(Conns \cup {None}) /\ Len(origin) <= Len(origin')
          /\ \A k \in 1 .. Len(origin) : origin'[k] = origin[k]
      BY <1>1, <1>2, <1>5, <2>3, <2>7
    <3>2. \A f \in Range(ev) : /\ Sound(f) /\ (f.op = "bytes" => f.ready)
                               /\ \A b \in f.bytes : origin'[b] = f.conn
      BY <1>1, <1>5, <1>10, <2>5, <2>6, <2>7
    <3> QED
      BY <1>1, <2>7, <2>8, <2>10, <2>11, <3>1, <3>2, ThreadKeeps
  <2>13. Reads'
    <3>1. Before(received', BytesIn(done))
      BY <1>5, <2>3 DEF Before
    <3> QED
      BY <1>1, <1>5, <2>10, <2>11, <3>1 DEF Reads
  <2> QED
    BY <2>12, <2>13 DEF IInv
<1>11. CASE ~(~CurrentRead(transport, read) \/ transport.conn = None) /\ read.bytes = {}
  <2>1. transport.conn \in Conns /\ transport.conn # Listen
    BY <1>2, <1>11, ConnectionAssumption DEF Conns, Listen
  <2> DEFINE server == transport.kind = "server"
             op == IF server THEN "close" ELSE "error"
             last == IF server THEN None ELSE transport.conn
  <2>2. PICK e : e = Report(op, transport.conn)
    OBVIOUS
  <2>3. PICK ev : ev = <<e>>
    OBVIOUS
  <2>4. /\ transport' = IF server THEN [Emit(t, ev) EXCEPT !.conn = None]
                        ELSE [Emit(t, ev) EXCEPT !.state = "error"]
        /\ received' = received
    BY <1>3, <1>7, <1>8, <1>11, <2>2, <2>3 DEF ReadDone
  <2>5. op \in {"open", "close", "error"} /\ op # "bytes"
    OBVIOUS
  <2>6. /\ e \in EventType /\ e.op = op /\ e.conn = transport.conn /\ e.ready /\ Sound(e)
    BY <2>1, <2>2, <2>5, OneReport
  <2>7. /\ ev \in Seq(EventType) /\ Range(ev) = {e} /\ InOrder(ev)
    BY <2>3, <2>6, OneBytes
  <2>8. Follows(transport.conn, ev) /\ Ends(transport.conn, ev, last)
    <3>1. Next1(transport.conn, e) = last
      BY <2>6 DEF Next1, Mark, After
    <3> QED
      BY <2>3, <2>6, <3>1, OneFollows
  <2>9. transport.events \o ev \in Seq(EventType)
    BY <1>2, <2>7, ConcatProperties
  <2>10. /\ transport' \in TransportType /\ transport'.events = transport.events \o ev
         /\ transport'.conn = last /\ transport'.done = done
         /\ transport'.read = transport.read
         /\ transport'.generation = transport.generation /\ transport'.kind = transport.kind
    <3>1. transport' = IF server THEN [[t EXCEPT !.events = @ \o ev] EXCEPT !.conn = None]
                       ELSE [[t EXCEPT !.events = @ \o ev] EXCEPT !.state = "error"]
      BY <2>4 DEF Emit
    <3> QED
      BY <1>2, <1>7, <2>9, <3>1 DEF TransportType
  <2>11. transport' # None
    BY <2>10, NoneAssumption
  <2>12. Typed' /\ Shape' /\ Own' /\ Kept' /\ Lines'
    <3>1. \A f \in Range(ev) : Sound(f) /\ f.op # "bytes"
      BY <2>5, <2>6, <2>7
    <3>2. made' \in 0 .. MaxConns /\ UNCHANGED <<origin, received>>
      BY <1>1, <1>2, <2>4
    <3> HIDE DEF op, last
    <3> QED
      BY <1>1, <2>7, <2>8, <2>10, <2>11, <3>1, <3>2, ReportsKeep
  <2>13. Reads'
    BY <1>1, <1>5, <2>4, <2>10, <2>11 DEF Reads
  <2> QED
    BY <2>12, <2>13 DEF IInv
<1> QED
  BY <1>9, <1>10, <1>11

-----------------------------------------------------------------------------
(* The application and the worker                                           *)

\* A command behind the others.
LEMMA AppendFollows ==
    ASSUME NEW D, NEW q \in Seq(D), NEW e \in D, NEW x, NEW s, s = Append(q, e)
    PROVE  /\ Follows(x, q) /\ (Bound(e) => Ends(x, q, e.conn)) => Follows(x, s)
           /\ Mark(e) => Ends(x, s, After(e))
           /\ ~Mark(e) => \A y : Ends(x, q, y) => Ends(x, s, y)
<1> DEFINE n == Len(q)
<1>1. /\ n \in Nat /\ DOMAIN q = 1 .. n /\ s \in Seq(D) /\ Len(s) = n + 1
      /\ DOMAIN s = 1 .. (n + 1)
      /\ \A i \in 1 .. n : s[i] = q[i]
      /\ s[n + 1] = e
  BY AppendProperties, LenProperties
<1>2. s = q \o <<e>> /\ <<e>> \in Seq(D)
  BY AppendIsConcat
<1>3. \A c : \A k \in 1 .. (n + 1) : At(x, s, k, c) <=> At(x, q, k, c)
  <2>1. PICK one : one = <<e>>
    OBVIOUS
  <2>2. one \in Seq(D) /\ s = q \o one
    BY <1>2, <2>1
  <2>3. \A c : \A k \in 1 .. (Len(q) + 1) : At(x, q \o one, k, c) <=> At(x, q, k, c)
    <3> TAKE c
    <3> TAKE k \in 1 .. (Len(q) + 1)
    <3> QED
      BY ONLY <2>2, q \in Seq(D), k \in 1 .. (Len(q) + 1), AtFirst
  <2> QED
    BY <2>2, <2>3
<1> HIDE DEF n
<1>4. ASSUME Follows(x, q), Bound(e) => Ends(x, q, e.conn) PROVE Follows(x, s)
  <2> SUFFICES ASSUME NEW k \in 1 .. (n + 1), Bound(s[k]) PROVE At(x, q, k, s[k].conn)
    BY <1>1, <1>3 DEF Follows
  <2>1. CASE k \in 1 .. n
    BY <1>1, <1>4, <2>1 DEF Follows
  <2>2. CASE k = n + 1
    BY <1>1, <1>4, <2>2 DEF Ends, n
  <2> QED
    BY <1>1, <2>1, <2>2
<1>5. ASSUME Mark(e) PROVE Ends(x, s, After(e))
  <2>1. /\ n + 1 \in 1 .. (Len(s) + 1 - 1) /\ Mark(s[n + 1]) /\ After(s[n + 1]) = After(e)
        /\ \A i \in (n + 1 + 1) .. (Len(s) + 1 - 1) : ~Mark(s[i])
    BY <1>1, <1>5
  <2>2. Len(s) + 1 - 1 = (Len(s) + 1) - 1
    BY <1>1
  <2> QED
    BY <2>1, <2>2 DEF Ends, At
<1>6. ASSUME ~Mark(e), NEW y, Ends(x, q, y) PROVE Ends(x, s, y)
  <2>1. At(x, s, n + 1, y)
    <3>1. n + 1 \in 1 .. (n + 1)
      BY <1>1
    <3> QED
      BY <1>3, <1>6, <3>1 DEF Ends, n
  <2>2. At(x, s, (n + 1) + 1, y)
    <3>1. (n + 1) - 1 = n /\ ((n + 1) + 1) - 1 = n + 1
      BY <1>1
    <3>2. \/ x = y /\ \A j \in 1 .. n : ~Mark(s[j])
          \/ \E j \in 1 .. n : Mark(s[j]) /\ After(s[j]) = y /\ \A i \in (j + 1) .. n : ~Mark(s[i])
      BY <2>1, <3>1 DEF At
    <3>3. \A i \in 1 .. (n + 1) : i \in 1 .. n \/ i = n + 1
      BY <1>1
    <3>4. CASE x = y /\ \A j \in 1 .. n : ~Mark(s[j])
      BY <1>1, <1>6, <3>1, <3>3, <3>4 DEF At
    <3>5. ASSUME NEW j \in 1 .. n, Mark(s[j]), After(s[j]) = y, \A i \in (j + 1) .. n : ~Mark(s[i])
          PROVE  At(x, s, (n + 1) + 1, y)
      <4>1. \A i \in (j + 1) .. (n + 1) : i \in (j + 1) .. n \/ i = n + 1
        BY <1>1
      <4>2. \A i \in (j + 1) .. (n + 1) : ~Mark(s[i])
        BY <1>1, <1>6, <3>5, <4>1
      <4>3. j \in 1 .. (n + 1)
        BY <1>1
      <4> QED
        BY <3>1, <3>5, <4>2, <4>3 DEF At
    <3> QED
      BY <3>2, <3>4, <3>5
  <2> QED
    BY <1>1, <2>2 DEF Ends
<1> QED
  BY <1>4, <1>5, <1>6

\* Pulling the events leaves the transport as it was otherwise.
LEMMA PumpParts ==
    ASSUME IInv, Pump
    PROVE  /\ transport' = None <=> transport = None
           /\ transport # None =>
                 /\ transport' \in TransportType /\ transport'.conn = transport.conn
                 /\ transport'.done = transport.done /\ transport'.read = transport.read
                 /\ transport'.generation = transport.generation
                 /\ transport'.kind = transport.kind
           /\ pending' \in Seq(EventType) => Waiting' = pending'
           /\ transport = None => Waiting = <<>>
           /\ Reads'
           /\ UNCHANGED <<made, heardConn, told, heard, origin, received, lost>>
<1>1. /\ transport' = IF transport = None THEN None ELSE [transport EXCEPT !.events = <<>>]
      /\ UNCHANGED <<made, heardConn, told, heard, origin, received, lost>>
  BY DEF Pump
<1>2. ASSUME transport # None
      PROVE  /\ transport' \in TransportType /\ transport'.conn = transport.conn
             /\ transport'.done = transport.done /\ transport'.read = transport.read
             /\ transport'.generation = transport.generation
             /\ transport'.kind = transport.kind /\ transport'.events = <<>> /\ transport' # None
  <2>1. transport \in TransportType
    BY <1>2, TransportParts DEF IInv
  <2>2. <<>> \in Seq(EventType)
    BY EmptySeq
  <2>3. /\ transport' \in TransportType /\ transport'.conn = transport.conn
        /\ transport'.done = transport.done /\ transport'.read = transport.read
        /\ transport'.generation = transport.generation
        /\ transport'.kind = transport.kind /\ transport'.events = <<>>
    BY <1>1, <1>2, <2>1, <2>2 DEF TransportType
  <2> QED
    BY <2>3, NoneAssumption
<1>3. EventsOf(transport)' = <<>>
  BY <1>1, <1>2 DEF EventsOf
<1>4. pending' \in Seq(EventType) => Waiting' = pending'
  BY <1>3, ConcatEmptySeq DEF Waiting
<1>5. transport = None => Waiting = <<>>
  <2>1. <<>> \in Seq(EventType)
    BY EmptySeq
  <2> QED
    BY <2>1, ConcatEmptySeq DEF IInv, Lines, Waiting, EventsOf
<1>6. Reads'
  BY <1>1, <1>2 DEF IInv, Reads
<1> QED
  BY <1>1, <1>2, <1>4, <1>5, <1>6

\* Detached bytes are posted.
LEMMA PumpChunkKeeps ==
    ASSUME IInv, Pump, PumpChunk
    PROVE  IInv'
<1>1. /\ Typed /\ Kept /\ chunks # <<>> /\ chunks \in Seq(EventType) /\ commands \in Seq(EventType)
      /\ Waiting \in Seq(EventType)
  BY WaitingParts DEF PumpChunk, IInv, Typed
<1>2. PICK e, rest : e = Head(chunks) /\ rest = Tail(chunks)
  OBVIOUS
<1>3. /\ e \in EventType /\ rest \in Seq(EventType)
      /\ Range(chunks) = {e} \cup Range(rest)
      /\ BytesIn(chunks) = e.bytes \cup BytesIn(rest)
      /\ InOrder(chunks) <=> InOrder(rest) /\ Before(e.bytes, BytesIn(rest))
  <2>1. chunks \in Seq(EventType) /\ chunks # <<>>
    BY <1>1
  <2> QED
    BY ONLY <1>2, <2>1, HeadBytes
<1>4. e.op = "bytes" /\ ~e.ready /\ Sound(e)
  BY <1>3 DEF IInv, Shape
<1>5. PICK count : count = Lesser(Cardinality(e.bytes), PumpBytes)
  OBVIOUS
<1>6. /\ commands' = Append(commands, FirstBytes(e, count))
      /\ chunks' = Rest(e, count) \o rest
      /\ pending' = pending \o EventsOf(transport) /\ active' = active
  BY <1>2, <1>4, <1>5 DEF PumpChunk
<1>7. IsFiniteSet(e.bytes) /\ count \in Int
  <2>1. IsFiniteSet(e.bytes)
    BY <1>1, <1>3, FiniteBytes
  <2>2. Cardinality(e.bytes) \in Int /\ PumpBytes \in Int
    BY <2>1, FS_CardinalityType, ConnectionAssumption
  <2> QED
    BY <1>5, <2>1, <2>2 DEF Lesser
<1>8. PICK f, left, first : /\ f = FirstBytes(e, count) /\ left = Rest(e, count)
                            /\ first = FirstOf(e.bytes, count)
  OBVIOUS
<1>9. /\ f = [e EXCEPT !.bytes = first] /\ f \in EventType
      /\ left \in Seq(EventType) /\ InOrder(left)
      /\ \A g \in Range(left) : g = [e EXCEPT !.bytes = e.bytes \ first]
      /\ e.bytes = first \cup BytesIn(left) /\ Before(first, BytesIn(left))
  BY ONLY <1>3, <1>7, <1>8, TakePart
<1>10. /\ f.op = "bytes" /\ ~f.ready /\ f.conn = e.conn /\ f.bytes = first /\ Sound(f)
       /\ \A g \in Range(left) : /\ g.op = "bytes" /\ ~g.ready /\ g.conn = e.conn
                                 /\ g.bytes \subseteq e.bytes /\ Sound(g)
  BY <1>3, <1>4, <1>9 DEF EventType, Sound
<1>11. /\ commands' \in Seq(EventType)
       /\ \A x : x \in Range(commands') <=> x \in Range(commands) \/ x = f
       /\ \A x : x \in BytesIn(commands') <=> x \in BytesIn(commands) \/ x \in f.bytes
       /\ InOrder(commands') <=> InOrder(commands) /\ Before(BytesIn(commands), f.bytes)
  <2>1. commands \in Seq(EventType) /\ f \in EventType /\ commands' = Append(commands, f)
    BY <1>1, <1>6, <1>8, <1>9
  <2> QED
    BY ONLY <2>1, AppendBytes
<1>12. /\ chunks' \in Seq(EventType) /\ Range(chunks') = Range(left) \cup Range(rest)
       /\ BytesIn(chunks') = BytesIn(left) \cup BytesIn(rest)
       /\ InOrder(chunks') <=> /\ InOrder(left) /\ InOrder(rest)
                           /\ Before(BytesIn(left), BytesIn(rest))
  <2>1. left \in Seq(EventType) /\ rest \in Seq(EventType) /\ chunks' = left \o rest
    BY <1>3, <1>6, <1>8, <1>9
  <2> QED
    BY ONLY <2>1, ConcatBytes
<1>13. pending' = Waiting /\ Waiting' = Waiting
  BY <1>1, <1>6, PumpParts DEF Waiting
<1>14. UNCHANGED <<made, heardConn, told, heard, origin, received, lost, active>>
  BY <1>6, PumpParts
<1>15. Typed'
  BY <1>1, <1>11, <1>12, <1>13, <1>14, PumpParts DEF Typed
<1>16. Shape'
  BY <1>3, <1>4, <1>10, <1>11, <1>12, <1>13 DEF IInv, Shape
<1>17. Own'
  <2>1. \A b \in e.bytes : origin[b] = e.conn
    BY <1>3 DEF IInv, Own
  <2>2. first \subseteq e.bytes
    BY <1>9
  <2> QED
    BY <1>3, <1>10, <1>11, <1>12, <1>13, <1>14, <2>1, <2>2 DEF IInv, Own
<1>18. Kept'
  <2>1. /\ received \ lost = heard \cup BytesIn(commands) \cup BytesIn(chunks) \cup BytesIn(Waiting)
        /\ InOrder(commands) /\ InOrder(chunks) /\ InOrder(Waiting)
        /\ Before(heard, BytesIn(commands)) /\ Before(heard, BytesIn(chunks))
        /\ Before(heard, BytesIn(Waiting))
        /\ Before(BytesIn(commands), BytesIn(chunks)) /\ Before(BytesIn(commands), BytesIn(Waiting))
        /\ Before(BytesIn(chunks), BytesIn(Waiting))
    BY DEF IInv, Kept
  <2>2. BytesIn(commands') = BytesIn(commands) \cup first
    BY <1>10, <1>11
  <2>3. BytesIn(chunks) = first \cup BytesIn(chunks')
    BY <1>3, <1>9, <1>12
  <2>4. received \ lost = heard \cup BytesIn(commands') \cup BytesIn(chunks') \cup BytesIn(Waiting)
    BY <2>1, <2>2, <2>3
  <2>5. InOrder(commands') /\ InOrder(chunks')
    BY <1>3, <1>9, <1>10, <1>11, <1>12, <2>1, <2>3 DEF Before
  <2>6. /\ Before(heard, BytesIn(commands')) /\ Before(heard, BytesIn(chunks'))
        /\ Before(BytesIn(commands'), BytesIn(Waiting))
        /\ Before(BytesIn(chunks'), BytesIn(Waiting))
    BY <2>1, <2>2, <2>3 DEF Before
  <2>7. Before(BytesIn(commands'), BytesIn(chunks'))
    <3>1. Before(first, BytesIn(chunks'))
      BY <1>3, <1>9, <1>12, <2>1 DEF Before
    <3> QED
      BY <2>1, <2>2, <2>3, <3>1 DEF Before
  <2> QED
    BY <1>13, <1>14, <2>1, <2>4, <2>5, <2>6, <2>7 DEF Kept
<1>19. Lines'
  <2>1. /\ heardConn \in {None, told} /\ Follows(told, commands)
        /\ active # None => Ends(told, commands, active)
        /\ transport = None => pending = <<>> /\ active = None
        /\ transport # None => Follows(active, Waiting) /\ Ends(active, Waiting, transport.conn)
    BY DEF IInv, Lines
  <2>2. Follows(told, commands') /\ (active # None => Ends(told, commands', active))
    <3>1. ~Mark(f) /\ ~Bound(f)
      BY <1>10 DEF Mark, Bound
    <3>2. commands \in Seq(EventType) /\ f \in EventType /\ commands' = Append(commands, f)
      BY <1>1, <1>6, <1>8, <1>9
    <3> QED
      BY ONLY <2>1, <3>1, <3>2, AppendFollows
  <2> QED
    BY <1>13, <1>14, <2>1, <2>2, PumpParts DEF Lines
<1> QED
  BY <1>15, <1>16, <1>17, <1>18, <1>19, PumpParts DEF IInv

\* Bytes of the active connection are posted.
LEMMA PumpBytesKeeps ==
    ASSUME IInv, Pump, chunks = <<>>, Waiting # <<>>, PumpBytesEvent(Head(Waiting), Tail(Waiting))
    PROVE  IInv'
<1>1. /\ Typed /\ Kept /\ chunks \in Seq(EventType) /\ commands \in Seq(EventType)
      /\ Waiting \in Seq(EventType) /\ BytesIn(chunks) = {}
  BY WaitingParts, NoBytes DEF IInv, Typed
<1>2. PICK e, rest : e = Head(Waiting) /\ rest = Tail(Waiting)
  OBVIOUS
<1>3. /\ e \in EventType /\ rest \in Seq(EventType)
      /\ Range(Waiting) = {e} \cup Range(rest)
      /\ BytesIn(Waiting) = e.bytes \cup BytesIn(rest)
      /\ InOrder(Waiting) <=> InOrder(rest) /\ Before(e.bytes, BytesIn(rest))
  <2>1. PICK q : q = Waiting
    OBVIOUS
  <2>2. q \in Seq(EventType) /\ q # <<>> /\ e = Head(q) /\ rest = Tail(q)
    BY <1>1, <1>2, <2>1
  <2>3. /\ e \in EventType /\ rest \in Seq(EventType)
        /\ Range(q) = {e} \cup Range(rest)
        /\ BytesIn(q) = e.bytes \cup BytesIn(rest)
        /\ InOrder(q) <=> InOrder(rest) /\ Before(e.bytes, BytesIn(rest))
    BY ONLY <2>2, HeadBytes
  <2> QED
    BY <2>1, <2>3
<1>4. e.op = "bytes" /\ e.ready /\ Sound(e) /\ e.conn \in Conns
  <2>1. PumpBytesEvent(e, rest)
    BY <1>2
  <2> QED
    BY <1>3, <2>1 DEF IInv, Shape, PumpBytesEvent, Sound
<1>5. transport # None /\ Follows(active, Waiting) /\ Ends(active, Waiting, transport.conn)
  BY PumpParts DEF IInv, Lines
<1>6. /\ active = e.conn /\ Next1(active, e) = active /\ Bound(e)
      /\ Follows(active, rest) /\ Ends(active, rest, transport.conn)
  <2>1. Bound(e) /\ ~Mark(e)
    BY <1>4 DEF Bound, Mark
  <2>2. PICK q, a : q = Waiting /\ a = active
    OBVIOUS
  <2>3. q \in Seq(EventType) /\ q # <<>> /\ e = Head(q) /\ rest = Tail(q) /\ Follows(a, q)
    BY <1>1, <1>2, <1>5, <2>2
  <2>4. /\ Bound(e) => a = e.conn /\ Follows(Next1(a, e), rest)
        /\ \A z : Ends(a, q, z) <=> Ends(Next1(a, e), rest, z)
    BY ONLY <2>3, OneLess
  <2> QED
    BY <1>5, <2>1, <2>2, <2>4 DEF Next1
<1>7. PICK count : count = Acceptable(e)
  OBVIOUS
<1>8. /\ commands' = Append(commands, FirstBytes(e, count))
      /\ pending' = Rest(e, count) \o rest /\ UNCHANGED <<active, chunks>>
  BY <1>2, <1>6, <1>7 DEF PumpBytesEvent
<1>9. IsFiniteSet(e.bytes) /\ count \in Int
  <2>1. IsFiniteSet(e.bytes)
    BY <1>1, <1>3, FiniteBytes
  <2>2. IsFiniteSet(BytesIn(commands))
    <3>1. IsFiniteSet(1 .. Len(origin)) /\ BytesIn(commands) \subseteq 1 .. Len(origin)
      BY <1>1, BytesApart, FS_Interval
    <3> QED
      BY <3>1, FS_Subset
  <2>3. /\ Cardinality(e.bytes) \in Int /\ PumpBytes \in Int /\ RxBudget \in Int
        /\ Cardinality(BytesIn(commands)) \in Int
    BY <2>1, <2>2, FS_CardinalityType, ConnectionAssumption
  <2> QED
    BY <1>7, <2>1, <2>3 DEF Acceptable, Lesser
<1>10. PICK f, left, first : /\ f = FirstBytes(e, count) /\ left = Rest(e, count)
                             /\ first = FirstOf(e.bytes, count)
  OBVIOUS
<1>11. PICK some : some = [e EXCEPT !.bytes = e.bytes \ first]
  OBVIOUS
<1>12. /\ f = [e EXCEPT !.bytes = first] /\ f \in EventType
       /\ left \in Seq(EventType) /\ InOrder(left)
       /\ \A g \in Range(left) : g = some
       /\ left = <<>> \/ left = <<some>>
       /\ e.bytes = first \cup BytesIn(left) /\ Before(first, BytesIn(left))
  BY ONLY <1>3, <1>9, <1>10, <1>11, TakePart
<1>13. /\ f.op = "bytes" /\ f.ready /\ f.conn = e.conn /\ f.bytes = first /\ Sound(f)
       /\ some.op = "bytes" /\ some.ready /\ some.conn = e.conn
       /\ some.bytes \subseteq e.bytes /\ Sound(some)
  BY <1>3, <1>4, <1>11, <1>12 DEF EventType, Sound
<1>14. /\ commands' \in Seq(EventType)
       /\ \A x : x \in Range(commands') <=> x \in Range(commands) \/ x = f
       /\ \A x : x \in BytesIn(commands') <=> x \in BytesIn(commands) \/ x \in f.bytes
       /\ InOrder(commands') <=> InOrder(commands) /\ Before(BytesIn(commands), f.bytes)
  <2>1. commands \in Seq(EventType) /\ f \in EventType /\ commands' = Append(commands, f)
    BY <1>1, <1>8, <1>10, <1>12
  <2> QED
    BY ONLY <2>1, AppendBytes
<1>15. /\ pending' \in Seq(EventType) /\ Range(pending') = Range(left) \cup Range(rest)
       /\ BytesIn(pending') = BytesIn(left) \cup BytesIn(rest)
       /\ InOrder(pending') <=> /\ InOrder(left) /\ InOrder(rest)
                            /\ Before(BytesIn(left), BytesIn(rest))
  <2>1. left \in Seq(EventType) /\ rest \in Seq(EventType) /\ pending' = left \o rest
    BY <1>3, <1>8, <1>10, <1>12
  <2> QED
    BY ONLY <2>1, ConcatBytes
<1>16. Waiting' = pending'
  BY <1>15, PumpParts
<1>17. UNCHANGED <<made, heardConn, told, heard, origin, received, lost, active, chunks>>
  BY <1>8, PumpParts
<1>18. Typed'
  BY <1>1, <1>14, <1>15, <1>17, PumpParts DEF Typed
<1>19. Shape'
  BY <1>3, <1>4, <1>12, <1>13, <1>14, <1>15, <1>16, <1>17 DEF IInv, Shape
<1>20. Own'
  <2>1. \A b \in e.bytes : origin[b] = e.conn
    BY <1>3 DEF IInv, Own
  <2>2. first \subseteq e.bytes
    BY <1>12
  <2> QED
    BY <1>3, <1>12, <1>13, <1>14, <1>15, <1>16, <1>17, <2>1, <2>2 DEF IInv, Own
<1>21. Kept'
  <2>1. /\ received \ lost = heard \cup BytesIn(commands) \cup BytesIn(Waiting)
        /\ InOrder(commands) /\ InOrder(chunks) /\ InOrder(Waiting)
        /\ Before(heard, BytesIn(commands)) /\ Before(heard, BytesIn(Waiting))
        /\ Before(BytesIn(commands), BytesIn(Waiting))
    BY <1>1 DEF IInv, Kept
  <2>2. BytesIn(commands') = BytesIn(commands) \cup first
    BY <1>13, <1>14
  <2>3. BytesIn(Waiting) = first \cup BytesIn(pending')
    BY <1>3, <1>12, <1>15
  <2>4. received \ lost = heard \cup BytesIn(commands') \cup BytesIn(pending')
    BY <2>1, <2>2, <2>3
  <2>5. InOrder(commands') /\ InOrder(pending')
    BY <1>3, <1>12, <1>13, <1>14, <1>15, <2>1, <2>3 DEF Before
  <2>6. Before(heard, BytesIn(commands')) /\ Before(heard, BytesIn(pending'))
    BY <2>1, <2>2, <2>3 DEF Before
  <2>7. Before(BytesIn(commands'), BytesIn(pending'))
    <3>1. Before(first, BytesIn(pending'))
      BY <1>3, <1>12, <1>15, <2>1 DEF Before
    <3> QED
      BY <2>1, <2>2, <2>3, <3>1 DEF Before
  <2>8. \A S : Before(S, {}) /\ Before({}, S)
    BY DEF Before
  <2> QED
    BY <1>1, <1>16, <1>17, <2>1, <2>4, <2>5, <2>6, <2>7, <2>8 DEF Kept
<1>22. Lines'
  <2>1. active # None
    BY <1>4, <1>6, ConnectionAssumption DEF Conns
  <2>2. /\ heardConn \in {None, told} /\ Follows(told, commands) /\ Ends(told, commands, active)
    BY <2>1 DEF IInv, Lines
  <2>3. Follows(told, commands') /\ Ends(told, commands', active)
    <3>1. ~Mark(f) /\ (Bound(f) => Ends(told, commands, f.conn))
      BY <1>6, <1>13, <2>2 DEF Mark
    <3>2. commands \in Seq(EventType) /\ f \in EventType /\ commands' = Append(commands, f)
      BY <1>1, <1>8, <1>10, <1>12
    <3> QED
      BY ONLY <2>2, <3>1, <3>2, AppendFollows
  <2>4. Follows(active, left) /\ Ends(active, left, active)
    <3>1. CASE left = <<>>
      BY <3>1, NoneFollows
    <3>2. CASE left = <<some>>
      BY <1>6, <1>13, <3>2, OneFollows DEF Next1, Mark
    <3> QED
      BY <1>12, <3>1, <3>2
  <2>5. Follows(active, pending') /\ Ends(active, pending', transport.conn)
    <3>1. /\ left \in Seq(EventType) /\ rest \in Seq(EventType) /\ pending' = left \o rest
          /\ Follows(active, left) /\ Ends(active, left, active)
          /\ Follows(active, rest) /\ Ends(active, rest, transport.conn)
      BY <1>3, <1>6, <1>8, <1>10, <1>12, <2>4
    <3> QED
      BY ONLY <3>1, ConcatFollows
  <2> QED
    BY <1>5, <1>16, <1>17, <2>1, <2>2, <2>3, <2>5, PumpParts DEF Lines
<1> QED
  BY <1>18, <1>19, <1>20, <1>21, <1>22, PumpParts DEF IInv

\* A report is dealt with: the application changes its connection and tells the worker.
LEMMA PumpReportKeeps ==
    ASSUME IInv, Pump, chunks = <<>>, Waiting # <<>>, PumpReport(Head(Waiting), Tail(Waiting))
    PROVE  IInv'
<1>1. /\ Typed /\ Kept /\ commands \in Seq(EventType)
      /\ Waiting \in Seq(EventType) /\ active \in Conns \cup {None}
  BY WaitingParts DEF IInv, Typed
<1>2. PICK e, rest : e = Head(Waiting) /\ rest = Tail(Waiting)
  OBVIOUS
<1>3. /\ e \in EventType /\ rest \in Seq(EventType)
      /\ Range(Waiting) = {e} \cup Range(rest)
      /\ BytesIn(Waiting) = e.bytes \cup BytesIn(rest)
      /\ InOrder(Waiting) <=> InOrder(rest) /\ Before(e.bytes, BytesIn(rest))
  <2>1. PICK q : q = Waiting
    OBVIOUS
  <2>2. q \in Seq(EventType) /\ q # <<>> /\ e = Head(q) /\ rest = Tail(q)
    BY <1>1, <1>2, <2>1
  <2>3. /\ e \in EventType /\ rest \in Seq(EventType)
        /\ Range(q) = {e} \cup Range(rest)
        /\ BytesIn(q) = e.bytes \cup BytesIn(rest)
        /\ InOrder(q) <=> InOrder(rest) /\ Before(e.bytes, BytesIn(rest))
    BY ONLY <2>2, HeadBytes
  <2> QED
    BY <2>1, <2>3
<1>4. /\ e.op # "bytes" /\ pending' = rest /\ UNCHANGED chunks
      /\ commands' = IF e.ready THEN Append(commands, e) ELSE commands
      /\ active' = ActiveAfter(e)
  BY <1>2 DEF PumpReport
<1>5. Sound(e) /\ e.bytes = {}
  BY <1>3, <1>4 DEF IInv, Shape, Sound
<1>6. transport # None /\ Follows(active, Waiting) /\ Ends(active, Waiting, transport.conn)
  BY PumpParts DEF IInv, Lines
<1>7. /\ Bound(e) => active = e.conn
      /\ Follows(Next1(active, e), rest) /\ Ends(Next1(active, e), rest, transport.conn)
  <2>1. PICK q, a : q = Waiting /\ a = active
    OBVIOUS
  <2>2. q \in Seq(EventType) /\ q # <<>> /\ e = Head(q) /\ rest = Tail(q) /\ Follows(a, q)
    BY <1>1, <1>2, <1>6, <2>1
  <2>3. /\ Bound(e) => a = e.conn
        /\ Follows(Next1(a, e), rest)
        /\ \A z : Ends(a, q, z) <=> Ends(Next1(a, e), rest, z)
    BY ONLY <2>2, OneLess
  <2> QED
    BY <1>6, <2>1, <2>3
\* What the application takes the connection to be is what the queue says.
<1>8. active' = Next1(active, e)
  <2>1. CASE e.op = "open" /\ e.ready
    BY <1>4, <2>1 DEF ActiveAfter, Next1, Mark, After
  <2>2. CASE e.op = "close"
    BY <1>4, <1>5, <1>7, <2>2 DEF ActiveAfter, Next1, Mark, After, Bound, Sound
  <2>3. CASE ~(e.op = "open" /\ e.ready) /\ e.op # "close"
    BY <1>4, <2>3 DEF ActiveAfter, Next1, Mark, After, Bound
  <2> QED
    BY <2>1, <2>2, <2>3
<1>9. active' \in Conns \cup {None}
  BY <1>1, <1>5, <1>8 DEF Next1, Mark, After, Sound
<1>10. /\ commands' \in Seq(EventType)
       /\ \A x \in Range(commands') : x \in Range(commands) \/ (x = e /\ e.ready)
       /\ BytesIn(commands') = BytesIn(commands)
       /\ InOrder(commands) => InOrder(commands')
  <2>1. CASE e.ready
    <3>1. commands \in Seq(EventType) /\ e \in EventType /\ commands' = Append(commands, e)
      BY <1>1, <1>3, <1>4, <2>1
    <3>2. /\ commands' \in Seq(EventType)
          /\ \A x : x \in Range(commands') <=> x \in Range(commands) \/ x = e
          /\ \A x : x \in BytesIn(commands') <=> x \in BytesIn(commands) \/ x \in e.bytes
          /\ InOrder(commands') <=> InOrder(commands) /\ Before(BytesIn(commands), e.bytes)
      BY ONLY <3>1, AppendBytes
    <3>3. BytesIn(commands') = BytesIn(commands)
      BY <1>5, <3>2
    <3> QED
      BY <1>5, <2>1, <3>2, <3>3 DEF Before
  <2>2. CASE ~e.ready
    BY <1>1, <1>4, <2>2
  <2> QED
    BY <2>1, <2>2
<1>11. Waiting' = rest
  BY <1>3, <1>4, PumpParts
<1>12. UNCHANGED <<made, heardConn, told, heard, origin, received, lost, chunks>>
  BY <1>4, PumpParts
<1>13. Typed'
  BY <1>1, <1>3, <1>4, <1>9, <1>10, <1>12, PumpParts DEF Typed
<1>14. Shape'
  BY <1>3, <1>5, <1>10, <1>11, <1>12 DEF IInv, Shape
<1>15. Own'
  BY <1>3, <1>5, <1>10, <1>11, <1>12 DEF IInv, Own
<1>16. Kept'
  <2>1. BytesIn(rest) = BytesIn(Waiting) /\ (InOrder(Waiting) => InOrder(rest))
    BY <1>3, <1>5
  <2> QED
    BY <1>10, <1>11, <1>12, <2>1 DEF IInv, Kept
<1>17. Lines'
  <2>1. /\ heardConn \in {None, told} /\ Follows(told, commands)
        /\ active # None => Ends(told, commands, active)
    BY DEF IInv, Lines
  <2>2. Bound(e) => active # None
    <3>1. Bound(e) => e.conn \in Conns
      BY <1>5 DEF Bound, Sound
    <3>2. None \notin Conns
      BY ConnectionAssumption DEF Conns
    <3> QED
      BY <1>7, <3>1, <3>2
  <2>3. Follows(told, commands') /\ (active' # None => Ends(told, commands', active'))
    <3>1. CASE e.ready
      <4>1. /\ commands \in Seq(EventType) /\ e \in EventType /\ commands' = Append(commands, e)
            /\ Bound(e) => Ends(told, commands, e.conn)
        BY <1>1, <1>3, <1>4, <1>7, <2>1, <2>2, <3>1
      <4>2. /\ Follows(told, commands')
            /\ Mark(e) => Ends(told, commands', After(e))
            /\ ~Mark(e) => \A y : Ends(told, commands, y) => Ends(told, commands', y)
        BY ONLY <2>1, <4>1, AppendFollows
      <4> QED
        BY <1>8, <2>1, <4>2 DEF Next1
    <3>2. CASE ~e.ready
      BY <1>4, <1>8, <2>1, <3>2 DEF Next1, Mark
    <3> QED
      BY <3>1, <3>2
  <2> QED
    BY <1>6, <1>7, <1>8, <1>11, <1>12, <2>1, <2>3, PumpParts DEF Lines
<1> QED
  BY <1>13, <1>14, <1>15, <1>16, <1>17, PumpParts DEF IInv

\* The worker runs a command.
LEMMA RunKeeps ==
    ASSUME IInv, Run
    PROVE  IInv'
<1>1. /\ Typed /\ Kept /\ commands # <<>> /\ commands \in Seq(EventType)
      /\ told \in Conns \cup {None}
      /\ UNCHANGED <<transport, made, active, pending, chunks, origin, received>>
  BY DEF IInv, Typed, Run, appVars
<1>2. PICK e, rest : e = Head(commands) /\ rest = Tail(commands)
  OBVIOUS
<1>3. /\ e \in EventType /\ rest \in Seq(EventType)
      /\ Range(commands) = {e} \cup Range(rest)
      /\ BytesIn(commands) = e.bytes \cup BytesIn(rest)
      /\ InOrder(commands) <=> InOrder(rest) /\ Before(e.bytes, BytesIn(rest))
  <2>1. commands \in Seq(EventType) /\ commands # <<>>
    BY <1>1
  <2> QED
    BY ONLY <1>2, <2>1, HeadBytes
<1>4. Sound(e) /\ (e.op = "open" => e.ready)
  BY <1>3 DEF IInv, Shape
<1>5. /\ heardConn \in {None, told} /\ Follows(told, commands)
      /\ active # None => Ends(told, commands, active)
  BY DEF IInv, Lines
<1>6. /\ Bound(e) => told = e.conn
      /\ Follows(Next1(told, e), rest)
      /\ \A z : Ends(told, commands, z) <=> Ends(Next1(told, e), rest, z)
  <2>1. commands \in Seq(EventType) /\ commands # <<>> /\ Follows(told, commands)
    BY <1>1, <1>5
  <2> QED
    BY ONLY <1>2, <2>1, OneLess
\* No byte is refused: the worker last heard of the connection of the bytes, or of none.
<1>7. ~(e.op = "bytes" /\ e.ready /\ heardConn # None /\ heardConn # e.conn)
  BY <1>5, <1>6 DEF Bound
<1>8. /\ heard' = heard \cup e.bytes
      /\ told' = CASE e.op = "open" -> e.conn [] e.op = "close" -> None [] OTHER -> told
      /\ heardConn' = CASE e.op = "open" \/ (e.op = "bytes" /\ e.ready) -> e.conn
                        [] e.op = "close" /\ heardConn = e.conn -> None
                        [] OTHER -> heardConn
      /\ commands' = IF e.op = "close" THEN WithoutBytes(rest) ELSE rest
      /\ lost' = IF e.op = "close" THEN lost \cup BytesIn(rest) ELSE lost
  BY <1>2, <1>7 DEF Run
<1>9. told' = Next1(told, e)
  <2>1. CASE e.op = "open"
    BY <1>4, <1>8, <2>1 DEF Next1, Mark, After
  <2>2. CASE e.op = "close"
    BY <1>4, <1>8, <2>2 DEF Next1, Mark, After, Sound
  <2>3. CASE e.op # "open" /\ e.op # "close"
    BY <1>8, <2>3 DEF Next1, Mark
  <2> QED
    BY <2>1, <2>2, <2>3
<1>10. heardConn' \in {None, told'}
  <2>1. CASE e.op = "open"
    BY <1>8, <2>1
  <2>2. CASE e.op = "bytes" /\ e.ready
    BY <1>6, <1>8, <2>2 DEF Bound
  <2>3. CASE e.op = "close"
    BY <1>4, <1>5, <1>6, <1>8, <2>3 DEF Bound, Sound
  <2>4. CASE e.op # "open" /\ e.op # "close" /\ ~(e.op = "bytes" /\ e.ready)
    BY <1>5, <1>8, <2>4
  <2> QED
    BY <2>1, <2>2, <2>3, <2>4
<1>11. told' \in Conns \cup {None}
  BY <1>1, <1>4, <1>9 DEF Next1, Mark, After, Sound
<1>12. /\ commands' \in Seq(EventType) /\ Range(commands') \subseteq Range(rest)
       /\ InOrder(rest) => InOrder(commands')
       /\ BytesIn(commands') = IF e.op = "close" THEN {} ELSE BytesIn(rest)
       /\ Follows(told', commands')
       /\ \A z : Ends(told', rest, z) => Ends(told', commands', z)
  <2>1. CASE e.op = "close"
    <3>1. \A f \in Range(rest) : f.op # "bytes" => f.bytes = {}
      BY <1>3 DEF IInv, Shape, Sound
    <3>2. PICK q : q = WithoutBytes(rest)
      OBVIOUS
    <3>3. /\ q \in Seq(EventType) /\ Range(q) \subseteq Range(rest)
          /\ InOrder(rest) => InOrder(q)
          /\ BytesIn(q) = {}
      BY <1>3, <3>1, <3>2, PickBytes
    <3>4. PICK x : x = told'
      OBVIOUS
    <3>5. /\ Follows(x, rest) => Follows(x, q)
          /\ \A z : Ends(x, rest, z) => Ends(x, q, z)
      BY <1>3, <3>2, WithoutBytesFollows
    <3> QED
      BY <1>6, <1>8, <1>9, <2>1, <3>2, <3>3, <3>4, <3>5
  <2>2. CASE e.op # "close"
    BY <1>3, <1>6, <1>8, <1>9, <2>2
  <2> QED
    BY <2>1, <2>2
<1>13. Waiting' = Waiting
  BY <1>1 DEF Waiting
<1>14. e.op = "close" => e.bytes = {}
  BY <1>4 DEF Sound
<1>15. Typed'
  <2>1. lost' \subseteq received
    BY <1>1, <1>3, <1>8, BytesApart DEF Typed
  <2> QED
    BY <1>1, <1>11, <1>12, <2>1 DEF Typed
<1>16. Shape'
  BY <1>1, <1>3, <1>12, <1>13 DEF IInv, Shape
<1>17. Own'
  BY <1>1, <1>3, <1>12, <1>13 DEF IInv, Own
<1>18. Kept'
  <2>1. /\ received \ lost = heard \cup BytesIn(commands) \cup BytesIn(chunks) \cup BytesIn(Waiting)
        /\ InOrder(commands) /\ InOrder(chunks) /\ InOrder(Waiting)
        /\ Before(heard, BytesIn(commands)) /\ Before(heard, BytesIn(chunks))
        /\ Before(heard, BytesIn(Waiting))
        /\ Before(BytesIn(commands), BytesIn(chunks)) /\ Before(BytesIn(commands), BytesIn(Waiting))
        /\ Before(BytesIn(chunks), BytesIn(Waiting))
    BY DEF IInv, Kept
  <2>2. /\ heard \cap BytesIn(commands) = {} /\ BytesIn(commands) \cap BytesIn(chunks) = {}
        /\ BytesIn(commands) \cap BytesIn(Waiting) = {}
    BY <1>1, BytesApart
  <2>3. received \ lost' = heard' \cup BytesIn(commands') \cup BytesIn(chunks) \cup BytesIn(Waiting)
    <3>1. CASE e.op = "close"
      <4>1. BytesIn(commands) = BytesIn(rest)
        BY <1>3, <1>14, <3>1
      <4>2. heard' = heard /\ BytesIn(commands') = {} /\ lost' = lost \cup BytesIn(commands)
        BY <1>8, <1>12, <1>14, <3>1, <4>1
      <4> QED
        BY <2>1, <2>2, <4>2
    <3>2. CASE e.op # "close"
      BY <1>3, <1>8, <1>12, <2>1, <3>2
    <3> QED
      BY <3>1, <3>2
  <2>4. InOrder(commands')
    BY <1>3, <1>12, <2>1
  <2>5. BytesIn(commands') \subseteq BytesIn(rest)
    BY <1>12
  <2>6. /\ Before(heard', BytesIn(commands')) /\ Before(heard', BytesIn(chunks))
        /\ Before(heard', BytesIn(Waiting))
        /\ Before(BytesIn(commands'), BytesIn(chunks))
        /\ Before(BytesIn(commands'), BytesIn(Waiting))
    BY <1>3, <1>8, <2>1, <2>5 DEF Before
  <2> QED
    BY <1>1, <1>13, <2>1, <2>3, <2>4, <2>6 DEF Kept
<1>19. Reads'
  BY <1>1 DEF IInv, Reads
<1>20. Lines'
  BY <1>1, <1>5, <1>6, <1>9, <1>10, <1>12, <1>13 DEF IInv, Lines
<1> QED
  BY <1>15, <1>16, <1>17, <1>18, <1>19, <1>20 DEF IInv

-----------------------------------------------------------------------------
(* The invariant                                                            *)

\* Nothing is open and nothing is on its way.
LEMMA InitKeeps == Init => IInv
<1> SUFFICES ASSUME Init PROVE IInv
  OBVIOUS
<1>1. /\ transport = None /\ made = 0 /\ active = None
      /\ pending = <<>> /\ chunks = <<>>
      /\ commands = <<>> /\ heardConn = None /\ told = None /\ heard = {}
      /\ origin = <<>> /\ received = {} /\ lost = {}
  BY DEF Init
<1>2. /\ <<>> \in Seq(EventType) /\ <<>> \in Seq(Conns \cup {None})
      /\ Range(<<>>) = {} /\ BytesIn(<<>>) = {} /\ InOrder(<<>>)
  BY NoBytes
<1>3. Waiting = <<>>
  BY <1>1, <1>2, ConcatEmptySeq DEF Waiting, EventsOf
<1>4. Typed
  BY <1>1, <1>2, ConnectionAssumption DEF Typed
<1>5. Shape
  BY <1>1, <1>2, <1>3 DEF Shape
<1>6. Own
  BY <1>1, <1>2, <1>3 DEF Own
<1>7. Kept
  BY <1>1, <1>2, <1>3 DEF Kept, Before
<1>8. Reads
  BY <1>1 DEF Reads
<1>9. Lines
  BY <1>1, NoneFollows DEF Lines
<1> QED
  BY <1>4, <1>5, <1>6, <1>7, <1>8, <1>9 DEF IInv

\* A pump deals with a chunk, with bytes or with a report.
LEMMA PumpKeeps ==
    ASSUME IInv, Pump
    PROVE  IInv'
<1>1. pending \o EventsOf(transport) = Waiting
  BY DEF Waiting
<1>2. \/ PumpChunk
      \/ /\ chunks = <<>> /\ Waiting # <<>>
         /\ \/ PumpBytesEvent(Head(Waiting), Tail(Waiting))
            \/ PumpReport(Head(Waiting), Tail(Waiting))
  BY <1>1 DEF Pump
<1> QED
  BY <1>2, PumpChunkKeeps, PumpBytesKeeps, PumpReportKeeps

\* Each step keeps the invariant.
LEMMA NextKeeps == IInv /\ [Next]_vars => IInv'
<1> SUFFICES ASSUME IInv, [Next]_vars PROVE IInv'
  OBVIOUS
<1>1. ASSUME NEW kind \in Kinds, NEW succeeds \in BOOLEAN, OpenTransport(kind, succeeds)
      PROVE  IInv'
  BY <1>1, OpenTransportKeeps
<1>2. ASSUME NEW discard \in BOOLEAN, CloseTransport(discard) PROVE IInv'
  BY <1>2, CloseTransportKeeps
<1>3. CASE Send
  BY <1>3, SendKeeps
<1>4. ASSUME NEW count \in 0 .. ReadSize, Arrive(count) PROVE IInv'
  BY <1>4, ArriveKeeps
<1>5. CASE ReadDone
  BY <1>5, ReadDoneKeeps
<1>6. ASSUME NEW reject \in BOOLEAN, Accept(reject) PROVE IInv'
  BY <1>6, AcceptKeeps
<1>7. ASSUME NEW ok \in BOOLEAN, Write(ok) PROVE IInv'
  BY <1>7, WriteKeeps
<1>8. CASE Pump
  BY <1>8, PumpKeeps
<1>9. CASE Run
  BY <1>9, RunKeeps
<1>10. CASE UNCHANGED vars
  <2>1. UNCHANGED <<transport, made, active, pending, chunks, commands, heardConn, told, heard,
                    origin, received, lost>>
    BY <1>10 DEF vars, appVars, workerVars
  <2>2. Waiting' = Waiting
    BY <2>1 DEF Waiting
  <2> QED
    BY <2>1, <2>2 DEF IInv, Typed, Shape, Own, Kept, Reads, Lines
<1> QED
  BY <1>1, <1>2, <1>3, <1>4, <1>5, <1>6, <1>7, <1>8, <1>9, <1>10 DEF Next

\* Every state that the transport, the application and the worker reach together satisfies the
\* inductive invariant.
THEOREM InvariantHolds == Spec => []IInv
<1>1. Init => IInv
  BY InitKeeps
<1>2. IInv /\ [Next]_vars => IInv'
  BY NextKeeps
<1> QED
  BY <1>1, <1>2, PTL DEF Spec

-----------------------------------------------------------------------------
(* The theorems                                                             *)

\* Each byte that the I/O thread reported is in one place, in its order, and only a close or an
\* open throws bytes away: whatever the pump splits, the worker refuses or a close detaches.
THEOREM EachByteIsOnce == Spec => []EachByteOnce
<1>1. ASSUME IInv PROVE EachByteOnce
  <2>1. Typed /\ Kept
    BY <1>1 DEF IInv
  <2>2. PICK c, k, p, v : /\ c = commands /\ k = chunks /\ p = pending /\ v = EventsOf(transport)
    OBVIOUS
  <2>3. /\ c \in Seq(EventType) /\ k \in Seq(EventType) /\ p \in Seq(EventType)
        /\ v \in Seq(EventType)
    BY <2>1, <2>2, WaitingParts DEF Typed
  <2>4. PICK ck : ck = c \o k
    OBVIOUS
  <2>5. /\ ck \in Seq(EventType) /\ BytesIn(ck) = BytesIn(c) \cup BytesIn(k)
        /\ InOrder(ck) <=> InOrder(c) /\ InOrder(k) /\ Before(BytesIn(c), BytesIn(k))
    BY ONLY <2>3, <2>4, ConcatBytes
  <2>6. PICK ckp : ckp = ck \o p
    OBVIOUS
  <2>7. /\ ckp \in Seq(EventType) /\ BytesIn(ckp) = BytesIn(ck) \cup BytesIn(p)
        /\ InOrder(ckp) <=> InOrder(ck) /\ InOrder(p) /\ Before(BytesIn(ck), BytesIn(p))
    <3>1. ck \in Seq(EventType) /\ p \in Seq(EventType)
      BY <2>3, <2>5
    <3> QED
      BY ONLY <2>6, <3>1, ConcatBytes
  <2>8. PICK all : all = ckp \o v
    OBVIOUS
  <2>9. /\ BytesIn(all) = BytesIn(ckp) \cup BytesIn(v)
        /\ InOrder(all) <=> InOrder(ckp) /\ InOrder(v) /\ Before(BytesIn(ckp), BytesIn(v))
    <3>1. ckp \in Seq(EventType) /\ v \in Seq(EventType)
      BY <2>3, <2>7
    <3> QED
      BY ONLY <2>8, <3>1, ConcatBytes
  <2>10. Flight = all
    BY <2>2, <2>4, <2>6, <2>8 DEF Flight
  <2>11. /\ BytesIn(Waiting) = BytesIn(p) \cup BytesIn(v)
         /\ InOrder(p) /\ InOrder(v) /\ Before(BytesIn(p), BytesIn(v))
    BY <2>1, <2>2, WaitingParts DEF Kept
  <2>12. /\ received \ lost = heard \cup BytesIn(c) \cup BytesIn(k) \cup BytesIn(Waiting)
         /\ InOrder(c) /\ InOrder(k)
         /\ Before(heard, BytesIn(c)) /\ Before(heard, BytesIn(k))
         /\ Before(heard, BytesIn(Waiting))
         /\ Before(BytesIn(c), BytesIn(k)) /\ Before(BytesIn(c), BytesIn(Waiting))
         /\ Before(BytesIn(k), BytesIn(Waiting))
    BY <2>1, <2>2 DEF Kept
  <2>13. BytesIn(all) = BytesIn(c) \cup BytesIn(k) \cup BytesIn(Waiting)
    BY <2>5, <2>7, <2>9, <2>11
  <2>14. received \ lost = heard \cup BytesIn(all)
    BY <2>12, <2>13
  <2>15. Before(heard, BytesIn(all))
    BY <2>12, <2>13 DEF Before
  <2>16. InOrder(all)
    BY <2>5, <2>7, <2>9, <2>11, <2>12 DEF Before
  <2> QED
    BY <2>10, <2>14, <2>15, <2>16 DEF EachByteOnce
<1> QED
  BY <1>1, InvariantHolds, PTL

\* Bytes are reported for the connection on which they were sent, although a client may take over
\* while a read of the one before is completed.
THEOREM BytesAreTheirOwn == Spec => []BytesOfTheirOwn
<1>1. ASSUME IInv PROVE BytesOfTheirOwn
  <2> SUFFICES ASSUME NEW q \in {pending, chunks, commands, EventsOf(transport)},
                      NEW k \in DOMAIN q, NEW b \in q[k].bytes
               PROVE  origin[b] = q[k].conn
    BY DEF BytesOfTheirOwn
  <2>1. q[k] \in Range(Waiting) \cup Range(chunks) \cup Range(commands)
    <3>1. q[k] \in Range(q)
      BY DEF Range
    <3>2. Range(Waiting) = Range(pending) \cup Range(EventsOf(transport))
      BY <1>1, WaitingParts DEF IInv
    <3> QED
      BY <3>1, <3>2
  <2> QED
    BY <1>1, <2>1 DEF IInv, Own
<1> QED
  BY <1>1, InvariantHolds, PTL

\* When the application has dealt with all events it knows the connection of the transport.
THEOREM ActiveIsTheOne == Spec => []ActiveIsCurrent
<1>1. ASSUME IInv PROVE ActiveIsCurrent
  <2> SUFFICES ASSUME transport # None, Waiting = <<>> PROVE active = transport.conn
    BY DEF ActiveIsCurrent, Waiting
  <2>1. Ends(active, <<>>, transport.conn)
    BY <1>1 DEF IInv, Lines
  <2> QED
    BY <2>1, NoneFollows
<1> QED
  BY <1>1, InvariantHolds, PTL

\* Of a live connection the script hears the opening, then bytes, then at most one closing, and
\* nothing of two connections mixed.
THEOREM CallbacksAreNested == Spec => CallbacksNest
<1>1. ASSUME IInv,
             NEW e \in {commands[k] : k \in DOMAIN commands \cap {1}},
             e.ready, e.op \in {"close", "bytes"}
      PROVE  told = e.conn
  <2>1. 1 \in DOMAIN commands /\ e = commands[1]
    BY <1>1
  <2>2. Follows(told, commands) /\ Bound(e)
    BY <1>1 DEF IInv, Lines, Bound
  <2>3. At(told, commands, 1, e.conn)
    BY <2>1, <2>2 DEF Follows
  <2> QED
    BY <2>3 DEF At
<1>2. IInv => [\A e \in {commands[k] : k \in DOMAIN commands \cap {1}} :
                  Run /\ e.ready /\ (e.op = "close" \/ (e.op = "bytes" /\ heard' # heard))
                      => told = e.conn]_vars
  <2> SUFFICES ASSUME IInv,
                      NEW e \in {commands[k] : k \in DOMAIN commands \cap {1}},
                      e.ready, e.op = "close" \/ e.op = "bytes"
               PROVE  told = e.conn
    OBVIOUS
  <2> QED
    BY <1>1
<1> QED
  BY <1>2, InvariantHolds, PTL DEF CallbacksNest
=============================================================================
