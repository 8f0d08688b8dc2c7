------------------------- MODULE ScriptWorkerProofs -------------------------
(***************************************************************************)
(* The byte counters of the script worker are exact, a stopped worker is   *)
(* empty, and the worker implements the ledger of received bytes.  One     *)
(* invariant carries all three: the chunks in the queue are apart and in   *)
(* the order of arrival, behind the chunk in hand, behind what was parsed. *)
(*                                                                         *)
(* On top of it, what the calls of the application may rely on: waitIdle   *)
(* is a barrier, a reload starts clean, a snapshot of the counters         *)
(* overlooks no byte, and the queue exceeds its watermark by at most one   *)
(* chunk.  Commands are told apart by their tickets, which grow along the  *)
(* queue.                                                                  *)
(***************************************************************************)
EXTENDS ScriptWorker, SeqPickProofs

-----------------------------------------------------------------------------
(* The inductive invariant                                                  *)

CommandOps == {"post", "open", "close", "configure", "reset", "sync", "toggle", "idle",
               "clear", "load", "bytes"}

\* Only "bytes" carries bytes, and "configure" a configuration.
CommandType ==
    {c \in [op : CommandOps, conn : Conns \cup {Detached, None}, rx : SUBSET Nat,
            config : Configs \cup {None}, ticket : Nat] :
        /\ c.op # "bytes" => c.rx = {}
        /\ c.op = "configure" => c.config \in Configs}

\* Where a command is in the hand of the worker, and where its bytes are in executingRxBytes.
Executing == {"run", "loading", "publish", "outWait", "settle", "failed"}
Holding == Executing \cup {"finish", "fulfil"}
Places == Holding \cup {"pop", "sleep", "done"}

\* The types of what the counters are computed from.
Typed ==
    /\ cfg \in Configs /\ commands \in Seq(CommandType)
    /\ pendingRx \in Nat /\ executingRx \in Nat /\ accepted \in Nat /\ issued \in Nat
    /\ pc \in Places
    /\ pc \in Holding => cmd \in CommandType
    /\ pc = "loading" => cmd.op = "load"

Before(A, B) == \A a \in A, b \in B : a < b
Waiting == QueuedBytes(commands) \cup InHand

\* Chunks follow each other in the order of arrival.
InOrder(q) == \A i, j \in 1 .. Len(q) : i < j => Before(q[i].rx, q[j].rx)
Ordered ==
    /\ InOrder(commands)
    /\ Before(InHand, QueuedBytes(commands))
    /\ Before(parsed, Waiting)
    /\ Waiting \subseteq 1 .. accepted /\ parsed \subseteq 1 .. accepted

\* A stop is asked for between two calls, and the thread leaves when nothing is left.
Halting ==
    /\ pc \in {"pop", "sleep", "done", "fulfil"} => ~executing
    /\ pc = "done" => commands = <<>> /\ stopping
    /\ stopping => at \in {"idle", "stopSignal", "joining", "stopped"}

Counts == Typed /\ Ordered /\ RxAccounting
IInv == Counts /\ Halting

-----------------------------------------------------------------------------
(* Sets of bytes                                                            *)

\* Sets of bytes are finite, since they are numbered.
LEMMA BytesFinite ==
    ASSUME NEW n \in Nat, NEW A \in SUBSET (1 .. n)
    PROVE  IsFiniteSet(A) /\ Cardinality(A) \in Nat
<1>1. IsFiniteSet(1 .. n)
  BY FS_Interval
<1>2. IsFiniteSet(A)
  BY <1>1, FS_Subset
<1> QED
  BY <1>2, FS_CardinalityType

\* Bytes that are apart are counted apart.
LEMMA CountUnion ==
    ASSUME NEW n \in Nat, NEW A \in SUBSET (1 .. n), NEW B \in SUBSET (1 .. n), A \cap B = {}
    PROVE  Cardinality(A \cup B) = Cardinality(A) + Cardinality(B)
<1>1. /\ IsFiniteSet(A) /\ IsFiniteSet(B)
      /\ Cardinality(A) \in Nat /\ Cardinality(B) \in Nat
  BY BytesFinite
<1>2. Cardinality(A \cup B) = Cardinality(A) + Cardinality(B) - Cardinality(A \cap B)
  BY <1>1, FS_Union
<1>3. Cardinality(A \cap B) = 0
  BY FS_EmptySet
<1> QED
  BY <1>1, <1>2, <1>3

\* Bytes that come one after the other are apart.
LEMMA BeforeApart ==
    ASSUME NEW A, NEW B, A \subseteq Nat, Before(A, B)
    PROVE  A \cap B = {}
<1>1. ASSUME NEW b \in A, b \in B PROVE FALSE
  <2>1. b \in Nat /\ b < b
    BY <1>1 DEF Before
  <2> QED
    BY <2>1
<1> QED
  BY <1>1

\* The bytes of the next call are the n that follow those accepted.
LEMMA NextBytesFacts ==
    ASSUME accepted \in Nat, NEW n \in Nat \ {0}
    PROVE  /\ NextBytes(n) \subseteq 1 .. accepted + n /\ NextBytes(n) \subseteq Nat
           /\ Cardinality(NextBytes(n)) = n
           /\ \A A : A \subseteq 1 .. accepted => Before(A, NextBytes(n))
<1>1. Cardinality(NextBytes(n)) = n
  BY FS_Interval DEF NextBytes
<1> QED
  BY <1>1 DEF NextBytes, Before

-----------------------------------------------------------------------------
(* Queues of commands                                                       *)

\* A byte is queued if it is in the chunk of a command.
LEMMA QueuedMember ==
    ASSUME NEW q \in Seq(CommandType)
    PROVE  \A b : b \in QueuedBytes(q) <=> \E i \in 1 .. Len(q) : b \in q[i].rx
<1>1. DOMAIN q = 1 .. Len(q)
  BY LenProperties
<1> QED
  BY <1>1 DEF QueuedBytes

\* A command that is appended adds its chunk.
LEMMA QueuedAppend ==
    ASSUME NEW q \in Seq(CommandType), NEW c \in CommandType
    PROVE  /\ Append(q, c) \in Seq(CommandType)
           /\ QueuedBytes(Append(q, c)) = QueuedBytes(q) \cup c.rx
           /\ InOrder(q) /\ Before(QueuedBytes(q), c.rx) => InOrder(Append(q, c))
<1> DEFINE d == Append(q, c)
<1>1. /\ d \in Seq(CommandType) /\ Len(q) \in Nat /\ Len(d) = Len(q) + 1
      /\ \A i \in 1 .. Len(q) : d[i] = q[i]
      /\ d[Len(q) + 1] = c
  BY AppendProperties, LenProperties
<1> HIDE DEF d
<1>2. ASSUME NEW b PROVE b \in QueuedBytes(d) <=> b \in QueuedBytes(q) \cup c.rx
  BY <1>1, QueuedMember
<1>3. QueuedBytes(d) = QueuedBytes(q) \cup c.rx
  BY <1>2
<1>4. ASSUME InOrder(q), Before(QueuedBytes(q), c.rx) PROVE InOrder(d)
  <2> SUFFICES ASSUME NEW i \in 1 .. Len(d), NEW j \in 1 .. Len(d), i < j
               PROVE  Before(d[i].rx, d[j].rx)
    BY DEF InOrder
  <2>1. CASE j = Len(q) + 1
    <3>1. i \in 1 .. Len(q) /\ d[i] = q[i] /\ d[j] = c
      BY <1>1, <2>1
    <3>2. q[i].rx \subseteq QueuedBytes(q)
      BY <3>1, QueuedMember
    <3> QED
      BY <1>4, <3>1, <3>2 DEF Before
  <2>2. CASE j # Len(q) + 1
    <3>1. i \in 1 .. Len(q) /\ j \in 1 .. Len(q) /\ d[i] = q[i] /\ d[j] = q[j]
      BY <1>1, <2>2
    <3> QED
      BY <1>4, <3>1 DEF InOrder
  <2> QED
    BY <2>1, <2>2
<1> QED
  BY <1>1, <1>3, <1>4 DEF d

\* A chunk that is merged into the last command adds the same.
LEMMA QueuedMerge ==
    ASSUME NEW q \in Seq(CommandType), q # <<>>, q[Len(q)].op = "bytes",
           NEW A \in SUBSET Nat
    PROVE  LET d == [q EXCEPT ![Len(q)].rx = @ \cup A]
           IN  /\ d \in Seq(CommandType)
               /\ QueuedBytes(d) = QueuedBytes(q) \cup A
               /\ InOrder(q) /\ Before(QueuedBytes(q), A) => InOrder(d)
<1> DEFINE n == Len(q)
           last == [q[n] EXCEPT !.rx = @ \cup A]
           d == [q EXCEPT ![n].rx = @ \cup A]
<1>1. n \in Nat \ {0} /\ n \in 1 .. n /\ q[n] \in CommandType
  BY EmptySeq, LenProperties, ElementOfSeq
<1>2. last \in CommandType /\ last.rx = q[n].rx \cup A
  BY <1>1 DEF CommandType
<1>3. d = [q EXCEPT ![n] = last]
  OBVIOUS
<1>4. /\ d \in Seq(CommandType) /\ Len(d) = n
      /\ \A i \in 1 .. n : d[i] = IF i = n THEN last ELSE q[i]
  BY <1>1, <1>2, <1>3, ExceptSeq
<1> HIDE DEF d, last
<1>5. ASSUME NEW b PROVE b \in QueuedBytes(d) <=> b \in QueuedBytes(q) \cup A
  BY <1>1, <1>2, <1>4, QueuedMember
<1>6. QueuedBytes(d) = QueuedBytes(q) \cup A
  BY <1>5
<1>7. ASSUME InOrder(q), Before(QueuedBytes(q), A) PROVE InOrder(d)
  <2> SUFFICES ASSUME NEW i \in 1 .. n, NEW j \in 1 .. n, i < j
               PROVE  Before(d[i].rx, d[j].rx)
    BY <1>4 DEF InOrder
  <2>1. d[i] = q[i] /\ q[i].rx \subseteq QueuedBytes(q)
    BY <1>1, <1>4, QueuedMember
  <2>2. Before(q[i].rx, q[j].rx)
    BY <1>7 DEF InOrder
  <2>3. d[j].rx \subseteq q[j].rx \cup A
    BY <1>2, <1>4
  <2> QED
    BY <1>7, <2>1, <2>2, <2>3 DEF Before
<1> QED
  BY <1>4, <1>6, <1>7 DEF d

\* The head is taken with its chunk.
LEMMA QueuedHead ==
    ASSUME NEW q \in Seq(CommandType), q # <<>>
    PROVE  /\ Head(q) \in CommandType /\ Tail(q) \in Seq(CommandType)
           /\ QueuedBytes(q) = QueuedBytes(Tail(q)) \cup Head(q).rx
           /\ InOrder(q) => InOrder(Tail(q)) /\ Before(Head(q).rx, QueuedBytes(Tail(q)))
<1> DEFINE t == Tail(q)
<1>1. /\ Head(q) \in CommandType /\ t \in Seq(CommandType) /\ Len(q) \in Nat \ {0}
      /\ Len(t) = Len(q) - 1 /\ Len(t) \in Nat
      /\ \A i \in 1 .. Len(t) : t[i] = q[i + 1]
      /\ Head(q) = q[1]
  BY HeadTailProperties, EmptySeq, LenProperties
<1> HIDE DEF t
<1>2. ASSUME NEW b PROVE b \in QueuedBytes(q) <=> b \in QueuedBytes(t) \cup Head(q).rx
  <2>1. ASSUME b \in QueuedBytes(q) PROVE b \in QueuedBytes(t) \cup Head(q).rx
    <3>1. PICK i \in 1 .. Len(q) : b \in q[i].rx
      BY <2>1, QueuedMember
    <3>2. CASE i # 1
      <4>1. i - 1 \in 1 .. Len(t) /\ t[i - 1] = q[i]
        BY <1>1, <3>2
      <4> QED
        BY <1>1, <3>1, <4>1, QueuedMember
    <3> QED
      BY <1>1, <3>1, <3>2
  <2>2. ASSUME b \in QueuedBytes(t) \cup Head(q).rx PROVE b \in QueuedBytes(q)
    BY <1>1, <2>2, QueuedMember
  <2> QED
    BY <2>1, <2>2
<1>3. QueuedBytes(q) = QueuedBytes(t) \cup Head(q).rx
  BY <1>2
<1>4. ASSUME InOrder(q) PROVE InOrder(t) /\ Before(Head(q).rx, QueuedBytes(t))
  <2>1. \A i \in 1 .. Len(t) : i + 1 \in 1 .. Len(q) /\ Before(q[1].rx, q[i + 1].rx)
    BY <1>1, <1>4 DEF InOrder
  <2>2. Before(Head(q).rx, QueuedBytes(t))
    BY <1>1, <2>1, QueuedMember DEF Before
  <2>3. InOrder(t)
    BY <1>1, <1>4 DEF InOrder
  <2> QED
    BY <2>2, <2>3
<1> QED
  BY <1>1, <1>3, <1>4 DEF t

\* clearQueuedRxLocked leaves commands without bytes.
LEMMA QueuedNone ==
    ASSUME NEW q \in Seq(CommandType)
    PROVE  /\ WithoutBytes(q) \in Seq(CommandType)
           /\ QueuedBytes(WithoutBytes(q)) = {}
           /\ InOrder(WithoutBytes(q))
<1> DEFINE S == {i \in DOMAIN q : q[i].op # "bytes"}
           w == WithoutBytes(q)
<1>1. /\ w \in Seq(CommandType) /\ Len(w) = Cardinality(S)
      /\ \A i \in 1 .. Cardinality(S) : w[i] = q[Nth(S, i)] /\ Nth(S, i) \in S
  BY PickProperties DEF WithoutBytes
<1>2. \A j \in S : q[j] \in CommandType /\ q[j].op # "bytes"
  BY LenProperties
<1> HIDE DEF w, S
<1>3. \A i \in 1 .. Len(w) : w[i].rx = {}
  BY <1>1, <1>2 DEF CommandType
<1>4. QueuedBytes(w) = {} /\ InOrder(w)
  BY <1>1, <1>3, QueuedMember DEF InOrder, Before
<1> QED
  BY <1>1, <1>4 DEF w

-----------------------------------------------------------------------------
(* Steps that the counters go through                                       *)

\* The configurations and the watermarks are numbers.
LEMMA WatermarkTyped ==
    ASSUME WorkerAssumption, cfg \in Configs
    PROVE  HighWater(cfg) \in Int
<1>1. /\ cfg.rxLimit \in Nat /\ cfg.memory \in Nat /\ cfg.highPct \in Nat
      /\ cfg.backpressure \in BOOLEAN
  BY DEF WorkerAssumption, ConfigType
<1>2. RxBudget(cfg) \in Nat
  BY <1>1 DEF RxBudget, Smaller
<1>3. ASSUME NEW a \in Nat, NEW b \in Nat PROVE (a * b) \div 100 \in Int
  <2>1. a * b \in Int
    OBVIOUS
  <2> QED
    BY <2>1
<1>4. Watermark(RxBudget(cfg), cfg.highPct) \in Int
  BY <1>1, <1>2, <1>3 DEF Watermark
<1> QED
  BY <1>1, <1>2, <1>4 DEF HighWater, Larger

\* A step that touches neither the bytes nor the place of the worker.
LEMMA CountsFrame ==
    ASSUME Counts, issued' \in Nat,
           UNCHANGED <<cfg, commands, pendingRx, executingRx, accepted, parsed, pc, cmd>>
    PROVE  Counts'
BY DEF Counts, Typed, Ordered, InOrder, RxAccounting, QueuedBytes, InHand, Waiting

\* A command without bytes is posted.
LEMMA CountsPosted ==
    ASSUME Counts, NEW c \in CommandType, c.rx = {}, issued' \in Nat,
           commands' = Append(commands, c),
           UNCHANGED <<cfg, pendingRx, executingRx, accepted, parsed, pc, cmd>>
    PROVE  Counts'
<1>1. commands \in Seq(CommandType) /\ InOrder(commands)
  BY DEF Counts, Typed, Ordered
<1>2. Before(QueuedBytes(commands), c.rx)
  BY DEF Before
<1>3. /\ commands' \in Seq(CommandType) /\ InOrder(commands')
      /\ QueuedBytes(commands') = QueuedBytes(commands)
  BY <1>1, <1>2, QueuedAppend
<1>4. InHand' = InHand /\ Waiting' = Waiting
  BY <1>3 DEF InHand, Waiting
<1>5. Typed'
  BY <1>3 DEF Counts, Typed
<1>6. Ordered'
  BY <1>3, <1>4 DEF Counts, Ordered
<1>7. RxAccounting'
  BY <1>4 DEF Counts, RxAccounting, Waiting
<1> QED
  BY <1>5, <1>6, <1>7 DEF Counts

\* n bytes are accepted behind all others.
LEMMA CountsEnqueued ==
    ASSUME WorkerAssumption, Counts, NEW conn \in Conns \cup {Detached}, NEW n \in Nat \ {0},
           NEW merge, commands' = Enqueue(conn, NextBytes(n), merge),
           accepted' = accepted + n, pendingRx' = pendingRx + n,
           UNCHANGED <<cfg, executingRx, issued, parsed, pc, cmd>>
    PROVE  Counts' /\ Waiting' = Waiting \cup NextBytes(n)
<1> DEFINE A == NextBytes(n)
           c == Command("bytes", conn, A, None)
<1>1. /\ commands \in Seq(CommandType) /\ InOrder(commands) /\ accepted \in Nat
      /\ issued \in Nat /\ pendingRx \in Nat
      /\ Waiting \subseteq 1 .. accepted /\ parsed \subseteq 1 .. accepted
  BY DEF Counts, Typed, Ordered
<1>2. /\ A \subseteq 1 .. accepted + n /\ A \subseteq Nat /\ Cardinality(A) = n
      /\ Before(Waiting, A) /\ Before(parsed, A)
  BY <1>1, NextBytesFacts
<1>3. c \in CommandType /\ c.rx = A
  BY <1>1, <1>2 DEF Command, CommandType, CommandOps
<1>4. Before(QueuedBytes(commands), A) /\ Before(InHand, A)
  BY <1>2 DEF Before, Waiting
<1>5. /\ commands' \in Seq(CommandType) /\ InOrder(commands')
      /\ QueuedBytes(commands') = QueuedBytes(commands) \cup A
  <2> HIDE DEF A, c
  <2>1. CASE commands' = Append(commands, c)
    BY <1>1, <1>3, <1>4, <2>1, QueuedAppend
  <2>2. CASE /\ commands # <<>> /\ commands[Len(commands)].op = "bytes"
             /\ commands' = [commands EXCEPT ![Len(commands)].rx = @ \cup A]
    <3> DEFINE d == [commands EXCEPT ![Len(commands)].rx = @ \cup A]
    <3>1. /\ d \in Seq(CommandType) /\ QueuedBytes(d) = QueuedBytes(commands) \cup A
          /\ InOrder(d)
      BY <1>1, <1>2, <1>4, <2>2, QueuedMerge
    <3>2. commands' = d
      BY <2>2
    <3> HIDE DEF d
    <3> QED
      BY <3>1, <3>2
  <2> QED
    BY <2>1, <2>2 DEF Enqueue, A, c
<1>6. InHand' = InHand /\ Waiting' = Waiting \cup A
  BY <1>5 DEF InHand, Waiting
<1>7. Cardinality(Waiting') = Cardinality(Waiting) + n
  <2> DEFINE m == accepted + n
  <2>1. m \in Nat /\ Waiting \in SUBSET (1 .. m) /\ A \in SUBSET (1 .. m) /\ Waiting \subseteq Nat
    BY <1>1, <1>2
  <2> HIDE DEF A, m
  <2>2. Waiting \cap A = {}
    BY <1>2, <2>1, BeforeApart
  <2>3. Cardinality(Waiting \cup A) = Cardinality(Waiting) + Cardinality(A)
    BY <2>1, <2>2, CountUnion
  <2> QED
    BY <1>2, <1>6, <2>3
<1>8. Typed'
  BY <1>1, <1>5 DEF Counts, Typed
<1>9. Ordered'
  <2> HIDE DEF A
  <2>1. Before(InHand', QueuedBytes(commands')) /\ Before(parsed', Waiting')
    BY <1>2, <1>4, <1>5, <1>6 DEF Counts, Ordered, Before
  <2>2. Waiting' \subseteq 1 .. accepted' /\ parsed' \subseteq 1 .. accepted'
    BY <1>1, <1>2, <1>6
  <2> QED
    BY <1>5, <2>1, <2>2 DEF Ordered
<1>10. RxAccounting'
  <2>1. pendingRx' = Cardinality(Waiting')
    BY <1>7 DEF Counts, RxAccounting, Waiting
  <2> QED
    BY <2>1 DEF Counts, RxAccounting, Waiting
<1> QED
  BY <1>6, <1>8, <1>9, <1>10 DEF Counts

\* clearQueuedRxLocked while the command in hand carries no bytes.
LEMMA CountsCleared ==
    ASSUME Counts, ClearQueuedRx, pc = "run", cmd.rx = {},
           pc' \in Executing, pc' # "loading" \/ cmd.op = "load",
           UNCHANGED <<cfg, executingRx, accepted, issued, parsed, cmd>>
    PROVE  Counts' /\ Waiting = QueuedBytes(commands) /\ Waiting' = {}
<1>1. commands \in Seq(CommandType) /\ pendingRx \in Nat /\ cmd \in CommandType
  BY DEF Counts, Typed, Holding, Executing
<1>2. InHand = {} /\ InHand' = {} /\ Waiting = QueuedBytes(commands)
  <2>1. InHand = {}
    BY DEF InHand
  <2>2. cmd'.rx = {}
    OBVIOUS
  <2>3. InHand' = {}
    BY <2>2 DEF InHand
  <2>4. Waiting = QueuedBytes(commands)
    BY <2>1 DEF Waiting
  <2> QED
    BY <2>1, <2>3, <2>4
<1>3. /\ commands' \in Seq(CommandType) /\ QueuedBytes(commands') = {} /\ InOrder(commands')
  BY <1>1, QueuedNone DEF ClearQueuedRx
<1>4. Waiting' = {}
  BY <1>2, <1>3 DEF Waiting
<1>5. pendingRx = Cardinality(QueuedBytes(commands))
  BY <1>2 DEF Counts, RxAccounting, Waiting
<1>6. pendingRx' = 0
  BY <1>1, <1>5 DEF ClearQueuedRx, Smaller
<1>7. Typed'
  BY <1>1, <1>3, <1>6 DEF Counts, Typed, Holding, Executing, Places
<1>8. Ordered'
  BY <1>2, <1>3, <1>4 DEF Counts, Ordered, Before
<1>9. RxAccounting'
  BY <1>2, <1>3, <1>6, FS_EmptySet DEF Counts, RxAccounting, Executing
<1> QED
  BY <1>2, <1>4, <1>7, <1>8, <1>9 DEF Counts

\* The worker moves on with the command in its hand, whose bytes are no longer pending.
LEMMA CountsMoved ==
    ASSUME Counts, pc \in Holding, pc' \in Holding, pc' = "loading" => cmd.op = "load",
           InHand' = InHand, pc' \in Executing <=> pc \in Executing, cfg' \in Configs,
           UNCHANGED <<commands, pendingRx, executingRx, accepted, issued, parsed, cmd>>
    PROVE  Counts' /\ Waiting' = Waiting
<1>1. Waiting' = Waiting
  BY DEF Waiting
<1>2. Typed'
  BY DEF Counts, Typed, Places
<1>3. Ordered'
  BY <1>1 DEF Counts, Ordered, InOrder
<1>4. RxAccounting'
  BY <1>1 DEF Counts, RxAccounting, Waiting, Executing
<1> QED
  BY <1>1, <1>2, <1>3, <1>4 DEF Counts

-----------------------------------------------------------------------------
(* Every step keeps the counters, and is one of the ledger                  *)

\* What a step may do to the bytes: nothing, accept some, or take some from the front of those
\* that wait.
NoBytes == Waiting' = Waiting /\ accepted' = accepted /\ parsed' = parsed
NewBytes ==
    \E n \in Nat \ {0} :
        accepted' = accepted + n /\ Waiting' = Waiting \cup NextBytes(n) /\ parsed' = parsed
FrontBytes ==
    \E S \in SUBSET Waiting :
        /\ Before(S, Waiting \ S) /\ Waiting' = Waiting \ S
        /\ accepted' = accepted /\ parsed' \in {parsed, parsed \cup S}
LedgerMoves == NoBytes \/ NewBytes \/ FrontBytes

\* A command other than "bytes" and "configure" is one.
LEMMA CommandTyped ==
    ASSUME issued \in Nat, NEW op \in CommandOps \ {"bytes", "configure"},
           NEW conn \in Conns \cup {None}
    PROVE  /\ Command(op, conn, {}, None) \in CommandType
           /\ Command(op, conn, {}, None).rx = {}
BY DEF Command, CommandType

\* The lock section of pushCommand keeps the counters.
LEMMA PushCommandCounts ==
    ASSUME Counts, NEW c \in CommandType, c.rx = {}, NEW next, PushCommand(c, next)
    PROVE  Counts' /\ NoBytes
<1>1. issued' \in Nat
  BY DEF PushCommand, Counts, Typed
<1>2. Counts'
  BY <1>1, CountsPosted DEF PushCommand, workerVars
<1>3. QueuedBytes(commands') = QueuedBytes(commands)
  BY QueuedAppend DEF PushCommand, Counts, Typed
<1> QED
  BY <1>2, <1>3 DEF PushCommand, workerVars, NoBytes, Waiting, InHand

\* New work of the application.
LEMMA SubmitCounts == WorkerAssumption /\ Counts /\ Submit => Counts' /\ LedgerMoves
<1> SUFFICES ASSUME WorkerAssumption, Counts, Submit PROVE Counts' /\ LedgerMoves
  OBVIOUS
<1>0. issued \in Nat /\ accepted \in Nat /\ pendingRx \in Nat /\ cfg \in Configs
  BY DEF Counts, Typed
<1>1. CASE Post
  <2>1. PushCommand(Command("post", None, {}, None), "idle")
    BY <1>1 DEF Post
  <2> QED
    BY <1>0, <2>1, CommandTyped, PushCommandCounts DEF CommandOps, LedgerMoves
<1>2. CASE PostReset
  <2>1. PushCommand(Command("reset", None, {}, None), "idle")
    BY <1>2 DEF PostReset
  <2> QED
    BY <1>0, <2>1, CommandTyped, PushCommandCounts DEF CommandOps, LedgerMoves
<1>3. ASSUME NEW c \in Conns, PostOpen(c) PROVE Counts' /\ LedgerMoves
  <2>1. PushCommand(Command("open", c, {}, None), "idle")
    BY <1>3 DEF PostOpen
  <2> QED
    BY <1>0, <2>1, CommandTyped, PushCommandCounts DEF CommandOps, LedgerMoves
<1>4. ASSUME NEW c \in Conns, PostClose(c) PROVE Counts' /\ LedgerMoves
  <2>1. PushCommand(Command("close", c, {}, None), "idle")
    BY <1>4 DEF PostClose
  <2> QED
    BY <1>0, <2>1, CommandTyped, PushCommandCounts DEF CommandOps, LedgerMoves
<1>5. ASSUME NEW c \in Configs, Configure(c) PROVE Counts' /\ LedgerMoves
  <2>1. PushCommand(Command("configure", None, {}, c), "idle")
    BY <1>5 DEF Configure
  <2>2. /\ Command("configure", None, {}, c) \in CommandType
        /\ Command("configure", None, {}, c).rx = {}
    BY <1>0 DEF Command, CommandType, CommandOps
  <2> QED
    BY <2>1, <2>2, PushCommandCounts DEF LedgerMoves
<1>6. ASSUME NEW op \in {"sync", "toggle", "idle"}, Await(op) PROVE Counts' /\ LedgerMoves
  <2>1. PICK next : PushCommand(Command(op, None, {}, None), next)
    BY <1>6 DEF Await
  <2>2. op \in CommandOps \ {"bytes", "configure"}
    BY DEF CommandOps
  <2> QED
    BY <1>0, <2>1, <2>2, CommandTyped, PushCommandCounts DEF LedgerMoves
<1>7. ASSUME NEW op, ClearOutputs(op) PROVE Counts' /\ LedgerMoves
  <2>1. PICK next : PushCommand(Command("clear", None, {}, None), next)
    BY <1>7 DEF ClearOutputs
  <2> QED
    BY <1>0, <2>1, CommandTyped, PushCommandCounts DEF CommandOps, LedgerMoves
<1>8. ASSUME NEW conn \in Conns \cup {Detached}, NEW n \in 1 .. MaxChunk, NEW merge \in BOOLEAN,
             PushBytes(conn, n, merge)
      PROVE  Counts' /\ LedgerMoves
  <2>1. n \in Nat \ {0}
    BY DEF WorkerAssumption
  <2>2. /\ commands' = Enqueue(conn, NextBytes(n), merge) /\ accepted' = accepted + n
        /\ pendingRx' = pendingRx + n
        /\ UNCHANGED <<cfg, executingRx, issued, parsed, pc, cmd>>
    BY <1>8 DEF PushBytes, workerVars
  <2>3. Counts' /\ Waiting' = Waiting \cup NextBytes(n)
    BY <2>1, <2>2, CountsEnqueued
  <2> QED
    BY <2>1, <2>2, <2>3 DEF LedgerMoves, NewBytes
<1>9. ASSUME NEW conn \in Conns, NEW n \in 1 .. MaxChunk, TryPushBytes(conn, n)
      PROVE  Counts' /\ LedgerMoves
  <2> DEFINE count == AcceptablePrefix(n)
  <2>1. count \in Nat
    BY <1>0, WatermarkTyped DEF WorkerAssumption, AcceptablePrefix, Smaller
  <2>2. /\ commands' = IF count > 0 THEN Enqueue(conn, NextBytes(count), FALSE) ELSE commands
        /\ accepted' = accepted + count /\ pendingRx' = pendingRx + count
        /\ UNCHANGED <<cfg, executingRx, issued, parsed, pc, cmd>>
    BY <1>9 DEF TryPushBytes, workerVars
  <2> HIDE DEF count
  <2>3. CASE count = 0
    <3>1. commands' = commands /\ accepted' = accepted /\ pendingRx' = pendingRx
      BY <1>0, <2>2, <2>3
    <3>2. Counts' /\ NoBytes
      BY <1>0, <2>2, <3>1, CountsFrame DEF NoBytes, Waiting, InHand
    <3> QED
      BY <3>2 DEF LedgerMoves
  <2>4. CASE count # 0
    <3>1. count \in Nat \ {0} /\ commands' = Enqueue(conn, NextBytes(count), FALSE)
      <4>1. count \in Nat \ {0} /\ count > 0
        BY <2>1, <2>4
      <4> QED
        BY <2>2, <4>1
    <3>2. Counts' /\ Waiting' = Waiting \cup NextBytes(count)
      BY <2>2, <3>1, CountsEnqueued
    <3> QED
      BY <2>2, <3>1, <3>2 DEF LedgerMoves, NewBytes
  <2> QED
    BY <2>3, <2>4
<1>10. CASE RequestStop
  <2>1. Counts' /\ NoBytes
    BY <1>0, <1>10, CountsFrame DEF RequestStop, workerVars, history, NoBytes, Waiting, InHand
  <2> QED
    BY <2>1 DEF LedgerMoves
<1> QED
  BY <1>1, <1>2, <1>3, <1>4, <1>5, <1>6, <1>7, <1>8, <1>9, <1>10 DEF Submit

\* A call of IdleAfterPush or PostLoad, which does not look at the limit of commands.
LEMMA AppendCounts ==
    ASSUME Counts, NEW op \in {"idle", "load"}, issued' = issued + 1,
           commands' = Append(commands, Command(op, None, {}, None)),
           UNCHANGED <<cfg, pendingRx, executingRx, accepted, parsed, pc, cmd>>
    PROVE  Counts' /\ NoBytes
<1> DEFINE c == Command(op, None, {}, None)
<1>1. issued \in Nat /\ issued' \in Nat /\ commands \in Seq(CommandType)
  BY DEF Counts, Typed
<1>2. c \in CommandType /\ c.rx = {}
  BY <1>1, CommandTyped DEF CommandOps
<1> HIDE DEF c
<1>3. Counts'
  BY <1>1, <1>2, CountsPosted DEF c
<1>4. QueuedBytes(commands') = QueuedBytes(commands)
  BY <1>1, <1>2, QueuedAppend DEF c
<1> QED
  BY <1>3, <1>4 DEF NoBytes, Waiting, InHand

\* Every other step of the application.
LEMMA AppCounts == WorkerAssumption /\ Counts /\ (App \/ Stopped) => Counts' /\ LedgerMoves
<1> SUFFICES ASSUME WorkerAssumption, Counts, App \/ Stopped PROVE Counts' /\ LedgerMoves
  OBVIOUS
<1>0. issued \in Nat
  BY DEF Counts, Typed
<1>1. CASE Submit
  BY <1>1, SubmitCounts
<1>2. CASE IdleAfterPush
  BY <1>2, AppendCounts DEF IdleAfterPush, workerVars, LedgerMoves
<1>3. CASE PostLoad
  BY <1>3, AppendCounts DEF PostLoad, workerVars, LedgerMoves
<1>4. CASE UNCHANGED <<cfg, commands, pendingRx, executingRx, accepted, issued, parsed, pc, cmd>>
  <2>1. Counts'
    BY <1>0, <1>4, CountsFrame
  <2> QED
    BY <1>4, <2>1 DEF LedgerMoves, NoBytes, Waiting, InHand
<1>5. CASE Signal \/ CheckRxQueue \/ RxWake \/ RxSpuriousWake
  BY <1>4, <1>5 DEF Signal, CheckRxQueue, RxWake, RxSpuriousWake, workerVars, history
<1>6. CASE AwaitReturns \/ AwaitTimesOut \/ ClearReturns \/ LoadReturns \/ Join \/ Joined \/ Stopped
  BY <1>4, <1>6 DEF AwaitReturns, AwaitTimesOut, ClearReturns, LoadReturns, Join, Joined, Stopped,
     vars, mutexVars, workerVars, history
<1>7. CASE DiscardWhileWaiting \/ ClearStopped \/ NotifyStop \/ Pump
  BY <1>4, <1>7 DEF DiscardWhileWaiting, ClearStopped, NotifyStop, Pump, Drain, workerVars, history
<1> QED
  BY <1>1, <1>2, <1>3, <1>5, <1>6, <1>7 DEF App, Continue

\* The worker moves on with its command, and publishes, settles, finishes or answers.
LEMMA MoveCounts ==
    ASSUME Counts,
           (\E emits \in BOOLEAN : RunCallback(emits) \/ RunLoad(emits)) \/ RunIdle \/ RunConfigure
           \/ RunClear \/ ThrowElsewhere \/ PublishOutputs
    PROVE  Counts' /\ NoBytes
<1>0. /\ pc \in Executing => cmd \in CommandType
      /\ pc = "loading" => cmd.op = "load"
      /\ cfg \in Configs /\ accepted \in Nat /\ issued \in Nat
  BY DEF Counts, Typed, Holding
<1>1. cmd \in CommandType /\ cmd.op # "bytes" => cmd.rx = {}
  BY DEF CommandType
<1>2. CASE (\E emits \in BOOLEAN : RunCallback(emits)) \/ RunIdle \/ RunConfigure \/ RunClear
  <2>1. /\ pc = "run" /\ pc' = "publish" /\ cmd.op # "bytes" /\ cmd' = cmd
        /\ cfg' = cfg \/ (cfg' = cmd.config /\ cmd.op = "configure")
        /\ UNCHANGED <<commands, pendingRx, executingRx, accepted, issued, parsed>>
    BY <1>2 DEF RunCallback, RunIdle, RunConfigure, RunClear, Running, mutexVars, history
  <2>2. InHand' = {} /\ InHand = {} /\ cfg' \in Configs
    BY <1>0, <1>1, <2>1 DEF InHand, Executing, CommandType
  <2>3. Counts' /\ Waiting' = Waiting
    BY <2>1, <2>2, CountsMoved DEF Holding, Executing
  <2> QED
    BY <2>1, <2>3 DEF NoBytes
<1>3. CASE (\E emits \in BOOLEAN : RunLoad(emits)) \/ ThrowElsewhere
  <2>1. /\ pc \in {"run", "loading"} /\ pc' \in {"publish", "failed"} /\ cmd' = cmd
        /\ pc = "loading" \/ cmd.op # "bytes"
        /\ cfg' = cfg
        /\ UNCHANGED <<commands, pendingRx, executingRx, accepted, issued, parsed>>
    BY <1>3 DEF RunLoad, ThrowElsewhere, history
  <2>2. InHand' = InHand
    BY <1>0, <1>1, <2>1 DEF InHand, Executing
  <2>3. Counts' /\ Waiting' = Waiting
    BY <1>0, <2>1, <2>2, CountsMoved DEF Holding, Executing
  <2> QED
    BY <2>1, <2>3 DEF NoBytes
<1>4. CASE PublishOutputs
  <2>1. /\ pc \in {"publish", "outWait"} /\ pc' \in {"settle", "outWait"} /\ cmd' = cmd
        /\ cfg' = cfg
        /\ UNCHANGED <<commands, pendingRx, executingRx, accepted, issued, parsed>>
    BY <1>4 DEF PublishOutputs, appVars
  <2>2. InHand' = InHand
    BY <2>1 DEF InHand
  <2>3. Counts' /\ Waiting' = Waiting
    BY <1>0, <2>1, <2>2, CountsMoved DEF Holding, Executing
  <2> QED
    BY <2>1, <2>3 DEF NoBytes
<1> QED
  BY <1>2, <1>3, <1>4

\* The worker takes a command: its bytes pass from the queue into its hand.
LEMMA PopCounts == Counts /\ PopCommand => Counts' /\ NoBytes
<1> SUFFICES ASSUME Counts, PopCommand PROVE Counts' /\ NoBytes
  OBVIOUS
<1>0. commands \in Seq(CommandType) /\ InOrder(commands) /\ pendingRx \in Nat /\ accepted \in Nat
  BY DEF Counts, Typed, Ordered
<1>1. /\ pc = "pop" /\ commands # <<>> /\ cmd' = Head(commands) /\ commands' = Tail(commands)
      /\ executingRx' = executingRx + Cardinality(cmd'.rx) /\ pc' = "run"
      /\ UNCHANGED <<cfg, pendingRx, accepted, issued, parsed>>
  BY DEF PopCommand, Counted, history
<1>2. /\ cmd' \in CommandType /\ commands' \in Seq(CommandType)
      /\ QueuedBytes(commands) = QueuedBytes(commands') \cup cmd'.rx
      /\ InOrder(commands') /\ Before(cmd'.rx, QueuedBytes(commands'))
  BY <1>0, <1>1, QueuedHead
<1>3. InHand = {} /\ InHand' = cmd'.rx
  BY <1>1 DEF InHand
<1>4. Waiting' = Waiting
  BY <1>2, <1>3 DEF Waiting
<1>5. Cardinality(cmd'.rx) \in Nat
  <2>1. cmd'.rx \in SUBSET (1 .. accepted)
    BY <1>2 DEF Counts, Ordered, Waiting
  <2> QED
    BY <1>0, <2>1, BytesFinite
<1>6. executingRx = 0
  BY <1>1 DEF Counts, RxAccounting
<1>7. Typed'
  BY <1>1, <1>2, <1>5, <1>6 DEF Counts, Typed, Places, Holding, Executing
<1>8. Ordered'
  BY <1>1, <1>2, <1>3, <1>4 DEF Counts, Ordered
<1>9. RxAccounting'
  <2>1. pendingRx = Cardinality(Waiting)
    BY DEF Counts, RxAccounting, Waiting
  <2>2. pendingRx' = Cardinality(Waiting')
    BY <1>1, <1>4, <2>1
  <2>3. executingRx' = Cardinality(cmd'.rx)
    BY <1>1, <1>5, <1>6
  <2> QED
    BY <1>1, <2>2, <2>3 DEF RxAccounting, Waiting
<1> QED
  BY <1>1, <1>4, <1>7, <1>8, <1>9 DEF Counts, NoBytes

\* The callback on bytes: the chunk in hand is no longer pending, delivered or given up.
LEMMA BytesCounts == Counts /\ (RunBytes \/ ThrowOnBytes) => Counts' /\ FrontBytes
<1> SUFFICES ASSUME Counts, RunBytes \/ ThrowOnBytes PROVE Counts' /\ FrontBytes
  OBVIOUS
<1> DEFINE S == cmd.rx
           Q == QueuedBytes(commands)
<1>0. /\ accepted \in Nat /\ pendingRx \in Nat /\ executingRx \in Nat
      /\ Waiting \in SUBSET (1 .. accepted)
      /\ parsed \in SUBSET (1 .. accepted) /\ Before(parsed, Waiting) /\ Before(InHand, Q)
  BY DEF Counts, Typed, Ordered
<1>1. /\ pc = "run" /\ pc' \in {"publish", "failed"} /\ parsed' \in {parsed, parsed \cup S}
      /\ pendingRx' = pendingRx - Smaller(pendingRx, Cardinality(S))
      /\ UNCHANGED <<cfg, commands, executingRx, accepted, issued, cmd>>
  BY DEF RunBytes, ThrowOnBytes, Running
<1>2. InHand = S /\ InHand' = {} /\ Waiting = Q \cup S /\ Waiting' = Q
  <2>1. InHand = S /\ InHand' = {}
    BY <1>1 DEF InHand
  <2> QED
    BY <1>1, <2>1 DEF Waiting
<1>3. S \in SUBSET (1 .. accepted) /\ Q \in SUBSET (1 .. accepted) /\ S \subseteq Nat
  BY <1>0, <1>2
<1> HIDE DEF S, Q
<1>4. Before(S, Q) /\ S \cap Q = {}
  BY <1>0, <1>2, <1>3, BeforeApart
<1>5. Waiting' = Waiting \ S /\ Waiting \ S = Q
  BY <1>2, <1>4
<1>6. pendingRx = Cardinality(Q) + Cardinality(S)
  <2>1. Q \cap S = {}
    BY <1>4
  <2>2. Cardinality(Q \cup S) = Cardinality(Q) + Cardinality(S)
    BY <1>0, <1>3, <2>1, CountUnion
  <2> QED
    BY <1>2, <2>2 DEF Counts, RxAccounting, Waiting, Q
<1>7. Cardinality(Q) \in Nat /\ Cardinality(S) \in Nat
  BY <1>0, <1>3, BytesFinite
<1>8. pendingRx' = Cardinality(Q)
  BY <1>1, <1>6, <1>7 DEF Smaller
<1>9. Typed'
  BY <1>1, <1>7, <1>8 DEF Counts, Typed, Places, Holding, Executing
<1>10. Ordered'
  <2>1. Before(parsed', Waiting')
    BY <1>0, <1>1, <1>2, <1>4 DEF Before
  <2>2. Before(InHand', QueuedBytes(commands'))
    BY <1>2 DEF Before
  <2>3. parsed' \subseteq 1 .. accepted' /\ Waiting' \subseteq 1 .. accepted'
    BY <1>0, <1>1, <1>2, <1>3
  <2>4. InOrder(commands')
    BY <1>1 DEF Counts, Ordered
  <2> QED
    BY <2>1, <2>2, <2>3, <2>4 DEF Ordered
<1>11. RxAccounting'
  <2>1. pendingRx' = Cardinality(Waiting')
    BY <1>2, <1>8
  <2>2. executingRx = Cardinality(cmd.rx)
    BY <1>1 DEF Counts, RxAccounting
  <2> QED
    BY <1>1, <2>1, <2>2 DEF RxAccounting, Waiting
<1>12. FrontBytes
  BY <1>1, <1>2, <1>4, <1>5 DEF FrontBytes
<1> QED
  BY <1>9, <1>10, <1>11, <1>12 DEF Counts

\* Every step of the worker.
LEMMA WorkerCounts == Counts /\ (Worker \/ Throw) => Counts' /\ LedgerMoves
<1> SUFFICES ASSUME Counts, Worker \/ Throw PROVE Counts' /\ LedgerMoves
  OBVIOUS
<1>0. /\ pc \in Holding => cmd \in CommandType
      /\ executingRx \in Nat
  BY DEF Counts, Typed
<1>1. CASE (\E emits \in BOOLEAN : RunCallback(emits) \/ RunLoad(emits)) \/ RunIdle \/ RunConfigure
           \/ RunClear \/ ThrowElsewhere \/ PublishOutputs
  BY <1>1, MoveCounts DEF LedgerMoves
<1>2. CASE PopCommand
  BY <1>2, PopCounts DEF LedgerMoves
<1>3. CASE RunBytes \/ ThrowOnBytes
  BY <1>3, BytesCounts DEF LedgerMoves
<1>4. CASE (\E emits \in BOOLEAN : RunClose(emits)) \/ RunReset \/ RunLoadClear
  <2>1. /\ pc = "run" /\ ClearQueuedRx /\ cmd.op \in {"close", "reset", "load"}
        /\ pc' \in {"publish", "loading"}
        /\ pc' = "loading" => cmd.op = "load"
        /\ UNCHANGED <<cfg, executingRx, accepted, issued, parsed, cmd>>
    BY <1>4 DEF RunClose, RunReset, RunLoadClear, Running
  <2>2. cmd.rx = {}
    BY <1>0, <2>1 DEF CommandType, Holding, Executing
  <2>3. Counts' /\ Waiting' = {}
    <3>1. pc' \in Executing /\ (pc' # "loading" \/ cmd.op = "load")
      BY <2>1 DEF Executing
    <3> QED
      BY <2>1, <2>2, <3>1, CountsCleared
  <2>4. FrontBytes
    BY <2>1, <2>3 DEF FrontBytes, Before
  <2> QED
    BY <2>3, <2>4 DEF LedgerMoves
<1>5. CASE NoCommand \/ WakeUp \/ Settle \/ Finish \/ Fulfil
  <2>1. /\ UNCHANGED <<cfg, commands, pendingRx, accepted, issued, parsed>>
        /\ \/ pc = "pop" /\ pc' \in {"done", "sleep"} /\ executingRx' = executingRx
           \/ pc = "sleep" /\ pc' = "pop" /\ executingRx' = executingRx
           \/ /\ pc = "settle" /\ pc' = "finish" /\ cmd' = cmd
              /\ executingRx' = executingRx - Smaller(executingRx, Cardinality(cmd.rx))
           \/ pc = "finish" /\ pc' = "fulfil" /\ cmd' = cmd /\ executingRx' = executingRx
           \/ pc = "fulfil" /\ pc' = "pop" /\ executingRx' = executingRx
    BY <1>5 DEF NoCommand, WakeUp, Settle, Finish, Fulfil, Counted, mutexVars, history
  <2>2. InHand = {} /\ InHand' = {} /\ Waiting' = Waiting
    BY <2>1 DEF InHand, Waiting
  <2>3. executingRx' = 0
    BY <1>0, <2>1 DEF Counts, RxAccounting, Smaller
  <2>4. Typed'
    BY <1>0, <2>1, <2>3 DEF Counts, Typed, Places, Holding, Executing
  <2>5. Ordered'
    BY <2>1, <2>2 DEF Counts, Ordered
  <2>6. RxAccounting'
    BY <2>1, <2>2, <2>3 DEF Counts, RxAccounting, Waiting
  <2> QED
    BY <2>1, <2>2, <2>4, <2>5, <2>6 DEF Counts, LedgerMoves, NoBytes
<1> QED
  BY <1>1, <1>2, <1>3, <1>4, <1>5 DEF Worker, Throw

-----------------------------------------------------------------------------
(* The theorems                                                             *)

\* A new worker has no byte anywhere.
LEMMA InitCounts == WorkerAssumption /\ Init => IInv
<1> SUFFICES ASSUME WorkerAssumption, Init PROVE IInv
  OBVIOUS
<1>1. commands = <<>> /\ commands \in Seq(CommandType) /\ QueuedBytes(commands) = {}
  BY DEF Init, QueuedBytes
<1>2. Waiting = {} /\ InHand = {}
  BY <1>1 DEF Init, Waiting, InHand
<1>3. Typed
  BY <1>1 DEF Init, Typed, Places, Holding, Executing
<1>4. Ordered
  BY <1>1, <1>2 DEF Init, Ordered, InOrder, Before
<1>5. RxAccounting
  BY <1>1, <1>2, FS_EmptySet DEF Init, RxAccounting, Waiting
<1>6. Halting
  BY DEF Init, Halting
<1> QED
  BY <1>3, <1>4, <1>5, <1>6 DEF IInv, Counts

\* A stopping application starts no call that posts a command, and the thread leaves between two
\* commands.
LEMMA HaltingKept == Halting /\ Next => Halting'
<1> SUFFICES ASSUME Halting, Next PROVE Halting'
  OBVIOUS
<1> USE DEF Halting
<1>1. ASSUME NEW c, NEW next, PushCommand(c, next), ~stopping PROVE Halting'
  BY <1>1 DEF PushCommand, workerVars
<1>2. CASE Post \/ PostReset \/ \E c \in Conns : PostOpen(c) \/ PostClose(c)
  BY <1>1, <1>2 DEF Post, PostReset, PostOpen, PostClose
<1>3. CASE \/ \E c \in Configs : Configure(c)
           \/ \E op \in {"sync", "toggle", "idle"} : Await(op)
           \/ \E op \in {"clear", "reload"} : ClearOutputs(op)
  BY <1>1, <1>3 DEF Configure, Await, ClearOutputs
<1>4. CASE \/ \E conn \in Conns \cup {Detached}, n \in 1 .. MaxChunk, merge \in BOOLEAN :
               PushBytes(conn, n, merge)
           \/ \E conn \in Conns, n \in 1 .. MaxChunk : TryPushBytes(conn, n)
  <2>1. ~stopping /\ UNCHANGED <<stopping, executing, pc>>
    BY <1>4 DEF PushBytes, TryPushBytes, workerVars
  <2> QED
    BY <2>1
<1>5. CASE RequestStop
  BY <1>5 DEF RequestStop, AppIdle, workerVars, history
<1>6. CASE IdleAfterPush \/ PostLoad
  BY <1>6 DEF IdleAfterPush, PostLoad, workerVars
<1>7. CASE Signal
  BY <1>7 DEF Signal, workerVars, history
<1>8. CASE CheckRxQueue \/ RxWake \/ RxSpuriousWake
  BY <1>8 DEF CheckRxQueue, RxWake, RxSpuriousWake, workerVars, history
<1>9. CASE \/ AwaitReturns \/ AwaitTimesOut \/ ClearReturns \/ LoadReturns
           \/ Join \/ Joined \/ Stopped
  BY <1>9 DEF AwaitReturns, AwaitTimesOut, ClearReturns, AwaitingClear, LoadReturns, Join, Joined,
     Stopped, vars, mutexVars, workerVars, appVars
<1>10. CASE DiscardWhileWaiting \/ ClearStopped \/ NotifyStop \/ Pump
  BY <1>10 DEF DiscardWhileWaiting, ClearStopped, NotifyStop, Pump, Drain, workerVars, appVars
<1>11. CASE PopCommand \/ NoCommand \/ WakeUp \/ Settle \/ Finish \/ Fulfil
  BY <1>11 DEF PopCommand, NoCommand, WakeUp, Settle, Finish, Fulfil, mutexVars, appVars
<1>12. CASE \/ RunBytes \/ RunIdle \/ RunConfigure \/ RunReset \/ RunClear \/ RunLoadClear
            \/ Throw \/ PublishOutputs
  BY <1>12 DEF RunBytes, RunIdle, RunConfigure, RunReset, RunClear, RunLoadClear, Throw,
     ThrowOnBytes, ThrowElsewhere, PublishOutputs, Running, mutexVars, appVars
<1>13. CASE \E emits \in BOOLEAN : RunCallback(emits) \/ RunClose(emits) \/ RunLoad(emits)
  BY <1>13 DEF RunCallback, RunClose, RunLoad, Running, appVars
<1>14. CASE Submit
  <2> HIDE DEF Halting
  <2> QED
    BY <1>2, <1>3, <1>4, <1>5, <1>14 DEF Submit
<1>15. CASE App
  <2> HIDE DEF Halting
  <2> QED
    BY <1>6, <1>7, <1>8, <1>9, <1>10, <1>14, <1>15 DEF App, Continue
<1>16. CASE Worker
  <2> HIDE DEF Halting
  <2> QED
    BY <1>11, <1>12, <1>13, <1>16 DEF Worker
<1> HIDE DEF Halting
<1> QED
  BY <1>9, <1>12, <1>15, <1>16 DEF Next

\* Every step keeps the invariant.
LEMMA NextCounts == WorkerAssumption /\ IInv /\ [Next]_vars => IInv'
<1> SUFFICES ASSUME WorkerAssumption, IInv, [Next]_vars PROVE IInv'
  OBVIOUS
<1>1. Counts /\ Halting
  BY DEF IInv
<1>2. CASE Next
  <2>1. Counts'
    BY <1>1, <1>2, AppCounts, WorkerCounts DEF Next
  <2> QED
    BY <1>1, <1>2, <2>1, HaltingKept DEF IInv
<1>3. CASE UNCHANGED vars
  <2>1. UNCHANGED <<cfg, commands, pendingRx, executingRx, accepted, issued, parsed, pc, cmd,
                    stopping, executing, at>>
    BY <1>3 DEF vars, mutexVars, workerVars, appVars, history
  <2>2. Counts'
    BY <1>1, <2>1, CountsFrame DEF Counts, Typed
  <2>3. Halting'
    BY <1>1, <2>1 DEF Halting
  <2> QED
    BY <2>2, <2>3 DEF IInv
<1> QED
  BY <1>2, <1>3

\* The invariant holds in every state of the worker.
LEMMA InvariantHolds == Spec => []IInv
<1>1. Init => IInv
  BY WorkerAssumption, InitCounts
<1>2. IInv /\ [Next]_vars => IInv'
  BY WorkerAssumption, NextCounts
<1> QED
  BY <1>1, <1>2, PTL DEF Spec

\* pendingRxBytes and executingRxBytes are the sizes of what is queued or in hand, and of what is
\* executed: no saturating subtraction of the worker ever hides a miscount.
THEOREM CountersExact == Spec => []RxAccounting
<1>1. IInv => RxAccounting
  BY DEF IInv, Counts
<1> QED
  BY <1>1, InvariantHolds, PTL

\* When the thread has left after a stop nothing is queued, counted or executed.
THEOREM EmptyWhenStopped == Spec => []StoppedIsEmpty
<1>1. ASSUME IInv PROVE StoppedIsEmpty
  <2>1. SUFFICES ASSUME pc = "done"
                 PROVE  commands = <<>> /\ pendingRx = 0 /\ executingRx = 0 /\ ~executing
    BY DEF StoppedIsEmpty
  <2>2. commands = <<>> /\ ~executing
    BY <1>1, <2>1 DEF IInv, Halting
  <2>3. QueuedBytes(commands) \cup InHand = {}
    BY <2>1, <2>2 DEF QueuedBytes, InHand
  <2>4. pendingRx = 0 /\ executingRx = 0
    BY <1>1, <2>1, <2>3, FS_EmptySet DEF IInv, Counts, RxAccounting
  <2> QED
    BY <2>2, <2>4
<1> QED
  BY <1>1, InvariantHolds, PTL

-----------------------------------------------------------------------------
(* The refinement                                                           *)

GivenUp == Accepted \ (parsed \cup Waiting)

\* A step that leaves the bytes alone stutters in the ledger.
LEMMA NoBytesStutters == NoBytes => UNCHANGED Ledger!ledger
BY DEF NoBytes, Ledger!ledger, Accepted, Waiting

\* Accepted bytes are the next bytes of the ledger.
LEMMA NewBytesAccept == Counts /\ Counts' /\ NewBytes => Ledger!Accept
<1> SUFFICES ASSUME Counts, Counts', NEW n \in Nat \ {0}, accepted' = accepted + n,
                    Waiting' = Waiting \cup NextBytes(n), parsed' = parsed
             PROVE  Ledger!Accept
  BY DEF NewBytes
<1>1. accepted \in Nat /\ Waiting \subseteq 1 .. accepted /\ parsed \subseteq 1 .. accepted
  BY DEF Counts, Typed, Ordered
<1>2. accepted' \in Nat /\ accepted' > accepted
  BY <1>1
<1>3. NextBytes(n) = (accepted + 1) .. accepted'
  BY DEF NextBytes
<1>4. GivenUp' = GivenUp
  BY <1>1, <1>3 DEF GivenUp, Accepted
<1> QED
  BY <1>2, <1>3, <1>4 DEF Ledger!Accept, GivenUp, Waiting

\* What is taken from the front is delivered, or dropped.
LEMMA FrontBytesLeave ==
    Counts /\ FrontBytes => \E S \in SUBSET Waiting : Ledger!Deliver(S) \/ Ledger!Drop(S)
<1> SUFFICES ASSUME Counts, NEW S \in SUBSET Waiting, Before(S, Waiting \ S),
                    Waiting' = Waiting \ S, accepted' = accepted,
                    parsed' \in {parsed, parsed \cup S}
             PROVE  Ledger!Deliver(S) \/ Ledger!Drop(S)
  BY DEF FrontBytes
<1>1. /\ accepted \in Nat /\ Waiting \subseteq 1 .. accepted /\ parsed \subseteq 1 .. accepted
      /\ Before(parsed, Waiting) /\ Waiting \subseteq Nat
  BY DEF Counts, Typed, Ordered
<1>2. parsed \cap Waiting = {}
  <2>1. parsed \subseteq Nat
    BY <1>1
  <2> QED
    BY <1>1, <2>1, BeforeApart
<1>3. Ledger!Front(S)
  BY DEF Ledger!Front, Before, Waiting
<1>4. CASE parsed' = parsed \cup S
  <2>1. GivenUp' = GivenUp
    BY <1>4 DEF GivenUp, Accepted
  <2>2. \A b \in S, d \in parsed : d < b
    BY <1>1 DEF Before
  <2> QED
    BY <1>3, <1>4, <2>1, <2>2 DEF Ledger!Deliver, GivenUp, Waiting
<1>5. CASE parsed' = parsed
  <2>1. GivenUp' = GivenUp \cup S
    BY <1>1, <1>2, <1>5 DEF GivenUp, Accepted
  <2> QED
    BY <1>3, <1>5, <2>1 DEF Ledger!Drop, GivenUp, Waiting
<1> QED
  BY <1>4, <1>5

\* Every step of the worker is a step of the ledger or leaves it alone.
LEMMA LedgerStep ==
    WorkerAssumption /\ IInv /\ IInv' /\ [Next]_vars => [Ledger!Next]_(Ledger!ledger)
<1> SUFFICES ASSUME WorkerAssumption, IInv, IInv', [Next]_vars
             PROVE  [Ledger!Next]_(Ledger!ledger)
  OBVIOUS
<1>1. Counts /\ Counts'
  BY DEF IInv
<1>2. LedgerMoves
  <2>1. CASE Next
    BY <1>1, <2>1, AppCounts, WorkerCounts DEF Next
  <2>2. CASE UNCHANGED vars
    BY <2>2 DEF vars, mutexVars, workerVars, history, LedgerMoves, NoBytes, Waiting, InHand,
       QueuedBytes
  <2> QED
    BY <2>1, <2>2
<1>3. CASE NoBytes
  BY <1>3, NoBytesStutters
<1>4. CASE NewBytes
  BY <1>1, <1>4, NewBytesAccept DEF Ledger!Next
<1>5. CASE FrontBytes
  BY <1>1, <1>5, FrontBytesLeave DEF Ledger!Next, Waiting
<1> QED
  BY <1>2, <1>3, <1>4, <1>5 DEF LedgerMoves

\* The worker implements the ledger of received bytes: whatever is posted, closed, reset, reloaded,
\* stopped or thrown, each byte reaches the host at most once, in the order of arrival, and not
\* after it was given up.
THEOREM ImplementsTheLedger == Spec => ImplementsLedger
<1>1. Init => Ledger!Init
  BY DEF Init, Ledger!Init, InHand, QueuedBytes, Accepted
<1>2. IInv /\ IInv' /\ [Next]_vars => [Ledger!Next]_(Ledger!ledger)
  BY WorkerAssumption, LedgerStep
<1> QED
  BY <1>1, <1>2, InvariantHolds, PTL DEF Spec, ImplementsLedger, Ledger!Spec

-----------------------------------------------------------------------------
(* The invariant behind what the calls rely on                              *)

\* The outputs that are queued or on their way there; a thread that runs a command says so.
Produced ==
    /\ accepted <= MaxBytes /\ outputs \in Seq(SUBSET (1 .. MaxBytes))
    /\ out \in (SUBSET (1 .. MaxBytes)) \cup {None}
    /\ pc \in {"publish", "outWait"} => cmd.rx \subseteq 1 .. MaxBytes
    /\ pc \in {"publish", "outWait"} /\ out # None => out \subseteq cmd.rx
    /\ pc \in Executing \cup {"finish"} => executing
    /\ pc = "failed" => failed

\* Bytes whose output the worker is about to publish.
Carried == IF pc \in {"publish", "outWait"} /\ out # None THEN out ELSE {}

\* Where a byte can be, for the script and for the application.
Traced ==
    /\ Accepted \subseteq parsed \cup lost \cup Waiting
    /\ Accepted \subseteq seen \cup lost \cup Waiting \cup Carried \cup InOutputs(outputs)

\* Tickets grow along the queue; a chunk has the ticket of the command after it.
UpTo(q, n) == \A i \in 1 .. Len(q) : q[i].ticket <= n
Above(q, n) == \A i \in 1 .. Len(q) : n < q[i].ticket
Numbers(q, n) ==
    /\ UpTo(q, n + 1) /\ \A i \in 1 .. Len(q) : q[i].op # "bytes" => q[i].ticket <= n
    /\ \A i, j \in 1 .. Len(q) : i < j /\ q[i].op # "bytes" => q[i].ticket < q[j].ticket

Resumes == {"idle", "await", "awaitIdle", "rxCheck", "idleCall", "awaitClear", "awaitReload",
            "awaitLoad"}
Numbered ==
    /\ answered \subseteq 0 .. issued /\ Numbers(commands, issued)
    /\ pc \in Holding /\ cmd.op # "bytes" => cmd.ticket <= issued /\ Above(commands, cmd.ticket)
    /\ resume \in Resumes

\* The application is in a call and comes to the place "next".
Calling(next) == at = next \/ (at = "signal" /\ resume = next)

\* The command that the application waits for is the last one, and not answered.
Asked(op) ==
    /\ ticket \notin answered
    /\ \/ \E i \in 1 .. Len(commands) : commands[i].op = op /\ commands[i].ticket = ticket
       \/ commands = <<>> /\ pc \in Holding /\ cmd.op = op /\ cmd.ticket = ticket

\* waitIdle: its command is on its way, or nothing is left.
Idling ==
    Calling("awaitIdle") =>
        /\ ticket = issued /\ UpTo(commands, issued)
        /\ Asked("idle") \/ (commands = <<>> /\ pc \notin Holding)

\* A reload: its clear is on its way, or nothing is left and no callback runs.
Clearing ==
    (Calling("awaitReload") \/ at = "load") /\ ~failed =>
        /\ ticket = issued /\ UpTo(commands, issued)
        /\ \/ at # "load" /\ Asked("clear") /\ (commands = <<>> => pc = "run")
           \/ /\ commands = <<>> /\ outputs = <<>> /\ out = None /\ ticket \in answered
              /\ pc \notin {"run", "loading"}

Calls == Numbered /\ Idling /\ Clearing
CallsInv == IInv /\ Produced /\ Traced /\ Calls

-----------------------------------------------------------------------------
(* Tickets along a queue                                                    *)

\* A command that is posted has the highest ticket.
LEMMA PostTickets ==
    ASSUME NEW q \in Seq(CommandType), NEW c \in CommandType, NEW n \in Nat,
           c.ticket = n + 1, Numbers(q, n)
    PROVE  LET d == Append(q, c)
           IN  /\ UpTo(d, n + 1) /\ d # <<>>
               /\ c.op # "bytes" => Numbers(d, n + 1)
               /\ c.op = "bytes" => Numbers(d, n)
               /\ \A m \in Nat : m <= n /\ Above(q, m) => Above(d, m)
               /\ \E i \in 1 .. Len(d) : d[i] = c
<1> DEFINE d == Append(q, c)
<1>1. /\ Len(q) \in Nat /\ Len(d) = Len(q) + 1 /\ \A i \in 1 .. Len(q) : d[i] = q[i]
      /\ d[Len(q) + 1] = c
  BY AppendProperties, LenProperties
<1>2. \A i \in 1 .. Len(q) : q[i] \in CommandType /\ q[i].ticket \in Nat
  BY LenProperties DEF CommandType
<1> HIDE DEF d
<1>3. \A i \in 1 .. Len(d) : i \in 1 .. Len(q) \/ d[i] = c
  BY <1>1
<1>4. UpTo(d, n + 1) /\ UpTo(d, (n + 1) + 1)
  BY <1>1, <1>2, <1>3 DEF Numbers, UpTo
<1>5. \A i, j \in 1 .. Len(d) : i < j /\ d[i].op # "bytes" => d[i].ticket < d[j].ticket
  <2> SUFFICES ASSUME NEW i \in 1 .. Len(d), NEW j \in 1 .. Len(d), i < j, d[i].op # "bytes"
               PROVE  d[i].ticket < d[j].ticket
    OBVIOUS
  <2>1. i \in 1 .. Len(q) /\ d[i] = q[i]
    BY <1>1
  <2> QED
    BY <1>1, <1>2, <1>3, <2>1 DEF Numbers
<1>6. \A i \in 1 .. Len(d) : d[i].op # "bytes" => d[i].ticket <= n + 1 /\ (d[i].ticket <= n \/ d[i] = c)
  BY <1>1, <1>2, <1>3 DEF Numbers
<1>7. ASSUME NEW m \in Nat, m <= n, Above(q, m) PROVE Above(d, m)
  BY <1>1, <1>3, <1>7 DEF Above
<1>8. d[Len(q) + 1] = c /\ Len(q) + 1 \in 1 .. Len(d) /\ Len(d) # 0
  BY <1>1
<1>9. d # <<>>
  BY <1>8
<1> QED
  BY <1>4, <1>5, <1>6, <1>7, <1>8, <1>9 DEF Numbers, d

\* A chunk that is appended or merged keeps the order of the tickets.
LEMMA EnqueueTickets ==
    ASSUME commands \in Seq(CommandType), issued \in Nat, Numbers(commands, issued),
           NEW conn \in Conns \cup {Detached}, NEW A \in SUBSET Nat, NEW merge
    PROVE  LET d == Enqueue(conn, A, merge)
           IN  /\ Numbers(d, issued)
               /\ \A m \in Nat : m <= issued /\ Above(commands, m) => Above(d, m)
<1> DEFINE c == Command("bytes", conn, A, None)
           n == Len(commands)
           last == [commands[n] EXCEPT !.rx = @ \cup A]
           e == [commands EXCEPT ![n] = last]
<1>1. c \in CommandType /\ c.ticket = issued + 1 /\ c.op = "bytes"
  BY DEF Command, CommandType, CommandOps
<1>2. CASE Enqueue(conn, A, merge) = Append(commands, c)
  <2> HIDE DEF c
  <2> QED
    BY <1>1, <1>2, PostTickets
<1>3. CASE commands # <<>> /\ commands[n].op = "bytes" /\ Enqueue(conn, A, merge) = e
  <2>1. n \in Nat \ {0} /\ n \in 1 .. n /\ commands[n] \in CommandType
    BY <1>3, EmptySeq, LenProperties, ElementOfSeq
  <2>2. last \in CommandType /\ last.op = commands[n].op /\ last.ticket = commands[n].ticket
    BY <1>3, <2>1 DEF CommandType
  <2>3. /\ Len(e) = n /\ \A i \in 1 .. n : e[i] = IF i = n THEN last ELSE commands[i]
    BY <2>1, <2>2, ExceptSeq
  <2> HIDE DEF e, last
  <2>4. \A i \in 1 .. n : e[i].op = commands[i].op /\ e[i].ticket = commands[i].ticket
    BY <2>2, <2>3
  <2>5. Numbers(e, issued)
    BY <2>3, <2>4 DEF Numbers, UpTo
  <2>6. \A m \in Nat : Above(commands, m) => Above(e, m)
    BY <2>3, <2>4 DEF Above
  <2> QED
    BY <1>3, <2>5, <2>6
<1> QED
  BY <1>2, <1>3 DEF Enqueue

\* What is left behind the head; behind the last ticket there is nothing.
LEMMA HeadTickets ==
    ASSUME NEW q \in Seq(CommandType), q # <<>>, NEW n \in Nat, Numbers(q, n)
    PROVE  /\ Head(q) \in CommandType /\ Numbers(Tail(q), n)
           /\ \A m : UpTo(q, m) => UpTo(Tail(q), m)
           /\ Head(q).op # "bytes" => Head(q).ticket <= n /\ Above(Tail(q), Head(q).ticket)
           /\ Head(q).op # "bytes" /\ UpTo(q, Head(q).ticket) => Tail(q) = <<>>
           /\ \A i \in 1 .. Len(q) :
                 q[i] = Head(q) \/ \E j \in 1 .. Len(Tail(q)) : Tail(q)[j] = q[i]
<1> DEFINE t == Tail(q)
<1>1. /\ Head(q) \in CommandType /\ t \in Seq(CommandType) /\ Len(q) \in Nat \ {0}
      /\ Len(t) = Len(q) - 1 /\ Len(t) \in Nat
      /\ \A i \in 1 .. Len(t) : t[i] = q[i + 1]
      /\ Head(q) = q[1]
  BY HeadTailProperties, EmptySeq, LenProperties
<1> HIDE DEF t
<1>2. \A i \in 1 .. Len(t) : i + 1 \in 1 .. Len(q) /\ t[i] = q[i + 1] /\ 1 < i + 1
  BY <1>1
<1>3. 1 \in 1 .. Len(q) /\ Head(q).ticket \in Nat
  BY <1>1 DEF CommandType
<1>4. \A m : UpTo(q, m) => UpTo(t, m)
  BY <1>2 DEF UpTo
<1>5. Numbers(t, n)
  <2>1. ASSUME NEW i \in 1 .. Len(t), NEW j \in 1 .. Len(t), i < j, t[i].op # "bytes"
        PROVE  t[i].ticket < t[j].ticket
    <3>1. i + 1 < j + 1
      BY <1>1, <2>1
    <3> QED
      BY <1>2, <2>1, <3>1 DEF Numbers
  <2> QED
    BY <1>2, <1>4, <2>1 DEF Numbers
<1>6. Head(q).op # "bytes" => Head(q).ticket <= n /\ Above(t, Head(q).ticket)
  BY <1>1, <1>2, <1>3 DEF Numbers, Above
<1>7. ASSUME Head(q).op # "bytes", UpTo(q, Head(q).ticket) PROVE t = <<>>
  <2>1. \A i \in 1 .. Len(t) : FALSE
    <3> SUFFICES ASSUME NEW i \in 1 .. Len(t) PROVE FALSE
      OBVIOUS
    <3>1. t[i].ticket \in Nat
      BY <1>1 DEF CommandType
    <3>2. Head(q).ticket < t[i].ticket /\ t[i].ticket <= Head(q).ticket
      BY <1>4, <1>6, <1>7 DEF Above, UpTo
    <3> QED
      BY <1>3, <3>1, <3>2
  <2>2. Len(t) = 0
    BY <1>1, <2>1
  <2> QED
    BY <1>1, <2>2, EmptySeq
<1>8. ASSUME NEW i \in 1 .. Len(q), i # 1 PROVE \E j \in 1 .. Len(t) : t[j] = q[i]
  <2>1. i - 1 \in 1 .. Len(t) /\ t[i - 1] = q[i]
    BY <1>1, <1>8
  <2> QED
    BY <2>1
<1> QED
  BY <1>1, <1>4, <1>5, <1>6, <1>7, <1>8 DEF t

\* Clearing the bytes keeps every other command, in its place.
LEMMA ClearedTickets ==
    ASSUME NEW q \in Seq(CommandType), NEW n \in Nat, Numbers(q, n)
    PROVE  LET w == WithoutBytes(q)
           IN  /\ Numbers(w, n)
               /\ \A m : UpTo(q, m) => UpTo(w, m)
               /\ \A m : Above(q, m) => Above(w, m)
               /\ \A i \in 1 .. Len(q) : q[i].op # "bytes" => \E j \in 1 .. Len(w) : w[j] = q[i]
               /\ q = <<>> => w = <<>>
<1> DEFINE S == {i \in DOMAIN q : q[i].op # "bytes"}
           w == WithoutBytes(q)
<1>1. /\ w \in Seq(CommandType) /\ Len(w) = Cardinality(S)
      /\ \A i \in 1 .. Cardinality(S) : w[i] = q[Nth(S, i)] /\ Nth(S, i) \in S
      /\ \A j \in S : \E i \in 1 .. Cardinality(S) : w[i] = q[j]
      /\ \A i, j \in 1 .. Cardinality(S) : i < j => Nth(S, i) < Nth(S, j)
  <2>1. S \in SUBSET (DOMAIN q) /\ w = Pick(q, S)
    BY DEF WithoutBytes
  <2> HIDE DEF S, w
  <2> QED
    BY <2>1, PickProperties
<1>2. DOMAIN q = 1 .. Len(q)
  BY LenProperties
<1>3. \A i \in 1 .. Len(w) : Nth(S, i) \in 1 .. Len(q) /\ w[i] = q[Nth(S, i)]
  BY <1>1, <1>2
<1>4. \A i \in 1 .. Len(q) : q[i].op # "bytes" => i \in S
  BY <1>2
<1>5. q = <<>> => w = <<>>
  <2> SUFFICES ASSUME q = <<>> PROVE w = <<>>
    OBVIOUS
  <2>1. S = {}
    OBVIOUS
  <2>2. Len(w) = 0
    BY <1>1, <2>1, FS_EmptySet
  <2> QED
    BY <1>1, <2>2, EmptySeq
<1> HIDE DEF w, S
<1>6. \A m : UpTo(q, m) => UpTo(w, m)
  BY <1>3 DEF UpTo
<1>7. \A m : Above(q, m) => Above(w, m)
  BY <1>3 DEF Above
<1>8. Numbers(w, n)
  <2>1. UpTo(w, n + 1)
    BY <1>6 DEF Numbers
  <2>2. \A i \in 1 .. Len(w) : w[i].op # "bytes" => w[i].ticket <= n
    BY <1>3 DEF Numbers
  <2>3. ASSUME NEW i \in 1 .. Len(w), NEW j \in 1 .. Len(w), i < j, w[i].op # "bytes"
        PROVE  w[i].ticket < w[j].ticket
    <3>1. Nth(S, i) < Nth(S, j)
      BY <1>1, <2>3
    <3> QED
      BY <1>3, <2>3, <3>1 DEF Numbers
  <2> QED
    BY <2>1, <2>2, <2>3 DEF Numbers
<1> QED
  BY <1>1, <1>4, <1>5, <1>6, <1>7, <1>8 DEF w

-----------------------------------------------------------------------------
(* The application                                                          *)

\* A command is posted, by a call that waits for it or by one that does not.
LEMMA CallsPosted ==
    ASSUME Counts, Calls, NEW c \in CommandType, c.op # "bytes", c.ticket = issued + 1,
           commands' = Append(commands, c), issued' = issued + 1,
           at' = "signal", resume' \in Resumes,
           resume' = "awaitIdle" => c.op = "idle" /\ ticket' = issued + 1,
           resume' = "awaitReload" => c.op = "clear" /\ ticket' = issued + 1,
           UNCHANGED <<answered, pc, cmd>>
    PROVE  Calls'
<1>1. issued \in Nat /\ commands \in Seq(CommandType) /\ (pc \in Holding => cmd \in CommandType)
  BY DEF Counts, Typed
<1>2. Numbers(commands, issued) /\ answered \subseteq 0 .. issued
  BY DEF Calls, Numbered
<1>3. /\ UpTo(commands', issued + 1) /\ commands' # <<>> /\ Numbers(commands', issued + 1)
      /\ \A m \in Nat : m <= issued /\ Above(commands, m) => Above(commands', m)
      /\ \E i \in 1 .. Len(commands') : commands'[i] = c
  BY <1>1, <1>2, PostTickets
<1>4. Numbered'
  <2>1. ASSUME pc \in Holding, cmd.op # "bytes"
        PROVE  cmd.ticket <= issued + 1 /\ Above(commands', cmd.ticket)
    <3>1. cmd.ticket \in Nat /\ cmd.ticket <= issued /\ Above(commands, cmd.ticket)
      BY <1>1, <2>1 DEF Calls, Numbered, CommandType
    <3> QED
      BY <1>1, <1>3, <3>1
  <2>2. answered' \subseteq 0 .. issued'
    BY <1>1, <1>2
  <2> QED
    BY <1>3, <2>1, <2>2 DEF Numbered
<1>5. issued + 1 \notin answered
  BY <1>1, <1>2
<1>6. Idling'
  BY <1>3, <1>5 DEF Idling, Calling, Asked
<1>7. Clearing'
  BY <1>3, <1>5 DEF Clearing, Calling, Asked
<1> QED
  BY <1>4, <1>6, <1>7 DEF Calls

\* Bytes are accepted by a call that waits neither for idleness nor for a clear.
LEMMA CallsEnqueued ==
    ASSUME Counts, Calls, NEW conn \in Conns \cup {Detached}, NEW A \in SUBSET Nat, NEW merge,
           commands' = Enqueue(conn, A, merge),
           at' = "signal", resume' \in {"idle", "rxCheck", "idleCall"},
           UNCHANGED <<issued, answered, pc, cmd>>
    PROVE  Calls'
<1>1. issued \in Nat /\ commands \in Seq(CommandType) /\ (pc \in Holding => cmd \in CommandType)
  BY DEF Counts, Typed
<1>2. /\ Numbers(commands', issued)
      /\ \A m \in Nat : m <= issued /\ Above(commands, m) => Above(commands', m)
  BY <1>1, EnqueueTickets DEF Calls, Numbered
<1>3. Numbered'
  <2>1. ASSUME pc \in Holding, cmd.op # "bytes"
        PROVE  cmd.ticket <= issued /\ Above(commands', cmd.ticket)
    <3>1. cmd.ticket \in Nat /\ cmd.ticket <= issued /\ Above(commands, cmd.ticket)
      BY <1>1, <2>1 DEF Calls, Numbered, CommandType
    <3> QED
      BY <1>2, <3>1
  <2> QED
    BY <1>2, <2>1 DEF Calls, Numbered, Resumes
<1> QED
  BY <1>3 DEF Calls, Idling, Clearing, Calling

\* A step that leaves the queue alone keeps what is said of calls if it keeps the application in
\* its call, or brings it where it waits for nothing.
LEMMA CallsKept ==
    ASSUME Calls, at' \notin {"signal", "awaitIdle", "awaitReload", "load"} \/ at' = at,
           UNCHANGED <<commands, issued, answered, pc, cmd, resume, ticket, failed, out>>,
           outputs' = outputs \/ outputs' = <<>> \/ ~(Calling("awaitReload") \/ at = "load")
    PROVE  Calls'
<1>1. Numbered'
  BY DEF Calls, Numbered
<1>2. Idling'
  BY DEF Calls, Idling, Calling, Asked
<1>3. Clearing'
  BY DEF Calls, Clearing, Calling, Asked
<1> QED
  BY <1>1, <1>2, <1>3 DEF Calls

\* New work is submitted between two calls.
LEMMA SubmitCalls == WorkerAssumption /\ Counts /\ Calls /\ Submit => Calls'
<1> SUFFICES ASSUME WorkerAssumption, Counts, Calls, Submit PROVE Calls'
  OBVIOUS
<1>0. issued \in Nat /\ accepted \in Nat /\ pendingRx \in Nat /\ cfg \in Configs
  BY DEF Counts, Typed
<1>1. ASSUME NEW c \in CommandType, c.op # "bytes", c.ticket = issued + 1,
             NEW next \in Resumes \ {"awaitIdle", "awaitReload"}, PushCommand(c, next)
      PROVE  Calls'
  BY <1>1, CallsPosted DEF PushCommand, SignalThen, workerVars
<1>2. CASE Post
  <2>1. PushCommand(Command("post", None, {}, None), "idle")
    BY <1>2 DEF Post
  <2> QED
    BY <1>0, <1>1, <2>1, CommandTyped DEF CommandOps, Command, Resumes
<1>3. CASE PostReset
  <2>1. PushCommand(Command("reset", None, {}, None), "idle")
    BY <1>3 DEF PostReset
  <2> QED
    BY <1>0, <1>1, <2>1, CommandTyped DEF CommandOps, Command, Resumes
<1>4. ASSUME NEW c \in Conns, PostOpen(c) PROVE Calls'
  <2>1. PushCommand(Command("open", c, {}, None), "idle")
    BY <1>4 DEF PostOpen
  <2> QED
    BY <1>0, <1>1, <2>1, CommandTyped DEF CommandOps, Command, Resumes
<1>5. ASSUME NEW c \in Conns, PostClose(c) PROVE Calls'
  <2>1. PushCommand(Command("close", c, {}, None), "idle")
    BY <1>5 DEF PostClose
  <2> QED
    BY <1>0, <1>1, <2>1, CommandTyped DEF CommandOps, Command, Resumes
<1>6. ASSUME NEW c \in Configs, Configure(c) PROVE Calls'
  <2>1. PushCommand(Command("configure", None, {}, c), "idle")
    BY <1>6 DEF Configure
  <2>2. Command("configure", None, {}, c) \in CommandType
    BY <1>0 DEF Command, CommandType, CommandOps
  <2> QED
    BY <1>1, <2>1, <2>2 DEF Command, Resumes
<1>7. ASSUME NEW op \in {"sync", "toggle", "idle"}, Await(op) PROVE Calls'
  <2> DEFINE c == Command(op, None, {}, None)
  <2>1. /\ PushCommand(c, IF op = "idle" THEN "awaitIdle" ELSE "await") /\ ticket' = issued + 1
    BY <1>7 DEF Await
  <2>2. c \in CommandType /\ c.op = op /\ c.op # "bytes" /\ c.ticket = issued + 1
    <3>1. op \in CommandOps \ {"bytes", "configure"}
      BY DEF CommandOps
    <3> QED
      BY <1>0, <3>1, CommandTyped DEF Command
  <2> HIDE DEF c
  <2> QED
    BY <2>1, <2>2, CallsPosted DEF PushCommand, SignalThen, workerVars, Resumes
<1>8. ASSUME NEW op \in {"clear", "reload"}, ClearOutputs(op) PROVE Calls'
  <2> DEFINE c == Command("clear", None, {}, None)
  <2>1. /\ PushCommand(c, IF op = "clear" THEN "awaitClear" ELSE "awaitReload")
        /\ ticket' = issued + 1
    BY <1>8 DEF ClearOutputs
  <2>2. c \in CommandType /\ c.op = "clear" /\ c.ticket = issued + 1
    BY <1>0, CommandTyped DEF Command, CommandOps
  <2> HIDE DEF c
  <2> QED
    BY <2>1, <2>2, CallsPosted DEF PushCommand, SignalThen, workerVars, Resumes
<1>9. ASSUME NEW conn \in Conns \cup {Detached}, NEW n \in 1 .. MaxChunk, NEW merge \in BOOLEAN,
             PushBytes(conn, n, merge)
      PROVE  Calls'
  <2>1. NextBytes(n) \in SUBSET Nat
    BY <1>0 DEF NextBytes, WorkerAssumption
  <2>2. /\ commands' = Enqueue(conn, NextBytes(n), merge)
        /\ at' = "signal" /\ resume' \in {"rxCheck", "idleCall"}
        /\ UNCHANGED <<issued, answered, pc, cmd>>
    BY <1>9 DEF PushBytes, SignalThen, workerVars
  <2> QED
    BY <2>1, <2>2, CallsEnqueued
<1>10. ASSUME NEW conn \in Conns, NEW n \in 1 .. MaxChunk, TryPushBytes(conn, n)
       PROVE  Calls'
  <2> DEFINE count == AcceptablePrefix(n)
  <2>1. count \in Nat
    BY <1>0, WatermarkTyped DEF WorkerAssumption, AcceptablePrefix, Smaller
  <2>2. /\ commands' = IF count > 0 THEN Enqueue(conn, NextBytes(count), FALSE) ELSE commands
        /\ at = "idle"
        /\ \/ at' = "signal" /\ resume' = "idle"
           \/ count <= 0 /\ UNCHANGED <<at, resume>>
        /\ UNCHANGED <<issued, answered, pc, cmd, ticket, failed, out>>
    BY <1>10, <2>1 DEF TryPushBytes, AppIdle, SignalThen, workerVars
  <2>3. NextBytes(count) \in SUBSET Nat
    BY <1>0, <2>1 DEF NextBytes
  <2> HIDE DEF count
  <2>4. CASE count > 0
    <3>1. /\ commands' = Enqueue(conn, NextBytes(count), FALSE) /\ ~(count <= 0)
      BY <2>1, <2>2, <2>4
    <3> QED
      BY <2>2, <2>3, <3>1, CallsEnqueued
  <2>5. CASE ~(count > 0)
    <3>1. commands' = commands /\ ~Calling("awaitIdle")' /\ ~Calling("awaitReload")' /\ at' # "load"
      BY <2>2, <2>5 DEF Calling
    <3>2. resume' \in Resumes
      BY <2>2 DEF Calls, Numbered, Resumes
    <3>3. Numbered'
      BY <2>2, <3>1, <3>2 DEF Calls, Numbered
    <3> QED
      BY <3>1, <3>3 DEF Calls, Idling, Clearing
  <2> QED
    BY <2>4, <2>5
<1>11. CASE RequestStop
  BY <1>11, CallsKept DEF RequestStop, AppIdle, workerVars, history, Calling
<1> QED
  BY <1>2, <1>3, <1>4, <1>5, <1>6, <1>7, <1>8, <1>9, <1>10, <1>11 DEF Submit

\* The rest of a call.
LEMMA AppCalls == WorkerAssumption /\ Counts /\ Calls /\ (App \/ Stopped) => Calls'
<1> SUFFICES ASSUME WorkerAssumption, Counts, Calls, App \/ Stopped PROVE Calls'
  OBVIOUS
<1>0. issued \in Nat
  BY DEF Counts, Typed
<1>1. CASE Submit
  BY <1>1, SubmitCalls
<1>2. ASSUME NEW op \in {"idle", "load"}, issued' = issued + 1, ticket' = issued + 1,
             commands' = Append(commands, Command(op, None, {}, None)), at' = "signal",
             resume' \in {"awaitIdle", "awaitLoad"}, resume' = "awaitIdle" => op = "idle",
             UNCHANGED <<answered, pc, cmd>>
      PROVE  Calls'
  <2> DEFINE c == Command(op, None, {}, None)
  <2>1. c \in CommandType /\ c.op = op /\ c.ticket = issued + 1
    BY <1>0, CommandTyped DEF Command, CommandOps
  <2> HIDE DEF c
  <2> QED
    BY <1>2, <2>1, CallsPosted DEF c, Resumes
<1>3. CASE IdleAfterPush
  BY <1>2, <1>3 DEF IdleAfterPush, SignalThen, workerVars
<1>4. CASE PostLoad
  BY <1>2, <1>4 DEF PostLoad, SignalThen, workerVars
<1>5. CASE Signal
  <2>1. /\ at = "signal" /\ at' = resume /\ resume \in Resumes
        /\ UNCHANGED <<commands, issued, answered, pc, cmd, resume, ticket, failed, out, outputs>>
    BY <1>5 DEF Signal, workerVars, history, Calls, Numbered
  <2>2. Numbered'
    BY <2>1 DEF Calls, Numbered
  <2>3. Idling'
    BY <2>1 DEF Calls, Idling, Calling, Asked, Resumes
  <2>4. Clearing'
    BY <2>1 DEF Calls, Clearing, Calling, Asked, Resumes
  <2> QED
    BY <2>2, <2>3, <2>4 DEF Calls
<1>6. CASE CheckRxQueue \/ RxWake \/ RxSpuriousWake
  BY <1>6, CallsKept DEF CheckRxQueue, RxWake, RxSpuriousWake, workerVars, history, Calling
<1>7. CASE AwaitReturns \/ AwaitTimesOut \/ LoadReturns \/ Join \/ Joined \/ Stopped
  BY <1>7, CallsKept DEF AwaitReturns, AwaitTimesOut, LoadReturns, Join, Joined, Stopped,
     vars, mutexVars, workerVars, appVars, history
<1>8. CASE ClearReturns
  <2>1. /\ at \in {"awaitClear", "awaitReload"} /\ at' = IF at = "awaitClear" THEN "idle" ELSE "load"
        /\ ticket \in answered \/ failed
        /\ UNCHANGED <<commands, issued, answered, pc, cmd, resume, ticket, failed, out, outputs>>
    BY <1>8 DEF ClearReturns, AwaitingClear, mutexVars, workerVars, history
  <2>2. Numbered'
    BY <2>1 DEF Calls, Numbered
  <2>3. Idling'
    BY <2>1 DEF Idling, Calling
  <2>4. Clearing'
    BY <2>1 DEF Calls, Clearing, Calling, Asked
  <2> QED
    BY <2>2, <2>3, <2>4 DEF Calls
<1>9. CASE DiscardWhileWaiting \/ ClearStopped \/ NotifyStop
  BY <1>9, CallsKept DEF DiscardWhileWaiting, ClearStopped, NotifyStop, AppIdle, workerVars, appVars,
     history, Calling
<1>10. CASE Pump
  BY <1>10, CallsKept DEF Pump, Drain, AppIdle, appVars, Calling
<1> QED
  BY <1>1, <1>3, <1>4, <1>5, <1>6, <1>7, <1>8, <1>9, <1>10 DEF App, Continue

-----------------------------------------------------------------------------
(* The worker                                                               *)

\* The worker takes a command.
LEMMA PopCalls == Counts /\ Calls /\ PopCommand => Calls'
<1> SUFFICES ASSUME Counts, Calls, PopCommand PROVE Calls'
  OBVIOUS
<1>1. /\ pc = "pop" /\ commands # <<>> /\ cmd' = Head(commands) /\ commands' = Tail(commands)
      /\ pc' = "run"
      /\ UNCHANGED <<issued, answered, at, resume, ticket, failed, outputs, out>>
  BY DEF PopCommand, appVars, history
<1>2. commands \in Seq(CommandType) /\ issued \in Nat /\ Numbers(commands, issued)
  BY DEF Counts, Typed, Calls, Numbered
<1>3. /\ cmd' \in CommandType /\ Numbers(commands', issued)
      /\ \A m : UpTo(commands, m) => UpTo(commands', m)
      /\ cmd'.op # "bytes" => cmd'.ticket <= issued /\ Above(commands', cmd'.ticket)
      /\ cmd'.op # "bytes" /\ UpTo(commands, cmd'.ticket) => commands' = <<>>
      /\ \A i \in 1 .. Len(commands) :
            commands[i] = cmd' \/ \E j \in 1 .. Len(commands') : commands'[j] = commands[i]
  BY <1>1, <1>2, HeadTickets
<1>4. Numbered'
  BY <1>1, <1>3 DEF Calls, Numbered
<1>5. ASSUME NEW op \in {"idle", "clear"}, Asked(op), ticket = issued, UpTo(commands, issued)
      PROVE  Asked(op)'
  <2>1. PICK i \in 1 .. Len(commands) : commands[i].op = op /\ commands[i].ticket = ticket
    BY <1>1, <1>5 DEF Asked
  <2>2. ASSUME commands[i] = cmd' PROVE commands' = <<>>
    BY <1>3, <1>5, <2>1, <2>2
  <2> QED
    BY <1>1, <1>3, <1>5, <2>1, <2>2 DEF Asked, Holding, Executing
<1>6. Idling'
  BY <1>1, <1>3, <1>5 DEF Calls, Idling, Calling
<1>7. Clearing'
  BY <1>1, <1>3, <1>5 DEF Calls, Clearing, Calling
<1> QED
  BY <1>4, <1>6, <1>7 DEF Calls

\* The worker goes on with its command, answers it, clears bytes that are queued, or has none. The
\* command of waitIdle is answered at its end, and that of a clear with all outputs discarded.
RunsOn ==
    /\ commands' \in {commands, WithoutBytes(commands)}
    /\ \/ answered' = answered
       \/ pc \in Holding /\ cmd.op # "bytes" /\ answered' = answered \cup {cmd.ticket}
    /\ pc' \in Holding => pc \in Holding /\ cmd' = cmd
    /\ pc \in Holding /\ pc' \in Holding /\ cmd.op = "idle" => answered' = answered
    /\ pc = "run" /\ cmd.op = "clear" /\ ~failed' =>
          /\ pc' = "publish" /\ outputs' = <<>> /\ out' = None
          /\ answered' = answered \cup {cmd.ticket}
    /\ pc \notin {"run", "loading"} =>
          pc' \notin {"run", "loading"} /\ (out = None => out' = None /\ outputs' = outputs)
    /\ failed => failed'
    /\ UNCHANGED <<issued, at, resume, ticket>>

\* What is then in the queue: all commands but bytes, those that were not answered still so.
LEMMA RunsOnQueue ==
    ASSUME Counts, Calls, RunsOn
    PROVE  /\ Numbered' /\ (UpTo(commands, issued) => UpTo(commands', issued))
           /\ commands = <<>> => commands' = <<>>
           /\ \A i \in 1 .. Len(commands) : commands[i].op # "bytes" =>
                 /\ \E j \in 1 .. Len(commands') : commands'[j] = commands[i]
                 /\ commands' # <<>>
                 /\ commands[i].ticket \notin answered => commands[i].ticket \notin answered'
<1>1. /\ issued \in Nat /\ commands \in Seq(CommandType) /\ Numbers(commands, issued)
      /\ answered \subseteq 0 .. issued /\ (pc \in Holding => cmd \in CommandType)
      /\ pc \in Holding /\ cmd.op # "bytes" => cmd.ticket <= issued /\ Above(commands, cmd.ticket)
      /\ resume \in Resumes
  BY DEF Counts, Typed, Calls, Numbered
<1>2. /\ Numbers(commands', issued) /\ commands' \in Seq(CommandType)
      /\ \A m : UpTo(commands, m) => UpTo(commands', m)
      /\ \A m : Above(commands, m) => Above(commands', m)
      /\ \A i \in 1 .. Len(commands) : commands[i].op # "bytes" =>
            \E j \in 1 .. Len(commands') : commands'[j] = commands[i]
      /\ commands = <<>> => commands' = <<>>
  <2>1. CASE commands' = commands
    BY <1>1, <2>1
  <2>2. CASE commands' = WithoutBytes(commands)
    BY <1>1, <2>2, ClearedTickets, QueuedNone
  <2> QED
    BY <2>1, <2>2 DEF RunsOn
<1>3. pc \in Holding => cmd.ticket \in Nat
  BY <1>1 DEF CommandType
<1>4. answered' \subseteq 0 .. issued'
  <2>1. issued' = issued
    BY DEF RunsOn
  <2>2. pc \in Holding /\ cmd.op # "bytes" => cmd.ticket \in 0 .. issued
    BY <1>1, <1>3
  <2>3. CASE answered' = answered
    BY <1>1, <2>1, <2>3
  <2>4. CASE pc \in Holding /\ cmd.op # "bytes" /\ answered' = answered \cup {cmd.ticket}
    BY <1>1, <2>1, <2>2, <2>4
  <2> QED
    BY <2>3, <2>4 DEF RunsOn
<1>5. Numbered'
  BY <1>1, <1>2, <1>4 DEF Numbered, RunsOn
<1>6. ASSUME NEW i \in 1 .. Len(commands), commands[i].op # "bytes"
      PROVE  /\ commands' # <<>>
             /\ commands[i].ticket \notin answered => commands[i].ticket \notin answered'
  <2>1. PICK j \in 1 .. Len(commands') : commands'[j] = commands[i]
    BY <1>2, <1>6
  <2>2. commands' # <<>>
    BY <1>2, <2>1, EmptySeq
  <2>3. pc \in Holding /\ cmd.op # "bytes" => cmd.ticket < commands[i].ticket
    BY <1>1 DEF Above
  <2> QED
    BY <1>3, <2>2, <2>3 DEF RunsOn
<1> QED
  BY <1>2, <1>5, <1>6

\* Then the calls find what they wait for.
LEMMA RunsOnCalls ==
    ASSUME Counts, Calls, RunsOn
    PROVE  Calls'
<1>1. /\ Numbered' /\ (UpTo(commands, issued) => UpTo(commands', issued))
      /\ commands = <<>> => commands' = <<>>
      /\ \A i \in 1 .. Len(commands) : commands[i].op # "bytes" =>
            /\ \E j \in 1 .. Len(commands') : commands'[j] = commands[i]
            /\ commands' # <<>>
            /\ commands[i].ticket \notin answered => commands[i].ticket \notin answered'
  BY RunsOnQueue
<1>2. ASSUME NEW op \in {"idle", "clear"}, ticket \notin answered, NEW i \in 1 .. Len(commands),
             commands[i].op = op, commands[i].ticket = ticket
      PROVE  Asked(op)' /\ commands' # <<>>
  <2>1. PICK j \in 1 .. Len(commands') : commands'[j] = commands[i]
    BY <1>1, <1>2
  <2> QED
    BY <1>1, <1>2, <2>1 DEF Asked, RunsOn
<1>3. Idling'
  <2> SUFFICES ASSUME Calling("awaitIdle")
               PROVE  /\ ticket = issued /\ UpTo(commands', issued)
                      /\ Asked("idle")' \/ (commands' = <<>> /\ pc' \notin Holding)
    BY DEF Idling, Calling, RunsOn
  <2>1. /\ ticket = issued /\ UpTo(commands, issued)
        /\ Asked("idle") \/ (commands = <<>> /\ pc \notin Holding)
    BY DEF Calls, Idling
  <2>2. CASE commands = <<>> /\ pc \notin Holding
    BY <1>1, <2>1, <2>2 DEF RunsOn
  <2>3. CASE commands = <<>> /\ Asked("idle") /\ pc \in Holding /\ cmd.op = "idle" /\ cmd.ticket = ticket
    BY <1>1, <2>1, <2>3 DEF Asked, RunsOn
  <2>4. CASE ticket \notin answered /\ \E i \in 1 .. Len(commands) :
                commands[i].op = "idle" /\ commands[i].ticket = ticket
    BY <1>1, <1>2, <2>1, <2>4
  <2> QED
    BY <2>1, <2>2, <2>3, <2>4 DEF Asked
<1>4. Clearing'
  <2> DEFINE Clean == /\ commands = <<>> /\ outputs = <<>> /\ out = None /\ ticket \in answered
                      /\ pc \notin {"run", "loading"}
  <2> SUFFICES ASSUME Calling("awaitReload") \/ at = "load", ~failed'
               PROVE  /\ ticket = issued /\ UpTo(commands', issued)
                      /\ \/ at # "load" /\ Asked("clear")' /\ (commands' = <<>> => pc' = "run")
                         \/ Clean'
    BY DEF Clearing, Calling, RunsOn
  <2>1. /\ ticket = issued /\ UpTo(commands, issued)
        /\ \/ at # "load" /\ Asked("clear") /\ (commands = <<>> => pc = "run")
           \/ Clean
    BY DEF Calls, Clearing, RunsOn
  <2>2. CASE Clean
    BY <1>1, <2>1, <2>2 DEF RunsOn
  <2>3. CASE commands = <<>> /\ pc = "run" /\ cmd.op = "clear" /\ cmd.ticket = ticket
    BY <1>1, <2>1, <2>3 DEF RunsOn
  <2>4. CASE /\ at # "load" /\ ticket \notin answered
             /\ \E i \in 1 .. Len(commands) :
                   commands[i].op = "clear" /\ commands[i].ticket = ticket
    BY <1>1, <1>2, <2>1, <2>4
  <2> QED
    BY <2>1, <2>2, <2>3, <2>4 DEF Asked
<1> QED
  BY <1>1, <1>3, <1>4 DEF Calls

\* Every step of the worker takes a command or is about the one that it has.
LEMMA WorkerRunsOn == Counts /\ (Worker \/ Throw) => PopCommand \/ RunsOn
<1> SUFFICES ASSUME Counts, Worker \/ Throw PROVE PopCommand \/ RunsOn
  OBVIOUS
<1> USE DEF RunsOn, Holding, Executing
<1>0. pc = "loading" => cmd.op = "load"
  BY DEF Counts, Typed
<1>1. CASE NoCommand \/ WakeUp
  BY <1>1 DEF NoCommand, WakeUp, mutexVars, appVars, history
<1>2. CASE RunBytes \/ ThrowOnBytes
  BY <1>2 DEF RunBytes, ThrowOnBytes, Running
<1>3. CASE RunIdle \/ RunConfigure
  BY <1>3 DEF RunIdle, RunConfigure, Running, mutexVars, appVars, history
<1>4. CASE RunReset \/ RunLoadClear
  BY <1>4 DEF RunReset, RunLoadClear, Running, ClearQueuedRx, appVars
<1>5. CASE RunClear
  BY <1>5 DEF RunClear, Running, appVars
<1>6. ASSUME NEW emits \in BOOLEAN, RunCallback(emits) \/ RunClose(emits) \/ RunLoad(emits)
      PROVE  RunsOn
  BY <1>0, <1>6 DEF RunCallback, RunClose, RunLoad, Running, ClearQueuedRx, appVars, history
<1>7. CASE ThrowElsewhere
  BY <1>0, <1>7 DEF ThrowElsewhere, appVars, history
<1>8. CASE PublishOutputs
  BY <1>8 DEF PublishOutputs, appVars
<1>9. CASE Settle \/ Finish \/ Fulfil
  BY <1>9 DEF Settle, Finish, Fulfil, appVars, history
<1> HIDE DEF RunsOn
<1> QED
  BY <1>1, <1>2, <1>3, <1>4, <1>5, <1>6, <1>7, <1>8, <1>9 DEF Worker, Throw

LEMMA WorkerCalls == Counts /\ Calls /\ (Worker \/ Throw) => Calls'
BY WorkerRunsOn, PopCalls, RunsOnCalls

-----------------------------------------------------------------------------
(* The way of a byte                                                        *)

\* The bytes of the outputs: what is appended, and what is split off.
LEMMA OutputsAppend ==
    ASSUME NEW D, NEW q \in Seq(D), NEW b \in D
    PROVE  Append(q, b) \in Seq(D) /\ InOutputs(Append(q, b)) = InOutputs(q) \cup b
<1> DEFINE d == Append(q, b)
<1>1. /\ d \in Seq(D) /\ Len(q) \in Nat /\ Len(d) = Len(q) + 1
      /\ \A i \in 1 .. Len(q) : d[i] = q[i]
      /\ d[Len(q) + 1] = b
      /\ DOMAIN q = 1 .. Len(q) /\ DOMAIN d = 1 .. Len(d)
  BY AppendProperties, LenProperties
<1> HIDE DEF d
<1>2. \A i \in DOMAIN d : (i \in DOMAIN q /\ d[i] = q[i]) \/ d[i] = b
  BY <1>1
<1>3. \A i \in DOMAIN q : i \in DOMAIN d /\ d[i] = q[i]
  BY <1>1
<1>4. Len(q) + 1 \in DOMAIN d
  BY <1>1
<1>5. ASSUME NEW x PROVE x \in InOutputs(d) <=> x \in InOutputs(q) \cup b
  BY <1>1, <1>2, <1>3, <1>4 DEF InOutputs
<1> QED
  BY <1>1, <1>5 DEF d

LEMMA OutputsSplit ==
    ASSUME NEW D, NEW q \in Seq(D), NEW n \in 1 .. Len(q)
    PROVE  LET r == SubSeq(q, n + 1, Len(q))
           IN  r \in Seq(D) /\ InOutputs(q) \subseteq InOutputs(SubSeq(q, 1, n)) \cup InOutputs(r)
<1> DEFINE m == Len(q)
           s == SubSeq(q, 1, n)
           r == SubSeq(q, n + 1, m)
<1>1. m \in Nat /\ DOMAIN q = 1 .. m
  BY LenProperties
<1>2. /\ s \in Seq(D) /\ Len(s) = n /\ \A i \in 1 .. n : s[i] = q[i]
  <2>1. 1 \in 1 .. m + 1 /\ n \in 1 - 1 .. m /\ n - 1 + 1 = n
    BY <1>1
  <2> HIDE DEF m
  <2> QED
    BY <1>1, <2>1, SubSeqProperties DEF m
<1>3. /\ r \in Seq(D) /\ Len(r) = m - n /\ \A i \in 1 .. (m - n) : r[i] = q[n + i]
  <2> DEFINE k == n + 1
  <2>1. k \in 1 .. m + 1 /\ m \in k - 1 .. m /\ m - k + 1 = m - n
    BY <1>1
  <2>2. /\ SubSeq(q, k, m) \in Seq(D) /\ Len(SubSeq(q, k, m)) = m - k + 1
        /\ \A i \in 1 .. m - k + 1 : SubSeq(q, k, m)[i] = q[k + i - 1]
    <3> HIDE DEF k, m
    <3> QED
      BY <2>1, SubSeqProperties DEF m
  <2>3. \A i \in 1 .. (m - n) : k + i - 1 = n + i
    BY <1>1
  <2> QED
    BY <2>1, <2>2, <2>3
<1>4. DOMAIN s = 1 .. n /\ DOMAIN r = 1 .. (m - n)
  BY <1>2, <1>3, LenProperties
<1> HIDE DEF m, s, r
<1>5. ASSUME NEW x \in InOutputs(q) PROVE x \in InOutputs(s) \cup InOutputs(r)
  <2>1. PICK i \in 1 .. m : x \in q[i]
    BY <1>1 DEF InOutputs
  <2>2. CASE i <= n
    <3>1. i \in DOMAIN s /\ s[i] = q[i]
      BY <1>1, <1>2, <1>4, <2>2
    <3> QED
      BY <2>1, <3>1 DEF InOutputs
  <2>3. CASE ~(i <= n)
    <3>1. i - n \in 1 .. (m - n) /\ n + (i - n) = i
      BY <1>1, <2>3
    <3>2. i - n \in DOMAIN r /\ r[i - n] = q[i]
      BY <1>3, <1>4, <3>1
    <3> QED
      BY <2>1, <3>2 DEF InOutputs
  <2> QED
    BY <2>2, <2>3
<1> QED
  BY <1>3, <1>5 DEF r, s, m

\* A warning is an output without bytes.
LEMMA WarningAdded ==
    ASSUME outputs \in Seq(SUBSET (1 .. MaxBytes))
    PROVE  /\ Append(outputs, {}) \in Seq(SUBSET (1 .. MaxBytes))
           /\ InOutputs(Append(outputs, {})) = InOutputs(outputs)
<1> DEFINE B == SUBSET (1 .. MaxBytes)
<1>1. outputs \in Seq(B) /\ {} \in B
  OBVIOUS
<1> HIDE DEF B
<1>2. Append(outputs, {}) \in Seq(B) /\ InOutputs(Append(outputs, {})) = InOutputs(outputs) \cup {}
  BY <1>1, OutputsAppend
<1> QED
  BY <1>2 DEF B

\* A step that carries no output and publishes none; bytes may be given up.
LEMMA TracedKept ==
    ASSUME Produced, Traced, Carried = {}, out' \in {out, None, {}},
           pc' \in {"publish", "outWait"} => out' \in {None, {}} /\ cmd'.rx \subseteq 1 .. MaxBytes,
           Waiting \subseteq Waiting' \cup lost', lost \subseteq lost',
           UNCHANGED <<accepted, parsed, seen, outputs>>,
           pc' \in Executing \cup {"finish"} => executing', pc' = "failed" => failed'
    PROVE  Produced' /\ Traced'
<1>1. Carried' = {}
  BY DEF Carried
<1>2. Produced'
  <2>1. out' \in (SUBSET (1 .. MaxBytes)) \cup {None}
    BY DEF Produced
  <2>2. accepted' <= MaxBytes /\ outputs' \in Seq(SUBSET (1 .. MaxBytes))
    BY DEF Produced
  <2> QED
    BY <2>1, <2>2 DEF Produced
<1>3. Traced'
  BY <1>1 DEF Traced, Accepted
<1> QED
  BY <1>2, <1>3

\* Bytes are accepted behind all others.
LEMMA EnqueueTraced ==
    ASSUME WorkerAssumption, Counts, Produced, Traced, NEW conn \in Conns \cup {Detached},
           NEW n \in Nat \ {0}, NEW merge, commands' = Enqueue(conn, NextBytes(n), merge),
           accepted' = accepted + n, accepted' <= MaxBytes, pendingRx' = pendingRx + n,
           UNCHANGED <<cfg, executingRx, issued, parsed, seen, lost, pc, cmd, out, executing, failed>>,
           outputs' \in {outputs, Append(outputs, {})}
    PROVE  Produced' /\ Traced'
<1>1. Waiting' = Waiting \cup NextBytes(n)
  BY CountsEnqueued
<1>2. accepted \in Nat
  BY DEF Counts, Typed
<1>3. Accepted' \subseteq Accepted \cup Waiting'
  BY <1>1, <1>2 DEF Accepted, NextBytes
<1>4. outputs' \in Seq(SUBSET (1 .. MaxBytes)) /\ InOutputs(outputs') = InOutputs(outputs)
  BY WarningAdded DEF Produced
<1>5. Carried' = Carried
  BY DEF Carried
<1>6. Produced'
  BY <1>4 DEF Produced
<1>7. Traced'
  BY <1>1, <1>3, <1>4, <1>5 DEF Traced
<1> QED
  BY <1>6, <1>7

\* The application takes outputs from the queue, discards them or adds a warning.
LEMMA OutputsTraced ==
    ASSUME Produced, Traced, outputs' \in Seq(SUBSET (1 .. MaxBytes)),
           InOutputs(outputs) \subseteq InOutputs(outputs') \cup seen' \cup lost',
           seen \subseteq seen', lost \subseteq lost', Waiting' = Waiting,
           UNCHANGED <<accepted, parsed, pc, cmd, out, executing, failed>>
    PROVE  Produced' /\ Traced'
<1>1. Carried' = Carried
  BY DEF Carried
<1>2. Produced'
  BY DEF Produced
<1>3. Traced'
  BY <1>1 DEF Traced, Accepted
<1> QED
  BY <1>2, <1>3

\* New work of the application.
LEMMA SubmitTraced == WorkerAssumption /\ Counts /\ Produced /\ Traced /\ Submit => Produced' /\ Traced'
<1> SUFFICES ASSUME WorkerAssumption, Counts, Produced, Traced, Submit PROVE Produced' /\ Traced'
  OBVIOUS
<1>0. /\ issued \in Nat /\ accepted \in Nat /\ cfg \in Configs
      /\ outputs \in Seq(SUBSET (1 .. MaxBytes))
  BY DEF Counts, Typed, Produced
<1>1. ASSUME NEW c \in CommandType, c.rx = {}, NEW next, PushCommand(c, next)
      PROVE  Produced' /\ Traced'
  <2>1. Waiting' = Waiting
    BY <1>1, PushCommandCounts DEF NoBytes
  <2> QED
    BY <1>0, <1>1, <2>1, OutputsTraced DEF PushCommand, workerVars
<1>2. ASSUME NEW op \in CommandOps \ {"bytes", "configure"}, NEW conn \in Conns \cup {None}, NEW next,
             PushCommand(Command(op, conn, {}, None), next)
      PROVE  Produced' /\ Traced'
  BY <1>0, <1>1, <1>2, CommandTyped
<1>3. CASE Post \/ PostReset
  BY <1>2, <1>3 DEF Post, PostReset, CommandOps
<1>4. CASE \E c \in Conns : PostOpen(c) \/ PostClose(c)
  BY <1>2, <1>4 DEF PostOpen, PostClose, CommandOps
<1>5. ASSUME NEW c \in Configs, Configure(c) PROVE Produced' /\ Traced'
  <2>1. PushCommand(Command("configure", None, {}, c), "idle")
    BY <1>5 DEF Configure
  <2>2. /\ Command("configure", None, {}, c) \in CommandType
        /\ Command("configure", None, {}, c).rx = {}
    BY <1>0 DEF Command, CommandType, CommandOps
  <2> QED
    BY <1>1, <2>1, <2>2
<1>6. ASSUME NEW op \in {"sync", "toggle", "idle"}, Await(op) PROVE Produced' /\ Traced'
  <2>1. PICK next : PushCommand(Command(op, None, {}, None), next)
    BY <1>6 DEF Await
  <2>2. op \in CommandOps \ {"bytes", "configure"}
    BY DEF CommandOps
  <2> QED
    BY <1>2, <2>1, <2>2
<1>7. ASSUME NEW op, ClearOutputs(op) PROVE Produced' /\ Traced'
  <2>1. PICK next : PushCommand(Command("clear", None, {}, None), next)
    BY <1>7 DEF ClearOutputs
  <2> QED
    BY <1>2, <2>1 DEF CommandOps
<1>8. ASSUME NEW conn \in Conns \cup {Detached}, NEW n \in 1 .. MaxChunk, NEW merge \in BOOLEAN,
             PushBytes(conn, n, merge)
      PROVE  Produced' /\ Traced'
  <2>1. n \in Nat \ {0}
    BY DEF WorkerAssumption
  <2>2. /\ commands' = Enqueue(conn, NextBytes(n), merge) /\ accepted' = accepted + n
        /\ accepted' <= MaxBytes /\ pendingRx' = pendingRx + n
        /\ UNCHANGED <<cfg, executingRx, issued, parsed, seen, lost, pc, cmd, out, executing, failed,
                       outputs>>
    BY <1>8 DEF PushBytes, workerVars
  <2> QED
    BY <2>1, <2>2, EnqueueTraced
<1>9. ASSUME NEW conn \in Conns, NEW n \in 1 .. MaxChunk, TryPushBytes(conn, n)
      PROVE  Produced' /\ Traced'
  <2> DEFINE count == AcceptablePrefix(n)
  <2>1. count \in Nat
    BY <1>0, WatermarkTyped DEF WorkerAssumption, AcceptablePrefix, Smaller, Counts, Typed
  <2>2. /\ commands' = IF count > 0 THEN Enqueue(conn, NextBytes(count), FALSE) ELSE commands
        /\ accepted' = accepted + count /\ accepted' <= MaxBytes /\ pendingRx' = pendingRx + count
        /\ outputs' \in {outputs, Append(outputs, {})}
        /\ UNCHANGED <<cfg, executingRx, issued, parsed, seen, lost, pc, cmd, out, executing, failed>>
    BY <1>9 DEF TryPushBytes, workerVars
  <2> HIDE DEF count
  <2>3. CASE count = 0
    <3>1. commands' = commands /\ accepted' = accepted
      BY <1>0, <2>2, <2>3
    <3>2. Waiting' = Waiting
      BY <2>2, <3>1 DEF Waiting, InHand
    <3>3. outputs' \in Seq(SUBSET (1 .. MaxBytes)) /\ InOutputs(outputs') = InOutputs(outputs)
      BY <1>0, <2>2, WarningAdded
    <3> QED
      BY <2>2, <3>1, <3>2, <3>3, OutputsTraced
  <2>4. CASE count # 0
    <3>1. count \in Nat \ {0} /\ count > 0
      BY <2>1, <2>4
    <3>2. commands' = Enqueue(conn, NextBytes(count), FALSE)
      BY <2>2, <3>1
    <3> QED
      BY <2>2, <3>1, <3>2, EnqueueTraced
  <2> QED
    BY <2>3, <2>4
<1>10. CASE RequestStop
  <2>1. Waiting' = Waiting /\ UNCHANGED <<outputs, seen, lost, accepted, parsed, pc, cmd, out, executing, failed>>
    BY <1>10 DEF RequestStop, workerVars, history, Waiting, InHand
  <2> QED
    BY <1>0, <2>1, OutputsTraced
<1> QED
  BY <1>3, <1>4, <1>5, <1>6, <1>7, <1>8, <1>9, <1>10 DEF Submit

\* Every other step of the application.
LEMMA AppTraced ==
    WorkerAssumption /\ Counts /\ Produced /\ Traced /\ (App \/ Stopped) => Produced' /\ Traced'
<1> SUFFICES ASSUME WorkerAssumption, Counts, Produced, Traced, App \/ Stopped
             PROVE  Produced' /\ Traced'
  OBVIOUS
<1>0. issued \in Nat /\ commands \in Seq(CommandType) /\ outputs \in Seq(SUBSET (1 .. MaxBytes))
  BY DEF Counts, Typed, Produced
<1>1. CASE Submit
  BY <1>1, SubmitTraced
<1>2. CASE IdleAfterPush \/ PostLoad
  <2>1. PICK op \in {"idle", "load"} :
            /\ issued' = issued + 1 /\ commands' = Append(commands, Command(op, None, {}, None))
            /\ UNCHANGED <<cfg, pendingRx, executingRx, accepted, parsed, seen, lost, pc, cmd, out,
                           outputs, executing, failed>>
    BY <1>2 DEF IdleAfterPush, PostLoad, workerVars
  <2>2. Waiting' = Waiting
    BY <2>1, AppendCounts DEF NoBytes
  <2> QED
    BY <1>0, <2>1, <2>2, OutputsTraced
<1>3. ASSUME /\ UNCHANGED <<commands, seen, accepted, parsed, pc, cmd, out, executing, failed>>
             /\ \/ outputs' = outputs /\ lost' = lost
                \/ outputs' = Append(outputs, {}) /\ lost' = lost
                \/ outputs' = <<>> /\ lost' = lost \cup InOutputs(outputs)
      PROVE  Produced' /\ Traced'
  <2>1. Waiting' = Waiting
    BY <1>3 DEF Waiting, InHand
  <2>2. outputs' \in Seq(SUBSET (1 .. MaxBytes))
    <3> DEFINE B == SUBSET (1 .. MaxBytes)
    <3>1. outputs \in Seq(B) /\ Append(outputs, {}) \in Seq(B)
      BY <1>0, WarningAdded
    <3> HIDE DEF B
    <3>2. <<>> \in Seq(B)
      OBVIOUS
    <3> QED
      BY <1>3, <3>1, <3>2 DEF B
  <2>3. InOutputs(outputs) \subseteq InOutputs(outputs') \cup seen' \cup lost'
    BY <1>0, <1>3, WarningAdded
  <2> QED
    BY <1>3, <2>1, <2>2, <2>3, OutputsTraced
<1>4. CASE CheckRxQueue
  BY <1>3, <1>4 DEF CheckRxQueue, workerVars, history
<1>5. CASE Signal \/ RxWake \/ RxSpuriousWake
  BY <1>3, <1>5 DEF Signal, RxWake, RxSpuriousWake, workerVars, history
<1>6. CASE \/ AwaitReturns \/ AwaitTimesOut \/ ClearReturns \/ LoadReturns \/ Join \/ Joined
           \/ Stopped
  BY <1>3, <1>6 DEF AwaitReturns, AwaitTimesOut, ClearReturns, LoadReturns, Join, Joined,
     Stopped, vars, mutexVars, workerVars, history
<1>7. CASE DiscardWhileWaiting \/ ClearStopped \/ NotifyStop
  BY <1>3, <1>7 DEF DiscardWhileWaiting, ClearStopped, NotifyStop, workerVars, history
<1>8. ASSUME NEW n \in 1 .. Len(outputs), Drain(n) PROVE Produced' /\ Traced'
  <2>1. /\ outputs' = SubSeq(outputs, n + 1, Len(outputs))
        /\ seen' = seen \cup InOutputs(SubSeq(outputs, 1, n))
        /\ UNCHANGED <<commands, lost, accepted, parsed, pc, cmd, out, executing, failed>>
    BY <1>8 DEF Drain
  <2>2. Waiting' = Waiting
    BY <2>1 DEF Waiting, InHand
  <2>3. /\ outputs' \in Seq(SUBSET (1 .. MaxBytes))
        /\ InOutputs(outputs) \subseteq InOutputs(SubSeq(outputs, 1, n)) \cup InOutputs(outputs')
    BY <1>0, <2>1, OutputsSplit
  <2> QED
    BY <2>1, <2>2, <2>3, OutputsTraced
<1> QED
  BY <1>1, <1>2, <1>4, <1>5, <1>6, <1>7, <1>8 DEF App, Continue, Pump

\* The worker takes a command, runs a callback, clears bytes, publishes.
LEMMA WorkerTraced ==
    Counts /\ Produced /\ Traced /\ (Worker \/ Throw) => Produced' /\ Traced'
<1> SUFFICES ASSUME Counts, Produced, Traced, Worker \/ Throw PROVE Produced' /\ Traced'
  OBVIOUS
<1> USE DEF Executing
<1>0. /\ pc = "run" /\ cmd.op # "bytes" => cmd.rx = {}
      /\ pc = "loading" => cmd.rx = {} /\ cmd.op = "load"
      /\ Waiting \subseteq 1 .. accepted /\ accepted \in Nat
  BY DEF Counts, Typed, Ordered, Holding, CommandType
<1>1. CASE PopCommand
  <2>1. Waiting' = Waiting
    BY <1>1, PopCounts DEF NoBytes
  <2> QED
    BY <1>1, <2>1, TracedKept DEF PopCommand, appVars, history, Carried
<1>2. CASE NoCommand \/ WakeUp \/ Settle \/ Finish \/ Fulfil
  <2>1. Waiting' = Waiting
    BY <1>2 DEF NoCommand, WakeUp, Settle, Finish, Fulfil, mutexVars, history, Waiting, InHand
  <2> QED
    BY <1>2, <2>1, TracedKept DEF NoCommand, WakeUp, Settle, Finish, Fulfil, mutexVars, appVars,
       history, Carried, Produced
<1>3. CASE RunBytes
  <2>1. /\ pc = "run" /\ pc' = "publish" /\ Carried = {}
        /\ \/ out' = None /\ parsed' = parsed /\ lost' = lost \cup cmd.rx
           \/ out' = cmd.rx /\ parsed' = parsed \cup cmd.rx /\ lost' = lost
        /\ UNCHANGED <<commands, outputs, cmd, accepted, seen, executing, failed>>
    BY <1>3 DEF RunBytes, Running, Carried
  <2>2. Waiting = Waiting' \cup cmd.rx
    BY <2>1 DEF Waiting, InHand
  <2>3. cmd.rx \in SUBSET (1 .. MaxBytes)
    BY <1>0, <2>2, WorkerAssumption DEF Produced, WorkerAssumption
  <2>4. cmd.rx # None
    BY <2>3, NoneAssumption
  <2>5. Produced'
    BY <2>1, <2>3 DEF Produced
  <2>6. CASE out' = None
    BY <2>1, <2>2, <2>4, <2>5, <2>6 DEF Traced, Accepted, Carried
  <2>7. CASE out' = cmd.rx
    <3>1. Carried' = cmd.rx
      BY <2>1, <2>4, <2>7 DEF Carried
    <3> QED
      BY <2>1, <2>2, <2>5, <2>7, <3>1 DEF Traced, Accepted
  <2> QED
    BY <2>1, <2>5, <2>6, <2>7
<1>4. CASE (\E emits \in BOOLEAN : RunCallback(emits) \/ RunLoad(emits)) \/ RunIdle \/ RunConfigure
  <2>1. /\ pc \in {"run", "loading"} /\ pc' = "publish" /\ cmd.rx = {} /\ out' \in {None, {}}
        /\ UNCHANGED <<commands, outputs, cmd, accepted, parsed, seen, lost, executing, failed>>
    BY <1>0, <1>4 DEF RunCallback, RunLoad, RunIdle, RunConfigure, Running, mutexVars, history
  <2>2. Waiting' = Waiting
    BY <2>1 DEF Waiting, InHand
  <2> QED
    BY <2>1, <2>2, TracedKept DEF Carried, Produced
<1>5. CASE (\E emits \in BOOLEAN : RunClose(emits)) \/ RunReset \/ RunLoadClear
  <2>1. /\ pc = "run" /\ cmd.rx = {} /\ lost' = lost \cup QueuedBytes(commands)
        /\ \/ pc' = "publish" /\ out' \in {None, {}}
           \/ pc' = "loading" /\ out' = out
        /\ UNCHANGED <<outputs, cmd, accepted, parsed, seen, executing, failed>>
    BY <1>0, <1>5 DEF RunClose, RunReset, RunLoadClear, Running, ClearQueuedRx
  <2>2. Waiting \subseteq Waiting' \cup lost'
    BY <2>1 DEF Waiting, InHand
  <2> QED
    BY <2>1, <2>2, TracedKept DEF Carried, Produced
<1>6. CASE RunClear
  <2>1. /\ pc = "run" /\ pc' = "publish" /\ cmd.rx = {} /\ out' = None /\ outputs' = <<>>
        /\ lost' = lost \cup InOutputs(outputs)
        /\ UNCHANGED <<commands, cmd, accepted, parsed, seen, executing, failed>>
    BY <1>0, <1>6 DEF RunClear, Running
  <2>2. Waiting' = Waiting /\ Carried = {} /\ Carried' = {}
    BY <2>1 DEF Waiting, InHand, Carried
  <2>3. Produced'
    BY <2>1 DEF Produced
  <2>4. Traced'
    BY <2>1, <2>2 DEF Traced, Accepted
  <2> QED
    BY <2>3, <2>4
<1>7. CASE Throw
  <2>1. /\ pc \in {"run", "loading"} /\ pc' = "failed" /\ failed'
        /\ UNCHANGED <<commands, outputs, cmd, out, accepted, parsed, seen, executing>>
        /\ \/ pc = "run" /\ lost' = lost \cup cmd.rx
           \/ cmd.op # "bytes" /\ lost' = lost
    BY <1>7 DEF Throw, ThrowOnBytes, ThrowElsewhere, Running, history
  <2>2. Waiting \subseteq Waiting' \cup lost' /\ lost \subseteq lost'
    BY <1>0, <2>1 DEF Waiting, InHand
  <2> QED
    BY <2>1, <2>2, TracedKept DEF Carried, Produced
<1>8. CASE PublishOutputs
  <2>1. /\ pc \in {"publish", "outWait"}
        /\ \/ /\ out = None /\ pc' = "settle" /\ UNCHANGED <<outputs, lost>>
           \/ /\ out # None /\ pc' = "outWait" /\ UNCHANGED <<outputs, lost>>
           \/ /\ out # None /\ pc' = "settle" /\ outputs' = Append(outputs, out) /\ lost' = lost
           \/ /\ out # None /\ pc' = "settle" /\ outputs' = outputs /\ lost' = lost \cup out
        /\ UNCHANGED <<commands, cmd, out, accepted, parsed, seen, executing, failed>>
    BY <1>8 DEF PublishOutputs
  <2>2. Waiting' = Waiting
    BY <2>1 DEF Waiting, InHand
  <2>3. CASE out = None
    BY <2>1, <2>2, <2>3, TracedKept DEF Carried, Produced
  <2>4. CASE out # None
    <3> DEFINE B == SUBSET (1 .. MaxBytes)
    <3>1. outputs \in Seq(B) /\ out \in B
      BY <2>4 DEF Produced
    <3> HIDE DEF B
    <3>2. Append(outputs, out) \in Seq(B) /\ InOutputs(Append(outputs, out)) = InOutputs(outputs) \cup out
      BY <3>1, OutputsAppend
    <3>3. Carried = out /\ (Carried' = out \/ out \subseteq InOutputs(outputs') \cup lost')
      BY <2>1, <2>4, <3>2 DEF Carried
    <3>4. outputs' \in Seq(B) /\ InOutputs(outputs) \subseteq InOutputs(outputs')
      BY <2>1, <3>1, <3>2
    <3>5. Produced'
      BY <2>1, <3>4 DEF Produced, B
    <3>6. Traced'
      BY <2>1, <2>2, <3>3, <3>4 DEF Traced, Accepted
    <3> QED
      BY <3>5, <3>6
  <2> QED
    BY <2>3, <2>4
<1> QED
  BY <1>1, <1>2, <1>3, <1>4, <1>5, <1>6, <1>7, <1>8 DEF Worker

-----------------------------------------------------------------------------
(* What a call and a snapshot may rely on                                   *)

\* The invariant holds at first, every step keeps it, and so it always holds.
LEMMA InitCalls == WorkerAssumption /\ Init => CallsInv
<1> SUFFICES ASSUME WorkerAssumption, Init PROVE CallsInv
  OBVIOUS
<1>1. IInv /\ issued \in Nat
  BY InitCounts DEF IInv, Counts, Typed
<1>2. commands = <<>> /\ Len(commands) = 0
  BY DEF Init
<1>3. Produced
  <2> DEFINE B == SUBSET (1 .. MaxBytes)
  <2>1. out = None /\ pc = "pop" /\ accepted = 0 /\ MaxBytes \in Nat
    BY DEF Init, WorkerAssumption
  <2>2. outputs \in Seq(B)
    <3> HIDE DEF B
    <3> QED
      BY DEF Init
  <2> QED
    BY <2>1, <2>2 DEF Produced, Executing
<1>4. Traced
  BY DEF Init, Traced, Accepted
<1>5. Numbered
  BY <1>1, <1>2 DEF Init, Numbered, Numbers, UpTo, Above, Holding, Executing, Resumes
<1>6. Idling /\ Clearing
  BY DEF Init, Idling, Clearing, Calling
<1> QED
  BY <1>1, <1>3, <1>4, <1>5, <1>6 DEF CallsInv, Calls

LEMMA NextCalls == WorkerAssumption /\ CallsInv /\ [Next]_vars => CallsInv'
<1> SUFFICES ASSUME WorkerAssumption, CallsInv, [Next]_vars PROVE CallsInv'
  OBVIOUS
<1>1. IInv /\ Counts /\ Produced /\ Traced /\ Calls
  BY DEF CallsInv, IInv
<1>2. IInv'
  BY <1>1, NextCounts
<1>3. CASE Next
  <2>1. (App \/ Stopped) \/ (Worker \/ Throw)
    BY <1>3 DEF Next
  <2>2. Calls'
    BY <1>1, <2>1, AppCalls, WorkerCalls
  <2>3. Produced' /\ Traced'
    BY <1>1, <2>1, AppTraced, WorkerTraced
  <2> QED
    BY <1>2, <2>2, <2>3 DEF CallsInv
<1>4. CASE UNCHANGED vars
  <2>1. UNCHANGED <<commands, issued, answered, pc, cmd, resume, ticket, failed, out, outputs, at,
                    accepted, parsed, seen, lost, executing>>
    BY <1>4 DEF vars, mutexVars, workerVars, appVars, history
  <2>2. Calls'
    BY <1>1, <2>1, CallsKept
  <2>3. Produced' /\ Traced'
    <3>1. Waiting' = Waiting /\ outputs' \in Seq(SUBSET (1 .. MaxBytes))
      BY <1>1, <2>1 DEF Waiting, InHand, Produced
    <3> QED
      BY <1>1, <2>1, <3>1, OutputsTraced
  <2> QED
    BY <1>2, <2>2, <2>3 DEF CallsInv
<1> QED
  BY <1>3, <1>4

LEMMA CallsInvHolds == Spec => []CallsInv
<1>1. Init => CallsInv
  BY WorkerAssumption, InitCalls
<1>2. CallsInv /\ [Next]_vars => CallsInv'
  BY WorkerAssumption, NextCalls
<1> QED
  BY <1>1, <1>2, PTL DEF Spec

\* The counters are not zero while they have something to count.
LEMMA Counted0 ==
    ASSUME NEW n \in Nat, NEW A \in SUBSET (1 .. n)
    PROVE  Cardinality(A) = 0 <=> A = {}
BY BytesFinite, FS_EmptySet

\* One snapshot of the counters overlooks no byte: whatever the application has not seen is counted
\* as queued, in execution or published, and a worker that seems idle is through with every byte.
THEOREM SnapshotSound == Spec => []SnapshotIsSound
<1>1. ASSUME CallsInv PROVE SnapshotIsSound
  <2>0. /\ accepted \in Nat /\ pendingRx \in Nat /\ executingRx \in Nat
        /\ Waiting \in SUBSET (1 .. accepted) /\ pc \in Places
        /\ pendingRx = Cardinality(Waiting)
    BY <1>1 DEF CallsInv, IInv, Counts, Typed, Ordered, RxAccounting, Waiting
  <2>1. Traced /\ Produced /\ Halting
    BY <1>1 DEF CallsInv, IInv
  <2>2. Len(outputs) \in Nat /\ (Len(outputs) = 0 => InOutputs(outputs) = {})
    <3>1. outputs \in Seq(SUBSET (1 .. MaxBytes))
      BY <2>1 DEF Produced
    <3>2. Len(outputs) \in Nat /\ DOMAIN outputs = 1 .. Len(outputs)
      BY <3>1, LenProperties
    <3> QED
      BY <3>2 DEF InOutputs
  <2>3. executingRx = 0 => Carried = {}
    <3> SUFFICES ASSUME executingRx = 0, Carried # {} PROVE FALSE
      OBVIOUS
    <3>1. /\ pc \in {"publish", "outWait"} /\ out # None /\ Carried = out /\ out \subseteq cmd.rx
          /\ cmd.rx \in SUBSET (1 .. MaxBytes) /\ MaxBytes \in Nat
      BY <2>1, WorkerAssumption DEF WorkerAssumption, Carried, Produced
    <3>2. Cardinality(cmd.rx) = 0
      BY <1>1, <3>1 DEF CallsInv, IInv, Counts, RxAccounting
    <3> QED
      BY <3>1, <3>2, Counted0
  <2>4. Accepted \ (seen \cup lost) # {} => pendingRx + executingRx + Len(outputs) > 0
    <3> SUFFICES ASSUME pendingRx = 0, executingRx = 0, Len(outputs) = 0
                 PROVE  Accepted \subseteq seen \cup lost
      BY <2>0, <2>2
    <3>1. Waiting = {}
      BY <2>0, Counted0
    <3> QED
      BY <2>1, <2>2, <2>3, <3>1 DEF Traced
  <2>5. ASSUME ~executing, commands = <<>>
        PROVE  Accepted \subseteq seen \cup lost \cup InOutputs(outputs) /\ pendingRx = 0
    <3>1. pc \notin {"run", "failed", "publish", "outWait"}
      BY <2>1, <2>5 DEF Produced, Executing
    <3>2. Waiting = {} /\ Carried = {}
      BY <2>5, <3>1 DEF Waiting, InHand, Carried, QueuedBytes
    <3> QED
      BY <2>0, <2>1, <3>2, Counted0 DEF Traced
  <2> QED
    BY <2>4, <2>5 DEF SnapshotIsSound
<1> QED
  BY <1>1, CallsInvHolds, PTL

\* A waitIdle that is answered is a barrier: nothing posted before it is queued, in execution or
\* counted, although the worker answers the promise outside of every lock.
THEOREM WaitIdleIsABarrier == Spec => []WaitIdleIsBarrier
<1>1. ASSUME CallsInv PROVE WaitIdleIsBarrier
  <2> SUFFICES ASSUME at = "awaitIdle", ticket \in answered
               PROVE  /\ commands = <<>> /\ pendingRx = 0 /\ executingRx = 0 /\ ~executing
                      /\ Accepted \subseteq parsed \cup lost
    BY DEF WaitIdleIsBarrier
  <2>1. commands = <<>> /\ pc \notin Holding
    BY <1>1 DEF CallsInv, Calls, Idling, Calling, Asked
  <2>2. /\ Halting /\ Traced /\ pc \in Places /\ pendingRx = Cardinality(Waiting)
        /\ executingRx = IF pc \in Executing THEN Cardinality(cmd.rx) ELSE 0
    BY <1>1 DEF CallsInv, IInv, Counts, Typed, RxAccounting, Waiting, Executing
  <2>3. Waiting = {} /\ ~executing /\ executingRx = 0
    BY <2>1, <2>2 DEF Waiting, InHand, QueuedBytes, Halting, Holding, Executing, Places
  <2> QED
    BY <2>1, <2>2, <2>3, FS_EmptySet DEF Traced
<1> QED
  BY <1>1, CallsInvHolds, PTL

\* A protocol is loaded over an empty queue of outputs and an empty queue of commands, with no
\* batch of the old protocol between the two, unless the thread has died.
THEOREM ReloadsStartClean == Spec => []ReloadStartsClean
<1>1. CallsInv => ReloadStartsClean
  BY DEF CallsInv, Calls, Clearing, ReloadStartsClean
<1> QED
  BY <1>1, CallsInvHolds, PTL

-----------------------------------------------------------------------------
(* The bound of the queue                                                   *)

\* The configuration stays as it is, its watermark is not 0 and the worker is not synchronous: else
\* a budget that shrinks, a watermark that blocks nobody or a waitIdle that times out lets chunks
\* pile up.
Steady == "configure" \notin Ops /\ \A c \in Configs : c.enabled /\ c.highPct > 0

\* No command changes the configuration.
Settled(q) == \A i \in 1 .. Len(q) : q[i].op # "configure"
Unconfigured == Settled(commands) /\ (pc \in Holding => cmd.op # "configure")

\* A queue above its watermark belongs to a poster that blocks, or that finds out that it must.
Throttled ==
    cfg.backpressure =>
        /\ pendingRx <= HighWater(cfg) + MaxChunk
        /\ pendingRx > HighWater(cfg) => Calling("rxCheck") \/ at = "rxWait" \/ stopping
        /\ at = "rxWait" => waitLow \in Int /\ waitLow <= HighWater(cfg)

RxInv == CallsInv /\ Unconfigured /\ Throttled

\* The watermarks of a configuration with backpressure.
LEMMA SteadyWatermarks ==
    ASSUME WorkerAssumption, Steady, cfg \in Configs
    PROVE  /\ HighWater(cfg) \in Int /\ LowWater(cfg) \in Int /\ cfg.enabled
           /\ cfg.backpressure => HighWater(cfg) > 0 /\ LowWater(cfg) <= HighWater(cfg)
<1>1. /\ cfg.rxLimit \in Nat /\ cfg.memory \in Nat /\ cfg.highPct \in Nat /\ cfg.lowPct \in Nat
      /\ cfg.backpressure \in BOOLEAN /\ cfg.enabled /\ cfg.highPct # 0
  BY DEF WorkerAssumption, ConfigType, Steady
<1>2. RxBudget(cfg) \in Nat
  BY <1>1 DEF RxBudget, Smaller
<1>3. ASSUME NEW a \in Nat, NEW b \in Nat PROVE (a * b) \div 100 \in Int
  <2>1. a * b \in Nat
    BY <1>3
  <2> DEFINE m == a * b
  <2>2. m \in Nat
    BY <2>1
  <2> HIDE DEF m
  <2>3. m \div 100 \in Int
    BY <2>2
  <2> QED
    BY <2>3 DEF m
<1>4. \A p \in Nat : Watermark(RxBudget(cfg), p) \in Int
  BY <1>2, <1>3 DEF Watermark
<1>5. /\ Watermark(RxBudget(cfg), cfg.highPct) \in Int
      /\ Watermark(RxBudget(cfg), cfg.lowPct) \in Int
  BY <1>1, <1>4
<1>6. HighWater(cfg) \in Int /\ (cfg.backpressure => HighWater(cfg) > 0)
  BY <1>1, <1>2, <1>5 DEF HighWater, Larger
<1>7. LowWater(cfg) \in Int /\ (cfg.backpressure => LowWater(cfg) <= HighWater(cfg))
  BY <1>1, <1>5, <1>6 DEF LowWater, Smaller
<1> QED
  BY <1>1, <1>6, <1>7

\* What a queue without configurations stays.
LEMMA SettledAppend ==
    ASSUME NEW q \in Seq(CommandType), NEW c \in CommandType, c.op # "configure", Settled(q)
    PROVE  Settled(Append(q, c))
<1>1. /\ Len(q) \in Nat /\ Len(Append(q, c)) = Len(q) + 1
      /\ \A i \in 1 .. Len(q) : Append(q, c)[i] = q[i]
      /\ Append(q, c)[Len(q) + 1] = c
  BY AppendProperties, LenProperties
<1> DEFINE d == Append(q, c)
<1> HIDE DEF d
<1>2. \A i \in 1 .. Len(d) : i \in 1 .. Len(q) \/ d[i] = c
  BY <1>1 DEF d
<1> QED
  BY <1>1, <1>2 DEF Settled, d

LEMMA SettledEnqueue ==
    ASSUME commands \in Seq(CommandType), issued \in Nat, Settled(commands),
           NEW conn \in Conns \cup {Detached}, NEW A \in SUBSET Nat, NEW merge
    PROVE  Settled(Enqueue(conn, A, merge))
<1> DEFINE c == Command("bytes", conn, A, None)
           n == Len(commands)
           last == [commands[n] EXCEPT !.rx = @ \cup A]
           e == [commands EXCEPT ![n] = last]
<1>1. c \in CommandType /\ c.op # "configure"
  BY DEF Command, CommandType, CommandOps
<1>2. CASE Enqueue(conn, A, merge) = Append(commands, c)
  <2> HIDE DEF c
  <2> QED
    BY <1>1, <1>2, SettledAppend
<1>3. CASE commands # <<>> /\ commands[n].op = "bytes" /\ Enqueue(conn, A, merge) = e
  <2>1. n \in Nat \ {0} /\ n \in 1 .. n /\ commands[n] \in CommandType
    BY <1>3, EmptySeq, LenProperties, ElementOfSeq
  <2>2. last \in CommandType /\ last.op = commands[n].op
    BY <1>3, <2>1 DEF CommandType
  <2>3. Len(e) = n /\ \A i \in 1 .. n : e[i] = IF i = n THEN last ELSE commands[i]
    BY <2>1, <2>2, ExceptSeq
  <2> HIDE DEF e, last
  <2> QED
    BY <1>3, <2>2, <2>3 DEF Settled
<1> QED
  BY <1>2, <1>3 DEF Enqueue

LEMMA SettledTail ==
    ASSUME NEW q \in Seq(CommandType), q # <<>>, Settled(q)
    PROVE  Settled(Tail(q)) /\ Head(q).op # "configure"
<1>1. /\ Len(q) \in Nat \ {0} /\ Len(Tail(q)) = Len(q) - 1
      /\ \A i \in 1 .. Len(Tail(q)) : Tail(q)[i] = q[i + 1]
      /\ Head(q) = q[1]
  BY HeadTailProperties, EmptySeq, LenProperties
<1> QED
  BY <1>1 DEF Settled

LEMMA SettledCleared ==
    ASSUME NEW q \in Seq(CommandType), Settled(q)
    PROVE  Settled(WithoutBytes(q))
<1> DEFINE S == {i \in DOMAIN q : q[i].op # "bytes"}
           w == WithoutBytes(q)
<1>1. Len(w) = Cardinality(S) /\ \A i \in 1 .. Cardinality(S) : w[i] = q[Nth(S, i)] /\ Nth(S, i) \in S
  <2>1. S \in SUBSET (DOMAIN q) /\ w = Pick(q, S)
    BY DEF WithoutBytes
  <2> HIDE DEF S, w
  <2> QED
    BY <2>1, PickProperties
<1>2. \A i \in S : i \in 1 .. Len(q)
  BY LenProperties
<1> HIDE DEF S, w
<1> QED
  BY <1>1, <1>2 DEF Settled, w

\* A worker that no call configures stays unconfigured.
LEMMA UnconfiguredKept ==
    ASSUME WorkerAssumption, Steady, Counts, Unconfigured, [Next]_vars
    PROVE  Unconfigured'
<1> USE DEF Unconfigured
<1>0. /\ issued \in Nat /\ accepted \in Nat /\ pendingRx \in Nat /\ cfg \in Configs
      /\ commands \in Seq(CommandType)
  BY DEF Counts, Typed
<1>1. ASSUME commands' = commands, UNCHANGED <<pc, cmd>> PROVE Unconfigured'
  BY <1>1
<1>2. ASSUME NEW op \in CommandOps \ {"bytes", "configure"}, NEW conn \in Conns \cup {None},
             commands' = Append(commands, Command(op, conn, {}, None)), UNCHANGED <<pc, cmd>>
      PROVE  Unconfigured'
  <2> DEFINE c == Command(op, conn, {}, None)
  <2>1. c \in CommandType /\ c.op # "configure"
    BY <1>0, CommandTyped DEF Command
  <2> HIDE DEF c
  <2>2. commands' = Append(commands, c)
    BY <1>2 DEF c
  <2> QED
    BY <1>0, <1>2, <2>1, <2>2, SettledAppend
<1>3. ASSUME NEW conn \in Conns \cup {Detached}, NEW n \in Int, NEW merge,
             commands' = Enqueue(conn, NextBytes(n), merge), UNCHANGED <<pc, cmd>>
      PROVE  Unconfigured'
  <2>1. NextBytes(n) \in SUBSET Nat
    BY <1>0 DEF NextBytes
  <2> QED
    BY <1>0, <1>3, <2>1, SettledEnqueue
<1>4. CASE Submit
  <2>1. CASE Post \/ PostReset \/ \E c \in Conns : PostOpen(c) \/ PostClose(c)
    BY <1>2, <2>1 DEF Post, PostReset, PostOpen, PostClose, PushCommand, workerVars, CommandOps
  <2>2. CASE \E c \in Configs : Configure(c)
    BY <2>2 DEF Configure, AppIdle, Steady
  <2>3. ASSUME NEW op \in {"sync", "toggle", "idle"}, Await(op) PROVE Unconfigured'
    <3>1. op \in CommandOps \ {"bytes", "configure"}
      BY DEF CommandOps
    <3> QED
      BY <1>2, <2>3, <3>1 DEF Await, PushCommand, workerVars
  <2>4. CASE \E op \in {"clear", "reload"} : ClearOutputs(op)
    BY <1>2, <2>4 DEF ClearOutputs, PushCommand, workerVars, CommandOps
  <2>5. ASSUME NEW conn \in Conns \cup {Detached}, NEW n \in 1 .. MaxChunk, NEW merge \in BOOLEAN,
               PushBytes(conn, n, merge)
        PROVE  Unconfigured'
    <3>1. n \in Int
      BY DEF WorkerAssumption
    <3> QED
      BY <1>3, <2>5, <3>1 DEF PushBytes, workerVars
  <2>6. ASSUME NEW conn \in Conns, NEW n \in 1 .. MaxChunk, TryPushBytes(conn, n)
        PROVE  Unconfigured'
    <3> DEFINE count == AcceptablePrefix(n)
    <3>1. count \in Int
      BY <1>0, WatermarkTyped DEF WorkerAssumption, AcceptablePrefix, Smaller
    <3>2. /\ commands' = commands \/ commands' = Enqueue(conn, NextBytes(count), FALSE)
          /\ UNCHANGED <<pc, cmd>>
      BY <2>6 DEF TryPushBytes, workerVars
    <3> HIDE DEF count
    <3> QED
      BY <1>1, <1>3, <3>1, <3>2
  <2>7. CASE RequestStop
    BY <1>1, <2>7 DEF RequestStop, workerVars
  <2> QED
    BY <1>4, <2>1, <2>2, <2>3, <2>4, <2>5, <2>6, <2>7 DEF Submit
<1>5. CASE IdleAfterPush \/ PostLoad
  BY <1>2, <1>5 DEF IdleAfterPush, PostLoad, workerVars, CommandOps
<1>6. CASE \/ Signal \/ CheckRxQueue \/ RxWake \/ RxSpuriousWake \/ AwaitReturns \/ AwaitTimesOut
           \/ DiscardWhileWaiting \/ ClearReturns \/ LoadReturns \/ NotifyStop \/ Joined \/ Join
           \/ ClearStopped \/ Pump \/ UNCHANGED vars
  BY <1>1, <1>6 DEF Signal, CheckRxQueue, RxWake, RxSpuriousWake, AwaitReturns, AwaitTimesOut,
     DiscardWhileWaiting, ClearReturns, LoadReturns, NotifyStop, Joined, Join, ClearStopped, Pump,
     Drain, vars, mutexVars, workerVars
<1>7. CASE PopCommand
  <2>1. commands # <<>> /\ cmd' = Head(commands) /\ commands' = Tail(commands)
    BY <1>7 DEF PopCommand
  <2> QED
    BY <1>0, <2>1, SettledTail
<1>8. CASE RunsOn
  BY <1>0, <1>8, SettledCleared DEF RunsOn
<1>9. CASE Stopped
  BY <1>6, <1>9 DEF Stopped
<1> QED
  BY <1>4, <1>5, <1>6, <1>7, <1>8, <1>9, WorkerRunsOn DEF Next, App, Continue

\* The worker adds nothing to the queue.
LEMMA WorkerThrottled ==
    ASSUME WorkerAssumption, Counts, Unconfigured, Throttled, cfg \in Configs,
           HighWater(cfg) \in Int, Worker \/ Throw
    PROVE  Throttled'
<1>0. /\ accepted \in Nat /\ pendingRx \in Nat
      /\ Cardinality(QueuedBytes(commands)) \in Nat
      /\ pc = "run" => Cardinality(cmd.rx) \in Nat /\ cmd.op # "configure"
  <2>1. accepted \in Nat /\ pendingRx \in Nat /\ Waiting \subseteq 1 .. accepted
    BY DEF Counts, Typed, Ordered
  <2>2. QueuedBytes(commands) \subseteq 1 .. accepted
    BY <2>1 DEF Waiting
  <2>3. pc = "run" => cmd.rx \subseteq 1 .. accepted
    BY <2>1 DEF Waiting, InHand
  <2> QED
    BY <2>1, <2>2, <2>3, BytesFinite DEF Unconfigured, Holding, Executing
<1>1. SUFFICES pendingRx' \in Int /\ pendingRx' <= pendingRx
               /\ UNCHANGED <<cfg, at, resume, waitLow, stopping>>
  BY <1>0 DEF Throttled, Calling, WorkerAssumption
<1>2. CASE PopCommand \/ NoCommand \/ WakeUp \/ PublishOutputs \/ Settle \/ Finish \/ Fulfil
  BY <1>0, <1>2 DEF PopCommand, NoCommand, WakeUp, PublishOutputs, Settle, Finish, Fulfil,
     mutexVars, appVars
<1>3. CASE \/ RunBytes \/ ThrowOnBytes \/ RunReset \/ RunLoadClear
           \/ \E emits \in BOOLEAN : RunClose(emits)
  BY <1>0, <1>3 DEF RunBytes, ThrowOnBytes, RunReset, RunLoadClear, RunClose, Running, ClearQueuedRx, Smaller,
     appVars
<1>4. CASE \/ RunIdle \/ RunConfigure \/ RunClear \/ ThrowElsewhere
           \/ \E emits \in BOOLEAN : RunCallback(emits) \/ RunLoad(emits)
  BY <1>0, <1>4 DEF RunIdle, RunConfigure, RunClear, RunCallback, RunLoad, ThrowElsewhere, Running,
     mutexVars, appVars
<1> QED
  BY <1>2, <1>3, <1>4 DEF Worker, Throw

\* The application adds a chunk only to a queue that is not above its watermark.
LEMMA AppThrottled ==
    ASSUME WorkerAssumption, Steady, Counts, Numbered, Halting, Throttled, App \/ Stopped
    PROVE  Throttled'
<1>0. /\ pendingRx \in Nat /\ cfg \in Configs /\ MaxChunk \in Nat /\ resume \in Resumes
      /\ HighWater(cfg) \in Int /\ LowWater(cfg) \in Int /\ cfg.enabled
      /\ cfg.backpressure => HighWater(cfg) > 0 /\ LowWater(cfg) <= HighWater(cfg)
  BY SteadyWatermarks DEF Counts, Typed, WorkerAssumption, Numbered
<1>1. ASSUME at \notin {"rxCheck", "rxWait", "signal"}, at' # "rxWait",
             UNCHANGED <<cfg, pendingRx>>, stopping => stopping'
      PROVE  Throttled'
  BY <1>0, <1>1 DEF Throttled, Calling
<1>2. ASSUME NEW conn \in Conns \cup {Detached}, NEW n \in 1 .. MaxChunk, NEW merge \in BOOLEAN,
             PushBytes(conn, n, merge)
      PROVE  Throttled'
  <2>1. /\ at = "idle" /\ ~stopping /\ pendingRx' = pendingRx + n /\ cfg' = cfg
        /\ at' = "signal" /\ resume' = "rxCheck"
    BY <1>0, <1>2 DEF PushBytes, AppIdle, SignalThen
  <2> QED
    BY <1>0, <2>1 DEF Throttled, Calling
<1>3. ASSUME NEW conn \in Conns, NEW n \in 1 .. MaxChunk, TryPushBytes(conn, n)
      PROVE  Throttled'
  <2>1. /\ at = "idle" /\ ~stopping /\ pendingRx' = pendingRx + AcceptablePrefix(n) /\ cfg' = cfg
        /\ at' # "rxWait"
    BY <1>3 DEF TryPushBytes, AppIdle, SignalThen
  <2>2. cfg.backpressure => pendingRx <= HighWater(cfg)
    BY <1>0, <2>1 DEF Throttled, Calling
  <2>3. pendingRx' \in Int /\ (cfg.backpressure => pendingRx' <= HighWater(cfg))
    BY <1>0, <2>1, <2>2 DEF AcceptablePrefix, Smaller
  <2> QED
    BY <1>0, <2>1, <2>3 DEF Throttled
<1>4. CASE Submit
  <2>1. CASE \/ Post \/ PostReset \/ RequestStop
             \/ \E c \in Conns : PostOpen(c) \/ PostClose(c)
             \/ \E c \in Configs : Configure(c)
             \/ \E op \in {"sync", "toggle", "idle"} : Await(op)
             \/ \E op \in {"clear", "reload"} : ClearOutputs(op)
    <3>1. at = "idle" /\ at' # "rxWait" /\ UNCHANGED <<cfg, pendingRx>> /\ (stopping => stopping')
      BY <2>1 DEF Post, PostReset, RequestStop, PostOpen, PostClose, Configure, Await, ClearOutputs,
         AppIdle, PushCommand, SignalThen
    <3> QED
      BY <1>1, <3>1
  <2> QED
    BY <1>2, <1>3, <1>4, <2>1 DEF Submit
<1>5. CASE CheckRxQueue
  <2>1. /\ at' = IF PosterBlocks THEN "rxWait" ELSE "idle"
        /\ waitLow' = LowWater(cfg) /\ UNCHANGED <<cfg, pendingRx>>
    BY <1>5 DEF CheckRxQueue
  <2> SUFFICES ASSUME cfg.backpressure
               PROVE  /\ pendingRx <= HighWater(cfg) + MaxChunk
                      /\ pendingRx > HighWater(cfg) => at' = "rxWait"
                      /\ waitLow' \in Int /\ waitLow' <= HighWater(cfg)
    BY <2>1 DEF Throttled
  <2>2. pendingRx > HighWater(cfg) => PosterBlocks
    BY <1>0 DEF PosterBlocks
  <2> QED
    BY <1>0, <2>1, <2>2 DEF Throttled
<1>6. CASE RxWake \/ RxSpuriousWake
  <2>1. /\ at = "rxWait" /\ (at' = "rxWait" \/ stopping \/ pendingRx <= waitLow)
        /\ UNCHANGED <<cfg, pendingRx, stopping, waitLow>>
    BY <1>6 DEF RxWake, RxSpuriousWake, RxWaitOver
  <2> QED
    BY <1>0, <2>1 DEF Throttled
<1>7. CASE Signal
  <2>1. at = "signal" /\ at' = resume /\ UNCHANGED <<cfg, pendingRx, stopping>>
    BY <1>7 DEF Signal
  <2> QED
    BY <1>0, <2>1 DEF Throttled, Calling, Resumes
<1>8. CASE IdleAfterPush \/ PostLoad
  BY <1>1, <1>8 DEF IdleAfterPush, PostLoad, SignalThen
<1>9. CASE \/ AwaitReturns \/ AwaitTimesOut \/ ClearReturns \/ LoadReturns \/ Join \/ Joined
           \/ NotifyStop
  BY <1>1, <1>9 DEF AwaitReturns, AwaitTimesOut, ClearReturns, AwaitingClear, LoadReturns, Join,
     Joined, NotifyStop, mutexVars
<1>10. CASE DiscardWhileWaiting \/ ClearStopped \/ Pump \/ Stopped
  BY <1>1, <1>10 DEF DiscardWhileWaiting, AwaitingClear, ClearStopped, AppIdle, Pump, Drain,
     Stopped, vars, mutexVars, appVars
<1> QED
  BY <1>2, <1>3, <1>4, <1>5, <1>6, <1>7, <1>8, <1>9, <1>10 DEF App, Continue

\* The invariant of a worker whose configuration is steady.
LEMMA SteadyInvHolds == Steady => (Spec => []RxInv)
<1> SUFFICES ASSUME Steady PROVE Spec => []RxInv
  OBVIOUS
<1>1. Init => RxInv
  <2> SUFFICES ASSUME Init PROVE RxInv
    OBVIOUS
  <2>1. CallsInv /\ cfg \in Configs
    BY WorkerAssumption, InitCalls DEF Init
  <2>2. HighWater(cfg) \in Int /\ (cfg.backpressure => HighWater(cfg) > 0)
    BY <2>1, WorkerAssumption, SteadyWatermarks
  <2>3. Throttled
    BY <2>2, WorkerAssumption DEF Init, Throttled, WorkerAssumption
  <2>4. Unconfigured
    BY DEF Init, Unconfigured, Settled, Holding, Executing
  <2> QED
    BY <2>1, <2>3, <2>4 DEF RxInv
<1>2. RxInv /\ [Next]_vars => RxInv'
  <2> SUFFICES ASSUME RxInv, [Next]_vars PROVE RxInv'
    OBVIOUS
  <2>1. CallsInv /\ Unconfigured /\ Throttled /\ Counts /\ Numbered /\ Halting /\ cfg \in Configs
    BY DEF RxInv, CallsInv, IInv, Calls, Counts, Typed
  <2>2. CallsInv' /\ Unconfigured'
    BY <2>1, WorkerAssumption, NextCalls, UnconfiguredKept
  <2>3. Throttled'
    <3>1. CASE App \/ Stopped
      BY <2>1, <3>1, WorkerAssumption, AppThrottled
    <3>2. CASE Worker \/ Throw
      BY <2>1, <3>2, WorkerAssumption, WatermarkTyped, WorkerThrottled
    <3>3. CASE UNCHANGED vars
      BY <2>1, <3>3 DEF Throttled, Calling, vars, mutexVars, appVars
    <3> QED
      BY <3>1, <3>2, <3>3 DEF Next
  <2> QED
    BY <2>2, <2>3 DEF RxInv
<1> QED
  BY <1>1, <1>2, PTL DEF Spec

\* With backpressure and a steady configuration the queue exceeds its high watermark by at most the
\* one chunk whose poster then blocks.
THEOREM QueueBounded == Steady => (Spec => []RxBound)
<1>1. RxInv => RxBound
  BY DEF RxInv, Throttled, RxBound
<1> QED
  BY <1>1, SteadyInvHolds, PTL
=============================================================================
