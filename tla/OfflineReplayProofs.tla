------------------------ MODULE OfflineReplayProofs ------------------------
(***************************************************************************)
(* Faithfulness of the offline replay, for every capture: what is drawn    *)
(* was made of the recorded events in their order, and a drain that ends   *)
(* has drawn everything.                                                   *)
(*                                                                         *)
(* The proof follows every submitted piece - drawn, waiting to be drawn,   *)
(* put out by the worker, in the callback that runs, or in the input of    *)
(* the worker - and shows that these, one behind the other, are always     *)
(* what the capture submits.                                               *)
(***************************************************************************)
EXTENDS OfflineReplay, FiniteSetTheorems, FunctionTheorems, SequenceTheorems, TLAPS

-----------------------------------------------------------------------------
(* Flattening, one sequence at a time                                       *)

\* Induction without an operator to instantiate: of a set of naturals that holds 0 and the
\* successor of each of its members, what is below a missing member would be a finite set
\* mapped one to one into less than itself.
LEMMA NatSet ==
    ASSUME NEW S \in SUBSET Nat, 0 \in S, \A n \in S : n + 1 \in S
    PROVE  S = Nat
<1> SUFFICES ASSUME NEW m \in Nat, m \notin S PROVE FALSE
  OBVIOUS
<1> DEFINE T == {k \in S : k <= m}
           U == T \ {0}
           f == [k \in T |-> k + 1]
<1>1. IsFiniteSet(T)
  BY FS_BoundedSetOfNaturals
<1>2. 0 \in T
  OBVIOUS
<1>3. ASSUME NEW k \in T PROVE k + 1 \in U
  <2>1. k # m /\ k \in Nat /\ k <= m /\ k + 1 \in S
    OBVIOUS
  <2>2. k + 1 <= m /\ k + 1 # 0
    BY <2>1
  <2> QED
    BY <2>1, <2>2
<1>4. f \in Injection(T, U)
  <2>1. f \in [T -> U]
    BY <1>3
  <2>2. \A j, k \in T : f[j] = f[k] => j = k
    OBVIOUS
  <2> HIDE DEF f, T, U
  <2> QED
    BY <2>1, <2>2 DEF Injection, IsInjective
<1> HIDE DEF f, T
<1>5. IsFiniteSet(U) /\ Cardinality(U) = Cardinality(T) - 1
  BY <1>1, <1>2, FS_RemoveElement
<1>6. Cardinality(T) <= Cardinality(U)
  <2> HIDE DEF U
  <2> QED
    BY <1>4, <1>5, FS_Injection
<1>7. Cardinality(T) \in Nat
  BY <1>1, FS_CardinalityType
<1> QED
  BY <1>5, <1>6, <1>7

\* f is the function by which FlattenSeq computes s, as far as n.
Flattens(f, s, n) == \A i \in 1 .. n : f[i] = IF i = 1 THEN s[i] ELSE f[i - 1] \o s[i]

\* There is a function that flattens step by step, so the recursive one of FlattenSeq is it.
LEMMA FlattensExists ==
    ASSUME NEW D, NEW s \in Seq(Seq(D))
    PROVE  \E f \in [1 .. Len(s) -> Seq(D)] : Flattens(f, s, Len(s))
<1> DEFINE N == Len(s)
           Up(f, n) == \A i \in 1 .. n : f[i] = IF i = 1 THEN s[i] ELSE f[i - 1] \o s[i]
           S == {n \in Nat : n <= N => \E f \in [1 .. n -> Seq(D)] : Up(f, n)}
<1>1. N \in Nat /\ \A i \in 1 .. N : s[i] \in Seq(D)
  BY LenProperties, ElementOfSeq
<1>2. 0 \in S
  <2> DEFINE f == [i \in 1 .. 0 |-> <<>>]
  <2>1. f \in [1 .. 0 -> Seq(D)] /\ Up(f, 0)
    OBVIOUS
  <2> QED
    BY <2>1
<1>3. ASSUME NEW n \in S PROVE n + 1 \in S
  <2>1. n \in Nat /\ n + 1 \in Nat
    OBVIOUS
  <2> SUFFICES ASSUME n + 1 <= N PROVE \E f \in [1 .. n + 1 -> Seq(D)] : Up(f, n + 1)
    BY <2>1
  <2>2. n <= N
    BY <1>1, <2>1
  <2>3. PICK f \in [1 .. n -> Seq(D)] : Up(f, n)
    BY <2>2
  <2> DEFINE g == [i \in 1 .. n + 1 |-> IF i <= n THEN f[i]
                                       ELSE IF n = 0 THEN s[1] ELSE f[n] \o s[n + 1]]
  <2>4. s[n + 1] \in Seq(D) /\ s[1] \in Seq(D)
    BY <1>1, <2>1
  <2>5. n # 0 => f[n] \in Seq(D) /\ f[n] \o s[n + 1] \in Seq(D)
    BY <2>1, <2>4, ConcatProperties
  <2>6. \A i \in 1 .. n + 1 : g[i] \in Seq(D)
    BY <2>1, <2>4, <2>5
  <2>7. g \in [1 .. n + 1 -> Seq(D)]
    BY <2>6
  <2>8. ASSUME NEW i \in 1 .. n + 1
        PROVE  g[i] = IF i = 1 THEN s[i] ELSE g[i - 1] \o s[i]
    <3>1. CASE i <= n
      <4>1. i \in 1 .. n /\ i \in Nat /\ i >= 1
        BY <2>1, <3>1
      <4>2. g[i] = f[i] /\ (i # 1 => g[i - 1] = f[i - 1])
        BY <2>1, <3>1, <4>1
      <4>3. f[i] = IF i = 1 THEN s[i] ELSE f[i - 1] \o s[i]
        BY <2>3, <4>1
      <4> HIDE DEF g
      <4> QED
        BY <4>2, <4>3
    <3>2. CASE i = n + 1
      <4>1. n # 0 => g[n] = f[n] /\ i # 1 /\ i - 1 = n
        BY <2>1, <3>2
      <4>2. g[i] = IF n = 0 THEN s[1] ELSE f[n] \o s[n + 1]
        BY <2>1, <3>2
      <4> HIDE DEF g
      <4> QED
        BY <3>2, <4>1, <4>2
    <3> QED
      BY <2>1, <3>1, <3>2
  <2> HIDE DEF g
  <2> QED
    BY <2>7, <2>8
<1>4. S \in SUBSET Nat
  OBVIOUS
<1> HIDE DEF S
<1>5. S = Nat
  BY <1>2, <1>3, <1>4, NatSet
<1>6. N \in S
  BY <1>1, <1>5
<1> QED
  BY <1>6 DEF S, Flattens

\* Two such functions agree.
LEMMA FlattensAgree ==
    ASSUME NEW s, NEW f, NEW g, NEW n \in Nat, Flattens(f, s, n), Flattens(g, s, n)
    PROVE  \A i \in 1 .. n : f[i] = g[i]
<1> DEFINE S == {k \in Nat : k \in 1 .. n => f[k] = g[k]}
<1>1. 0 \in S
  OBVIOUS
<1>2. ASSUME NEW k \in S PROVE k + 1 \in S
  <2> SUFFICES ASSUME k + 1 \in 1 .. n PROVE f[k + 1] = g[k + 1]
    OBVIOUS
  <2>1. (k + 1 # 1 => k \in 1 .. n) /\ k \in Nat
    OBVIOUS
  <2>2. k + 1 # 1 => f[k] = g[k]
    BY <2>1
  <2>3. f[k + 1] = IF k + 1 = 1 THEN s[k + 1] ELSE f[(k + 1) - 1] \o s[k + 1]
    BY <2>1 DEF Flattens
  <2>4. g[k + 1] = IF k + 1 = 1 THEN s[k + 1] ELSE g[(k + 1) - 1] \o s[k + 1]
    BY <2>1 DEF Flattens
  <2>5. (k + 1) - 1 = k
    BY <2>1
  <2> QED
    BY <2>2, <2>3, <2>4, <2>5
<1>3. S \in SUBSET Nat
  OBVIOUS
<1> HIDE DEF S
<1>4. S = Nat
  BY <1>1, <1>2, <1>3, NatSet
<1> QED
  BY <1>4 DEF S

\* What FlattenSeq chooses flattens step by step.
LEMMA FlattenIs ==
    ASSUME NEW D, NEW s \in Seq(Seq(D)), Len(s) # 0,
           NEW f \in [1 .. Len(s) -> Seq(D)], Flattens(f, s, Len(s))
    PROVE  FlattenSeq(s) = f[Len(s)]
<1> DEFINE N == Len(s)
           IsIt(h) == h = [i \in 1 .. N |-> IF i = 1 THEN s[i] ELSE h[i - 1] \o s[i]]
           c == CHOOSE h : IsIt(h)
<1>1. N \in Nat
  BY LenProperties
<1>2. IsIt(f)
  <2>1. f = [i \in 1 .. N |-> f[i]]
    OBVIOUS
  <2>2. \A i \in 1 .. N : f[i] = IF i = 1 THEN s[i] ELSE f[i - 1] \o s[i]
    BY DEF Flattens
  <2> QED
    BY <2>1, <2>2
<1>3. IsIt(c)
  BY <1>2
<1>4. FlattenSeq(s) = c[N]
  BY DEF FlattenSeq
<1>5. Flattens(c, s, N)
  <2> SUFFICES ASSUME NEW i \in 1 .. N
               PROVE  c[i] = IF i = 1 THEN s[i] ELSE c[i - 1] \o s[i]
    BY DEF Flattens
  <2> HIDE DEF c
  <2> QED
    BY <1>3
<1> HIDE DEF c
<1>6. \A i \in 1 .. N : c[i] = f[i]
  BY <1>1, <1>5, FlattensAgree
<1> QED
  BY <1>1, <1>4, <1>6

\* Flattening one sequence more appends it.
LEMMA FlattenStep ==
    ASSUME NEW D, NEW n \in Nat, NEW s \in Seq(Seq(D)), NEW t \in Seq(Seq(D)),
           Len(t) = n, Len(s) = n + 1, \A i \in 1 .. n : t[i] = s[i]
    PROVE  FlattenSeq(t) \in Seq(D) /\ FlattenSeq(s) = FlattenSeq(t) \o s[n + 1]
<1>1. PICK f : f \in [1 .. Len(s) -> Seq(D)] /\ Flattens(f, s, Len(s))
  BY FlattensExists
<1>2. PICK g : g \in [1 .. Len(t) -> Seq(D)] /\ Flattens(g, t, Len(t))
  BY FlattensExists
<1>3. FlattenSeq(s) = f[n + 1]
  <2>1. Len(s) # 0
    OBVIOUS
  <2>2. FlattenSeq(s) = f[Len(s)]
    BY <1>1, <2>1, FlattenIs, Zenon
  <2> QED
    BY <2>2
<1>4. s[n + 1] \in Seq(D)
  BY ElementOfSeq
<1>5. CASE n = 0
  <2>1. f[1] = s[1]
    BY <1>1, <1>5 DEF Flattens
  <2>2. t = <<>>
    BY <1>5, EmptySeq
  <2>3. FlattenSeq(t) = <<>>
    BY <1>5, <2>2 DEF FlattenSeq
  <2>4. <<>> \o s[1] = s[1] /\ <<>> \in Seq(D)
    BY <1>4, <1>5, ConcatEmptySeq
  <2> QED
    BY <1>3, <1>5, <2>1, <2>3, <2>4
<1>6. CASE n # 0
  <2>1. FlattenSeq(t) = g[n]
    BY <1>2, <1>6, FlattenIs, Zenon
  <2>2. f[n + 1] = f[n] \o s[n + 1]
    <3>1. n + 1 \in 1 .. Len(s)
      OBVIOUS
    <3>2. f[n + 1] = IF n + 1 = 1 THEN s[n + 1] ELSE f[(n + 1) - 1] \o s[n + 1]
      BY <1>1, <3>1, Zenon DEF Flattens
    <3>3. (n + 1) - 1 = n /\ n + 1 # 1
      BY <1>6
    <3> QED
      BY <3>2, <3>3
  <2>3. \A i \in 1 .. n : f[i] = g[i]
    <3>1. Flattens(f, s, n + 1) /\ Flattens(g, t, n)
      BY <1>1, <1>2
    <3>2. \A i \in 1 .. n : i \in 1 .. n + 1
      OBVIOUS
    <3>3. Flattens(f, s, n)
      BY <3>1, <3>2, Zenon DEF Flattens
    <3>4. Flattens(g, s, n)
      BY <3>1, Zenon DEF Flattens
    <3> QED
      BY <3>3, <3>4, FlattensAgree
  <2>4. n \in 1 .. n /\ n \in 1 .. Len(t)
    BY <1>6
  <2>5. g[n] \in Seq(D) /\ f[n] = g[n]
    BY <1>2, <2>3, <2>4
  <2> QED
    BY <1>3, <2>1, <2>2, <2>5, Zenon
<1> QED
  BY <1>5, <1>6
-----------------------------------------------------------------------------
(* The inductive invariant                                                  *)

Phases == {"Paused", "Preparing", "Replaying", "Draining", "Completed", "Failed", "Cancelled"}
Answers == {"none", "waiting", "ok", "bad"}
Stages == {"free", "preparing", "flushing", "flushed", "marked", "looping", "draining", "drained"}
Pacings == {"timeline", "fast"}
Commands == [op : {"load", "profile", "bytes"}, at : Nat, part : Nat]
Profiles == Nat \cup {ProfileBefore(i) : i \in Nat}
Pieces == [at : Nat, part : Nat, profile : Profiles]

Replays == [loaded : BOOLEAN, mode : {"browse", "lua"}, phase : Phases, playing : BOOLEAN,
            index : 0 .. Total, started : BOOLEAN, offset : 0 .. Slices,
            target : Nat, done : Nat, resume : BOOLEAN,
            pacing : Pacings, pacingAfter : Pacings,
            prep : Answers, fence : Answers, fenceOf : Nat, rebuilding : BOOLEAN]
Workers == [alive : BOOLEAN, input : Seq(Commands), exec : Seq(Commands),
            profile : Profiles, outputs : Seq(Pieces)]

TypeOK ==
    /\ replay \in Replays /\ worker \in Workers
    /\ pending \in Seq(Pieces) /\ shown \in Seq(Pieces) /\ rows \in Seq(Nat)
    /\ stage \in Stages /\ prepared \in BOOLEAN /\ chosen \in Pacings /\ calls \in Nat

\* The timeline has the worker it needs.
Live == replay.loaded /\ (Lua => worker.alive)

\* What a command will be drawn as, if the profile at its turn is the one it was recorded under.
PieceOf(c) == Piece(c.at, c.part, ProfileBefore(c.at))
IsBytes(c) == c.op = "bytes"
OfExec == IF worker.exec # <<>> /\ IsBytes(worker.exec[1])
          THEN <<PieceOf(worker.exec[1])>> ELSE <<>>
OfInput == IF replay.fence = "waiting" THEN <<>>
           ELSE [j \in 1 .. Len(worker.input) |-> PieceOf(worker.input[j])]

\* What is submitted and not drawn yet, the oldest first.
OnTheWay == pending \o (worker.outputs \o (OfExec \o OfInput))

\* Where a round of the application may be, and what the timeline does then.
StageOK ==
    /\ stage # "free" => replay.loaded
    /\ stage = "preparing" => replay.phase = "Preparing"
    /\ stage \in {"flushing", "flushed", "marked"} => replay.phase \notin {"Preparing", "Draining"}
    /\ stage \in {"flushing", "flushed"} => Lua
    /\ stage = "looping" => replay.phase = "Replaying" /\ replay.playing
    /\ stage \in {"draining", "drained"} => replay.phase = "Draining"

\* Without its worker, and without a timeline, nothing is left that could be drawn.
NothingRuns ==
    /\ ~Lua \/ ~worker.alive => worker = NoWorker /\ pending = <<>>
    /\ ~replay.loaded => worker = NoWorker /\ ~prepared /\ pending = <<>>
    /\ replay.loaded /\ ~Live => replay.phase # "Preparing"
    /\ replay.loaded /\ ~Live /\ "resume cancelled" \notin Risky => replay.phase = "Cancelled" /\ ~replay.playing
    /\ ~Lua => replay.fence = "none" /\ replay.phase # "Preparing" /\ replay.phase # "Failed"

\* Before the display is cleared nothing was submitted, and the worker only loads the script.
Unprepared ==
    replay.loaded /\ ~prepared =>
        /\ Lua /\ replay.index = 0 /\ ~replay.started /\ replay.fence = "none" /\ ~replay.rebuilding
        /\ worker.alive =>
              /\ replay.phase \in {"Preparing", "Failed"} /\ worker.profile = 0
              /\ worker.input \in {<<>>, <<LoadCommand>>}
              /\ worker.exec \in {<<>>, <<LoadCommand>>}

\* The event that the timeline is in the middle of.
SliceOK ==
    /\ replay.started => /\ Lua /\ ~AtEnd /\ Capture[Current] = "legacy" /\ replay.offset > 0
    /\ ~replay.started => replay.offset = 0

\* The worker of a prepared timeline: a change of profile is alone on its way, and the bytes
\* before and behind it meet the profile under which they were recorded.
ProfileOK ==
    prepared /\ Live =>
        /\ Len(worker.exec) <= 1
        /\ worker.exec # <<>> => worker.exec[1].op # "load"
        /\ replay.fence = "waiting" =>
              /\ worker.input = <<ProfileCommand(replay.index)>>
              /\ worker.exec = <<>> /\ ~replay.started
              /\ replay.fenceOf = replay.index /\ replay.index > 0
              /\ Capture[replay.index] = "profile"
        /\ replay.fence # "waiting" => \A j \in 1 .. Len(worker.input) : IsBytes(worker.input[j])
        /\ \A j \in 1 .. Len(worker.input) :
              IsBytes(worker.input[j]) => ProfileBefore(worker.input[j].at) = worker.profile
        /\ worker.exec # <<>> /\ IsBytes(worker.exec[1]) =>
              ProfileBefore(worker.exec[1].at) = worker.profile
        /\ Lua /\ FenceOpen /\ replay.phase # "Failed" => worker.profile = ProfileBefore(Current)

\* Every piece that was submitted is drawn or on its way, in the order of the capture; when the
\* worker was taken away, what was drawn before is still the beginning of it.
DisplayOK ==
    /\ prepared /\ Live => shown \o OnTheWay = Submitted
    /\ prepared => \E rest \in Seq(Pieces) : shown \o rest = Submitted
    /\ prepared => rows = ExpectedRows(IF replay.started THEN Current ELSE replay.index)

\* The worker of a prepared timeline may draw; one that is complete has nothing left to draw.
DrawingOK ==
    prepared /\ Live =>
        /\ replay.phase # "Preparing"
        /\ replay.phase = "Completed" => AtEnd /\ ~replay.playing /\ Idle /\ pending = <<>>
        /\ Lua /\ replay.phase # "Completed" => replay.rebuilding

IInv == /\ TypeOK /\ StageOK /\ NothingRuns /\ Unprepared
        /\ SliceOK /\ ProfileOK /\ DisplayOK /\ DrawingOK
-----------------------------------------------------------------------------
(* What the events show                                                     *)

LEMMA ProfileBeforeType == \A i \in Nat : ProfileBefore(i) \in Profiles
  BY DEF Profiles

\* A capture has events, each of a kind the recorder writes.
LEMMA CaptureFacts ==
    /\ Total \in Nat /\ Total > 0 /\ Events = 1 .. Total
    /\ \A i \in 1 .. Total : Capture[i] \in EventKinds
    /\ Slices \in Nat /\ Slices > 0
<1>1. Capture \in Seq(EventKinds) /\ Capture # <<>> /\ Slices \in Nat \ {0}
  BY ReplayAssumption
<1>2. Len(Capture) \in Nat /\ DOMAIN Capture = 1 .. Len(Capture)
  BY <1>1, LenProperties
<1>3. Len(Capture) # 0
  BY <1>1, EmptySeq
<1>4. \A i \in 1 .. Len(Capture) : Capture[i] \in EventKinds
  BY <1>1, ElementOfSeq
<1> QED
  BY <1>1, <1>2, <1>3, <1>4 DEF Total, Events

\* The profile in force changes at a profile event, to the one it brings.
LEMMA ProfileBeforeNext ==
    /\ ProfileBefore(1) = 0
    /\ \A i \in 1 .. Total : ProfileBefore(i + 1) =
                                IF Capture[i] = "profile" THEN i ELSE ProfileBefore(i)
<1> DEFINE B(i) == {j \in Events : j < i /\ Capture[j] = "profile"}
           Latest(s) == IF s = {} THEN 0 ELSE CHOOSE j \in s : \A k \in s : k <= j
<1>1. \A i : ProfileBefore(i) = Latest(B(i))
  BY DEF ProfileBefore
<1>2. B(1) = {}
  BY CaptureFacts
<1>3. Latest({}) = 0
  OBVIOUS
<1>4. ASSUME NEW i \in 1 .. Total, Capture[i] = "profile" PROVE Latest(B(i + 1)) = i
  <2>1. i \in B(i + 1) /\ \A k \in B(i + 1) : k \in Nat /\ k <= i
    BY <1>4, CaptureFacts
  <2> DEFINE s == B(i + 1)
             c == CHOOSE j \in s : \A k \in s : k <= j
  <2>2. s # {} /\ \E j \in s : \A k \in s : k <= j
    BY <2>1
  <2>3. c \in s /\ \A k \in s : k <= c
    BY <2>2
  <2>4. c = i
    <3> HIDE DEF c
    <3>1. c \in Nat /\ c <= i /\ i <= c /\ i \in Nat
      BY <2>1, <2>3
    <3> QED
      BY <3>1
  <2> QED
    BY <2>2, <2>4
<1>5. ASSUME NEW i \in 1 .. Total, Capture[i] # "profile" PROVE B(i + 1) = B(i)
  <2>1. \A j \in Events : j < i + 1 <=> j < i \/ j = i
    BY CaptureFacts
  <2> QED
    BY <1>5, <2>1
<1> HIDE DEF B, Latest
<1> QED
  BY <1>1, <1>2, <1>3, <1>4, <1>5

LEMMA PiecesOfType ==
    ASSUME NEW mode, NEW i \in 1 .. Total
    PROVE  PiecesOf(mode, i) \in Seq(Pieces)
<1> DEFINE a == Piece(i, 0, 0)
           b == Piece(i, 1, ProfileBefore(i))
           c == [p \in 1 .. Slices |-> Piece(i, p, ProfileBefore(i))]
<1>1. i \in Nat /\ ProfileBefore(i) \in Profiles /\ 0 \in Profiles
  BY CaptureFacts, ProfileBeforeType DEF Profiles
<1>2. a \in Pieces /\ b \in Pieces
  BY <1>1 DEF Piece, Pieces
<1>3. <<a>> \in Seq(Pieces) /\ <<b>> \in Seq(Pieces) /\ <<>> \in Seq(Pieces)
  BY <1>2
<1>4. c \in Seq(Pieces)
  <2>1. \A p \in 1 .. Slices : Piece(i, p, ProfileBefore(i)) \in Pieces
    BY <1>1, CaptureFacts DEF Piece, Pieces
  <2>2. c \in [1 .. Slices -> Pieces]
    BY <2>1
  <2> HIDE DEF c
  <2> QED
    BY <2>2, CaptureFacts, SeqDef
<1> HIDE DEF a, b, c
<1>5. PiecesOf(mode, i) \in {<<a>>, <<b>>, c, <<>>}
  BY DEF PiecesOf, a, b, c
<1> QED
  BY <1>3, <1>4, <1>5

\* One event more shows its pieces behind those of the others.
LEMMA ExpectedStep ==
    ASSUME NEW mode, NEW k \in 0 .. (Total - 1)
    PROVE  /\ Expected(mode, k) \in Seq(Pieces)
           /\ Expected(mode, k + 1) = Expected(mode, k) \o PiecesOf(mode, k + 1)
<1> DEFINE T(n) == [i \in 1 .. n |-> PiecesOf(mode, i)]
<1>1. k \in Nat /\ k + 1 \in Nat /\ k + 1 <= Total
  BY CaptureFacts
<1>2. ASSUME NEW n \in Nat, n <= Total PROVE T(n) \in Seq(Seq(Pieces)) /\ Len(T(n)) = n
  <2>1. \A i \in 1 .. n : PiecesOf(mode, i) \in Seq(Pieces)
    BY <1>2, CaptureFacts, PiecesOfType
  <2>2. T(n) \in [1 .. n -> Seq(Pieces)]
    BY <2>1
  <2>3. DOMAIN T(n) = 1 .. n
    OBVIOUS
  <2> HIDE DEF T
  <2>4. T(n) \in Seq(Seq(Pieces))
    BY <2>2, SeqDef
  <2> QED
    BY <2>3, <2>4, LenProperties
<1>3. \A i \in 1 .. k : T(k)[i] = T(k + 1)[i]
  BY <1>1
<1>4. T(k + 1)[k + 1] = PiecesOf(mode, k + 1)
  BY <1>1
<1>5. Expected(mode, k) = FlattenSeq(T(k)) /\ Expected(mode, k + 1) = FlattenSeq(T(k + 1))
  BY DEF Expected
<1> HIDE DEF T
<1>6. k <= Total
  BY <1>1, CaptureFacts
<1>7. T(k) \in Seq(Seq(Pieces)) /\ Len(T(k)) = k
  BY <1>1, <1>2, <1>6
<1>8. T(k + 1) \in Seq(Seq(Pieces)) /\ Len(T(k + 1)) = k + 1
  BY <1>1, <1>2
<1>9. FlattenSeq(T(k)) \in Seq(Pieces) /\ FlattenSeq(T(k + 1)) = FlattenSeq(T(k)) \o T(k + 1)[k + 1]
  BY <1>1, <1>3, <1>7, <1>8, FlattenStep
<1> QED
  BY <1>4, <1>5, <1>9

LEMMA ExpectedType ==
    ASSUME NEW mode, NEW k \in 0 .. Total
    PROVE  Expected(mode, k) \in Seq(Pieces)
<1>1. CASE k < Total
  <2>1. k \in 0 .. (Total - 1)
    BY <1>1, CaptureFacts
  <2> QED
    BY <2>1, ExpectedStep
<1>2. CASE k = Total
  <2> DEFINE j == Total - 1
  <2>1. j \in 0 .. (Total - 1) /\ j + 1 = k /\ j + 1 \in 1 .. Total
    BY <1>2, CaptureFacts
  <2> HIDE DEF j
  <2>2. Expected(mode, j) \in Seq(Pieces) /\ Expected(mode, j + 1) = Expected(mode, j) \o PiecesOf(mode, j + 1)
    BY <2>1, ExpectedStep
  <2>3. PiecesOf(mode, j + 1) \in Seq(Pieces)
    BY <2>1, PiecesOfType
  <2>4. Expected(mode, j + 1) \in Seq(Pieces)
    BY <2>2, <2>3, ConcatProperties
  <2> QED
    BY <2>1, <2>4
<1> QED
  BY <1>1, <1>2, CaptureFacts

LEMMA ExpectedNone == \A mode : Expected(mode, 0) = <<>>
<1> SUFFICES ASSUME NEW mode PROVE Expected(mode, 0) = <<>>
  OBVIOUS
<1> DEFINE t == [i \in 1 .. 0 |-> PiecesOf(mode, i)]
<1>1. t = <<>>
  OBVIOUS
<1>2. FlattenSeq(<<>>) = <<>>
  BY DEF FlattenSeq
<1> HIDE DEF t
<1>3. Expected(mode, 0) = FlattenSeq(t)
  BY DEF Expected, t
<1> QED
  BY <1>1, <1>2, <1>3

\* What the first events show is the beginning of what all show.
LEMMA ExpectedPrefix ==
    ASSUME NEW mode, NEW k \in 0 .. Total
    PROVE  \E rest \in Seq(Pieces) : Expected(mode, k) \o rest = Expected(mode, Total)
<1> DEFINE Good(n) == \E rest \in Seq(Pieces) : Expected(mode, n) \o rest = Expected(mode, Total)
           S == {d \in Nat : d <= Total => Good(Total - d)}
<1>1. 0 \in S
  <2>1. Expected(mode, Total) \o <<>> = Expected(mode, Total) /\ <<>> \in Seq(Pieces)
    BY ExpectedType, ConcatEmptySeq, CaptureFacts
  <2>2. Total - 0 = Total
    BY CaptureFacts
  <2>3. Good(Total)
    BY <2>1
  <2> QED
    BY <2>2, <2>3
<1>2. ASSUME NEW d \in S PROVE d + 1 \in S
  <2>1. d \in Nat /\ d + 1 \in Nat
    OBVIOUS
  <2> SUFFICES ASSUME d + 1 <= Total PROVE Good(Total - (d + 1))
    BY <2>1
  <2> DEFINE n == Total - (d + 1)
  <2>2. n \in 0 .. (Total - 1) /\ n + 1 = Total - d /\ d <= Total /\ n + 1 \in 1 .. Total
    BY <2>1, CaptureFacts
  <2>3. Good(n + 1)
    BY <2>1, <2>2
  <2> HIDE DEF n
  <2>4. PICK rest \in Seq(Pieces) : Expected(mode, n + 1) \o rest = Expected(mode, Total)
    BY <2>3
  <2>5. /\ Expected(mode, n) \in Seq(Pieces)
        /\ Expected(mode, n + 1) = Expected(mode, n) \o PiecesOf(mode, n + 1)
    BY <2>2, ExpectedStep
  <2>6. PiecesOf(mode, n + 1) \in Seq(Pieces)
    BY <2>2, PiecesOfType
  <2> DEFINE more == PiecesOf(mode, n + 1) \o rest
  <2>7. more \in Seq(Pieces)
    BY <2>6, ConcatProperties
  <2>8. Expected(mode, n) \o more = Expected(mode, Total)
    <3>1. (Expected(mode, n) \o PiecesOf(mode, n + 1)) \o rest = Expected(mode, n) \o more
      BY <2>5, <2>6, ConcatAssociative
    <3> QED
      BY <2>4, <2>5, <3>1
  <2>9. Good(n)
    BY <2>7, <2>8
  <2> QED
    BY <2>9 DEF n
<1>3. S \in SUBSET Nat
  OBVIOUS
<1> HIDE DEF S
<1>4. S = Nat
  BY <1>1, <1>2, <1>3, NatSet
<1> DEFINE e == Total - k
<1>5. e \in Nat /\ e <= Total /\ Total - e = k
  BY CaptureFacts
<1> HIDE DEF e
<1>6. Good(Total - e)
  BY <1>4, <1>5 DEF S
<1> QED
  BY <1>5, <1>6

\* The rows of the first events.
LEMMA ExpectedRowsStep ==
    /\ ExpectedRows(0) = <<>>
    /\ \A k \in 0 .. (Total - 1) :
          /\ ExpectedRows(k) \in Seq(Nat)
          /\ ExpectedRows(k + 1) = IF HasBytes(k + 1) THEN Append(ExpectedRows(k), k + 1)
                                   ELSE ExpectedRows(k)
<1> DEFINE R(i) == IF HasBytes(i) THEN <<i>> ELSE <<>>
           T(n) == [i \in 1 .. n |-> R(i)]
<1>1. ExpectedRows(0) = <<>>
  <2>1. T(0) = <<>>
    OBVIOUS
  <2>2. FlattenSeq(<<>>) = <<>>
    BY DEF FlattenSeq
  <2>3. ExpectedRows(0) = FlattenSeq(T(0))
    BY DEF ExpectedRows
  <2> HIDE DEF T
  <2> QED
    BY <2>1, <2>2, <2>3
<1>2. ASSUME NEW k \in 0 .. (Total - 1)
      PROVE  /\ ExpectedRows(k) \in Seq(Nat)
             /\ ExpectedRows(k + 1) = IF HasBytes(k + 1) THEN Append(ExpectedRows(k), k + 1)
                                      ELSE ExpectedRows(k)
  <2>1. k \in Nat /\ k + 1 \in Nat
    BY CaptureFacts
  <2>2. \A i \in Nat : R(i) \in Seq(Nat)
    <3>1. \A i \in Nat : <<i>> \in Seq(Nat) /\ <<>> \in Seq(Nat)
      OBVIOUS
    <3> QED
      BY <3>1
  <2>3. ASSUME NEW n \in Nat PROVE T(n) \in Seq(Seq(Nat)) /\ Len(T(n)) = n
    <3>1. \A i \in 1 .. n : R(i) \in Seq(Nat)
      BY <2>2
    <3>2. DOMAIN T(n) = 1 .. n
      OBVIOUS
    <3> HIDE DEF R
    <3>3. T(n) \in [1 .. n -> Seq(Nat)]
      BY <3>1
    <3> HIDE DEF T
    <3>4. T(n) \in Seq(Seq(Nat))
      BY <3>3, SeqDef
    <3> QED
      BY <3>2, <3>4, LenProperties
  <2>4. ExpectedRows(k) = FlattenSeq(T(k)) /\ ExpectedRows(k + 1) = FlattenSeq(T(k + 1))
    BY DEF ExpectedRows
  <2>5. (\A i \in 1 .. k : T(k)[i] = T(k + 1)[i]) /\ T(k + 1)[k + 1] = R(k + 1)
    <3> HIDE DEF R
    <3> QED
      BY <2>1
  <2> HIDE DEF T, R
  <2>6. T(k) \in Seq(Seq(Nat)) /\ Len(T(k)) = k
    BY <2>1, <2>3
  <2>7. T(k + 1) \in Seq(Seq(Nat)) /\ Len(T(k + 1)) = k + 1
    BY <2>1, <2>3
  <2>8. FlattenSeq(T(k)) \in Seq(Nat) /\ FlattenSeq(T(k + 1)) = FlattenSeq(T(k)) \o T(k + 1)[k + 1]
    BY <2>1, <2>5, <2>6, <2>7, FlattenStep
  <2>9. ExpectedRows(k) \in Seq(Nat) /\ ExpectedRows(k + 1) = ExpectedRows(k) \o R(k + 1)
    BY <2>4, <2>5, <2>8
  <2>10. CASE HasBytes(k + 1)
    <3>1. R(k + 1) = <<k + 1>>
      BY <2>10 DEF R
    <3>2. Append(ExpectedRows(k), k + 1) = ExpectedRows(k) \o <<k + 1>>
      BY <2>1, <2>9, AppendIsConcat
    <3> QED
      BY <2>9, <2>10, <3>1, <3>2
  <2>11. CASE ~HasBytes(k + 1)
    <3>1. R(k + 1) = <<>>
      BY <2>11 DEF R
    <3>2. ExpectedRows(k) \o <<>> = ExpectedRows(k)
      BY <2>9, ConcatEmptySeq
    <3> QED
      BY <2>9, <2>11, <3>1, <3>2
  <2> QED
    BY <2>10, <2>11
<1> QED
  BY <1>1, <1>2

-----------------------------------------------------------------------------
(* Sequences in a row                                                       *)

LEMMA Assoc ==
    \A a, b, c \in Seq(Pieces) : (a \o b) \o c = a \o (b \o c)
  BY ConcatAssociative

LEMMA Joined == \A a, b \in Seq(Pieces) : a \o b \in Seq(Pieces)
  BY ConcatProperties

-----------------------------------------------------------------------------
(* What is submitted                                                        *)

SubmittedAt(mode, index, started, offset) ==
    Expected(mode, index)
        \o (IF started THEN SubSeq(PiecesOf(mode, index + 1), 1, offset) ELSE <<>>)

LEMMA SubmittedIs ==
    Submitted = SubmittedAt(replay.mode, replay.index, replay.started, replay.offset)
  BY DEF Submitted, SubmittedAt, Current

\* A legacy event shows one piece for each of its slices.
LEMMA LegacyPieces ==
    ASSUME NEW i \in 1 .. Total, Capture[i] = "legacy"
    PROVE  /\ PiecesOf("lua", i) \in Seq(Pieces) /\ Len(PiecesOf("lua", i)) = Slices
           /\ \A p \in 1 .. Slices : PiecesOf("lua", i)[p] = Piece(i, p, ProfileBefore(i))
<1> DEFINE c == [p \in 1 .. Slices |-> Piece(i, p, ProfileBefore(i))]
<1>1. PiecesOf("lua", i) = c
  BY DEF PiecesOf
<1>2. PiecesOf("lua", i) \in Seq(Pieces)
  BY PiecesOfType
<1>3. DOMAIN c = 1 .. Slices /\ \A p \in 1 .. Slices : c[p] = Piece(i, p, ProfileBefore(i))
  OBVIOUS
<1> HIDE DEF c
<1>4. Len(c) = Slices
  <2>1. DOMAIN c = 1 .. Len(c) /\ Len(c) \in Nat
    BY <1>1, <1>2, LenProperties
  <2> QED
    BY <1>3, <2>1, CaptureFacts
<1> QED
  BY <1>1, <1>2, <1>3, <1>4

\* Between two events all of the earlier ones is submitted.
LEMMA SubmittedBetween ==
    ASSUME NEW mode, NEW index \in 0 .. Total, NEW offset
    PROVE  SubmittedAt(mode, index, FALSE, offset) = Expected(mode, index)
  BY ExpectedType, ConcatEmptySeq DEF SubmittedAt

\* What is submitted so far is the beginning of what the whole capture shows.
LEMMA SubmittedAtType ==
    ASSUME NEW mode, NEW index \in 0 .. Total, NEW started \in BOOLEAN, NEW offset \in 0 .. Slices,
           started => mode = "lua" /\ index < Total /\ Capture[index + 1] = "legacy"
    PROVE  /\ SubmittedAt(mode, index, started, offset) \in Seq(Pieces)
           /\ \E rest \in Seq(Pieces) :
                  SubmittedAt(mode, index, started, offset) \o rest = Expected(mode, Total)
<1>1. CASE ~started
  <2>1. SubmittedAt(mode, index, started, offset) = Expected(mode, index)
    BY <1>1, SubmittedBetween
  <2> QED
    BY <2>1, ExpectedType, ExpectedPrefix
<1>2. CASE started
  <2> DEFINE q == PiecesOf(mode, index + 1)
             a == SubSeq(q, 1, offset)
             b == SubSeq(q, offset + 1, Slices)
             e == Expected(mode, index)
  <2>1. index \in 0 .. (Total - 1) /\ index + 1 \in 1 .. Total /\ mode = "lua" /\ index \in Nat
    BY <1>2, CaptureFacts
  <2>2. q \in Seq(Pieces) /\ Len(q) = Slices
    BY <1>2, <2>1, LegacyPieces
  <2>3. e \in Seq(Pieces) /\ Expected(mode, index + 1) = e \o q
    BY <2>1, ExpectedStep
  <2>4. SubmittedAt(mode, index, started, offset) = e \o a
    BY <1>2 DEF SubmittedAt
  <2> HIDE DEF q, e
  <2>5. a \in Seq(Pieces) /\ b \in Seq(Pieces)
    <3>1. \A i \in 1 .. Slices : q[i] \in Pieces
      BY <2>2, ElementOfSeq
    <3>2. \A i \in 1 .. offset : q[i] \in Pieces
      BY <3>1, CaptureFacts
    <3>3. \A i \in (offset + 1) .. Slices : q[i] \in Pieces
      BY <3>1, CaptureFacts
    <3> QED
      BY <3>2, <3>3, SubSeqProperties, CaptureFacts
  <2>6. a \o b = q
    <3>1. 1 \in 1 .. Len(q) + 1 /\ offset \in (1 - 1) .. Len(q) /\ Slices \in offset .. Len(q)
      BY <2>2, CaptureFacts
    <3>2. SubSeq(q, 1, offset) \o SubSeq(q, offset + 1, Slices) = SubSeq(q, 1, Slices)
      BY <2>2, <3>1, ConcatAdjacentSubSeq
    <3>3. SubSeq(q, 1, Slices) = q
      BY <2>2, SubSeqFull
    <3> QED
      BY <3>2, <3>3
  <2>7. PICK rest \in Seq(Pieces) : Expected(mode, index + 1) \o rest = Expected(mode, Total)
    <3>1. index + 1 \in 0 .. Total
      BY <2>1, CaptureFacts
    <3> QED
      BY <3>1, ExpectedPrefix
  <2> HIDE DEF a, b
  <2>8. (e \o a) \o (b \o rest) = Expected(mode, Total)
    <3>1. e \o a \in Seq(Pieces)
      BY <2>3, <2>5, ConcatProperties
    <3>2. ((e \o a) \o b) \o rest = (e \o a) \o (b \o rest)
      BY ONLY <2>5, <3>1, rest \in Seq(Pieces), Assoc
    <3>3. e \in Seq(Pieces)
      BY <2>3
    <3>4. (e \o a) \o b = e \o (a \o b)
      BY ONLY <2>5, <3>3, Assoc
    <3>5. Expected(mode, index + 1) = e \o q
      BY <2>3
    <3> QED
      BY <2>6, <2>7, <3>2, <3>4, <3>5, Zenon
  <2>9. e \o a \in Seq(Pieces)
    BY <2>3, <2>5, ConcatProperties
  <2>10. b \o rest \in Seq(Pieces)
    BY <2>5, ConcatProperties
  <2> QED
    BY <2>4, <2>8, <2>9, <2>10, Zenon
<1> QED
  BY <1>1, <1>2

\* The timeline passes an event as a whole.
LEMMA PassedSubmits ==
    ASSUME NEW mode, NEW index \in 0 .. (Total - 1), NEW offset
    PROVE  /\ SubmittedAt(mode, index, FALSE, offset) \in Seq(Pieces)
           /\ PiecesOf(mode, index + 1) \in Seq(Pieces)
           /\ SubmittedAt(mode, index + 1, FALSE, 0) =
                 SubmittedAt(mode, index, FALSE, offset) \o PiecesOf(mode, index + 1)
<1>1. index \in 0 .. Total /\ index + 1 \in 0 .. Total /\ index + 1 \in 1 .. Total
  BY CaptureFacts
<1> QED
  BY <1>1, SubmittedBetween, ExpectedStep, PiecesOfType

\* One slice more, and the last of them.
LEMMA SliceSubmits ==
    ASSUME NEW index \in 0 .. (Total - 1), Capture[index + 1] = "legacy",
           NEW started \in BOOLEAN, NEW offset \in 0 .. Slices, ~started => offset = 0
    PROVE  /\ offset < Slices =>
                 SubmittedAt("lua", index, TRUE, offset + 1) =
                    SubmittedAt("lua", index, started, offset)
                       \o <<Piece(index + 1, offset + 1, ProfileBefore(index + 1))>>
           /\ offset = Slices =>
                 SubmittedAt("lua", index + 1, FALSE, 0) = SubmittedAt("lua", index, started, offset)
<1> DEFINE q == PiecesOf("lua", index + 1)
           e == Expected("lua", index)
           p == Piece(index + 1, offset + 1, ProfileBefore(index + 1))
<1>1. index + 1 \in 1 .. Total /\ index \in 0 .. Total /\ index + 1 \in 0 .. Total
  BY CaptureFacts
<1>2. q \in Seq(Pieces) /\ Len(q) = Slices
  BY <1>1, LegacyPieces
<1>3. e \in Seq(Pieces) /\ Expected("lua", index + 1) = e \o q
  BY ExpectedStep
<1>4. SubmittedAt("lua", index, started, offset) = e \o SubSeq(q, 1, offset)
  <2>1. CASE started
    BY <2>1 DEF SubmittedAt
  <2>2. CASE ~started
    <3>1. SubSeq(q, 1, 0) = <<>>
      BY SubSeqEmpty
    <3> HIDE DEF q
    <3>2. SubmittedAt("lua", index, started, offset) = e \o <<>>
      BY <2>2 DEF SubmittedAt
    <3> QED
      BY <2>2, <3>1, <3>2
  <2> QED
    BY <2>1, <2>2
<1>5. SubmittedAt("lua", index, TRUE, offset + 1) = e \o SubSeq(q, 1, offset + 1)
  BY DEF SubmittedAt
<1>6. ASSUME offset < Slices PROVE q[offset + 1] = p
  <2>1. offset + 1 \in 1 .. Slices
    BY <1>6, CaptureFacts
  <2> QED
    BY <1>1, <2>1, LegacyPieces
<1>7. SubmittedAt("lua", index + 1, FALSE, 0) = e \o q
  BY <1>1, <1>3, SubmittedBetween
<1> HIDE DEF q, e, p
<1>8. ASSUME offset < Slices
      PROVE  SubmittedAt("lua", index, TRUE, offset + 1)
                = SubmittedAt("lua", index, started, offset) \o <<p>>
  <2> DEFINE m == offset + 1
  <2>1. m \in 1 .. Len(q) /\ 1 \in 1 .. Len(q) /\ m \in 1 .. m /\ m - 1 = offset
    BY <1>2, <1>8, CaptureFacts
  <2> HIDE DEF m
  <2>2. SubSeq(q, 1, m) = SubSeq(q, 1, m - 1) \o <<q[m]>>
    BY <1>2, <2>1, SubSeqRecursiveSecond
  <2>3. SubSeq(q, 1, offset) \in Seq(Pieces) /\ <<q[m]>> \in Seq(Pieces)
    <3>1. \A i \in 1 .. Len(q) : q[i] \in Pieces
      BY <1>2, ElementOfSeq
    <3>2. \A i \in 1 .. offset : q[i] \in Pieces
      BY <1>2, <1>8, <3>1, CaptureFacts
    <3> QED
      BY <2>1, <3>1, <3>2, SubSeqProperties
  <2>4. (e \o SubSeq(q, 1, offset)) \o <<q[m]>> = e \o (SubSeq(q, 1, offset) \o <<q[m]>>)
    <3>1. e \in Seq(Pieces)
      BY <1>3
    <3> QED
      BY ONLY <2>3, <3>1, Assoc
  <2>5. q[m] = p
    BY <1>6, <1>8 DEF m
  <2>6. SubSeq(q, 1, offset + 1) = SubSeq(q, 1, offset) \o <<p>>
    BY <2>1, <2>2, <2>5 DEF m
  <2> QED
    BY <1>4, <1>5, <2>4, <2>5, <2>6
<1>9. ASSUME offset = Slices
      PROVE  SubmittedAt("lua", index + 1, FALSE, 0) = SubmittedAt("lua", index, started, offset)
  <2>1. SubSeq(q, 1, offset) = q
    BY <1>2, <1>9, SubSeqFull
  <2> QED
    BY <1>4, <1>7, <2>1
<1> QED
  BY <1>8, <1>9 DEF p

-----------------------------------------------------------------------------
(* What is on its way                                                       *)

\* A sequence is its first elements and the others.
LEMMA Halves ==
    ASSUME NEW D, NEW q \in Seq(D), NEW n \in 0 .. Len(q)
    PROVE  /\ SubSeq(q, 1, n) \in Seq(D) /\ SubSeq(q, n + 1, Len(q)) \in Seq(D)
           /\ SubSeq(q, 1, n) \o SubSeq(q, n + 1, Len(q)) = q
<1>1. Len(q) \in Nat /\ \A i \in 1 .. Len(q) : q[i] \in D
  BY LenProperties, ElementOfSeq
<1>2. SubSeq(q, 1, n) \in Seq(D)
  <2>1. \A i \in 1 .. n : q[i] \in D
    BY <1>1
  <2> QED
    BY <1>1, <2>1, SubSeqProperties
<1>3. SubSeq(q, n + 1, Len(q)) \in Seq(D)
  <2>1. \A i \in (n + 1) .. Len(q) : q[i] \in D
    BY <1>1
  <2> QED
    BY <1>1, <2>1, SubSeqProperties
<1>4. SubSeq(q, 1, n) \o SubSeq(q, n + 1, Len(q)) = q
  <2>1. 1 \in 1 .. Len(q) + 1 /\ n \in (1 - 1) .. Len(q) /\ Len(q) \in n .. Len(q)
    BY <1>1
  <2>2. SubSeq(q, 1, n) \o SubSeq(q, n + 1, Len(q)) = SubSeq(q, 1, Len(q))
    BY <2>1, ConcatAdjacentSubSeq
  <2> QED
    BY <2>2, SubSeqFull
<1> QED
  BY <1>2, <1>3, <1>4

\* A flush loses nothing of a timeline that may draw, and draws nothing of one that may not.
LEMMA FlushKeeps ==
    ASSUME TypeOK, NEW f \in Flushes
    PROVE  /\ f.outputs \in Seq(Pieces) /\ f.pending \in Seq(Pieces) /\ f.shown \in Seq(Pieces)
           /\ replay.rebuilding =>
                 f.shown \o (f.pending \o f.outputs) = shown \o (pending \o worker.outputs)
           /\ ~replay.rebuilding => f.pending = pending /\ f.shown = shown
           /\ pending = <<>> /\ worker.outputs = <<>> =>
                 f.pending = <<>> /\ f.outputs = <<>> /\ f.shown = shown
<1> DEFINE o == worker.outputs
           Ns == IF o = <<>> THEN {0} ELSE 1 .. Len(o)
           Drawn(n) == pending \o SubSeq(o, 1, n)
           Left(n) == SubSeq(o, n + 1, Len(o))
           Ks(n) == IF Drawn(n) = <<>> THEN {0} ELSE 1 .. Len(Drawn(n))
<1>1. o \in Seq(Pieces) /\ pending \in Seq(Pieces) /\ shown \in Seq(Pieces)
  BY DEF TypeOK, Workers
<1> DEFINE F(n) == IF ~replay.rebuilding
                   THEN {[outputs |-> Left(n), pending |-> pending, shown |-> shown]}
                   ELSE {[outputs |-> Left(n), pending |-> SubSeq(Drawn(n), k + 1, Len(Drawn(n))),
                          shown |-> shown \o SubSeq(Drawn(n), 1, k)] : k \in Ks(n)}
<1>2. Flushes = UNION {F(n) : n \in Ns}
  BY Zenon DEF Flushes
<1> HIDE DEF F
<1>3. \E n \in Ns : f \in F(n)
  BY <1>2, Zenon
<1>4. PICK n \in Ns : f \in F(n)
  BY <1>3
<1> DEFINE d == Drawn(n)
           l == Left(n)
<1>5. n \in 0 .. Len(o) /\ (o = <<>> => n = 0)
  <2>1. Len(o) \in Nat
    BY <1>1, LenProperties
  <2> QED
    BY <1>4, <2>1
<1>6. SubSeq(o, 1, n) \in Seq(Pieces) /\ l \in Seq(Pieces) /\ SubSeq(o, 1, n) \o l = o
  <2> HIDE DEF o
  <2> QED
    BY <1>1, <1>5, Halves
<1>7. d \in Seq(Pieces) /\ d \o l = pending \o o
  <2>1. d = pending \o SubSeq(o, 1, n)
    OBVIOUS
  <2> HIDE DEF d, l, o
  <2>2. (pending \o SubSeq(o, 1, n)) \o l = pending \o (SubSeq(o, 1, n) \o l)
    <3>1. pending \in Seq(Pieces) /\ SubSeq(o, 1, n) \in Seq(Pieces) /\ l \in Seq(Pieces)
      BY <1>1, <1>6
    <3> QED
      BY ONLY <3>1, Assoc
  <2>3. pending \o SubSeq(o, 1, n) \in Seq(Pieces)
    BY <1>1, <1>6, ConcatProperties
  <2> QED
    BY <1>6, <2>1, <2>2, <2>3
<1>8. ASSUME pending = <<>>, o = <<>> PROVE d = <<>> /\ l = <<>>
  <2>1. n = 0 /\ Len(o) = 0
    BY <1>5, <1>8
  <2>2. SubSeq(o, 1, 0) = <<>> /\ SubSeq(o, 1, 0) \in Seq(Pieces)
    BY <1>1, SubSeqEmpty
  <2>3. SubSeq(o, 0 + 1, 0) = <<>>
    BY <1>1, SubSeqEmpty
  <2>4. d = pending \o <<>>
    BY <2>1, <2>2
  <2>5. l = <<>>
    BY <2>1, <2>3
  <2> QED
    BY <1>1, <1>8, <2>4, <2>5, ConcatEmptySeq
<1>9. CASE ~replay.rebuilding
  <2>1. f = [outputs |-> l, pending |-> pending, shown |-> shown]
    BY <1>4, <1>9 DEF F
  <2> HIDE DEF l, o, d
  <2> QED
    BY <1>1, <1>6, <1>8, <1>9, <2>1 DEF o
<1>10. CASE replay.rebuilding
  <2>1. PICK k \in Ks(n) : f = [outputs |-> l, pending |-> SubSeq(d, k + 1, Len(d)),
                                shown |-> shown \o SubSeq(d, 1, k)]
    BY <1>4, <1>10 DEF F
  <2>2. k \in IF d = <<>> THEN {0} ELSE 1 .. Len(d)
    BY <2>1
  <2> HIDE DEF l, d, o
  <2>3. Len(d) \in Nat /\ k \in 0 .. Len(d) /\ (d = <<>> => k = 0 /\ Len(d) = 0)
    BY <1>7, <2>2, LenProperties
  <2> DEFINE a == SubSeq(d, 1, k)
             b == SubSeq(d, k + 1, Len(d))
  <2>4. a \in Seq(Pieces) /\ b \in Seq(Pieces) /\ a \o b = d
    BY <1>7, <2>3, Halves
  <2>5. f.outputs = l /\ f.pending = b /\ f.shown = shown \o a
    BY <2>1
  <2>6. ASSUME d = <<>> PROVE a = <<>> /\ b = <<>>
    <3>1. k = 0 /\ Len(d) = 0
      BY <2>3, <2>6
    <3>2. SubSeq(d, 1, 0) = <<>> /\ SubSeq(d, 0 + 1, 0) = <<>>
      BY SubSeqEmpty
    <3> QED
      BY <3>1, <3>2
  <2> HIDE DEF a, b
  <2>7. shown \o a \in Seq(Pieces)
    BY <1>1, <2>4, ConcatProperties
  <2>8. (shown \o a) \o (b \o l) = shown \o (pending \o o)
    <3>1. /\ a \in Seq(Pieces) /\ b \in Seq(Pieces) /\ l \in Seq(Pieces)
          /\ shown \in Seq(Pieces)
      BY <1>1, <1>6, <2>4
    <3>2. b \o l \in Seq(Pieces)
      BY <3>1, ConcatProperties
    <3>3. (shown \o a) \o (b \o l) = shown \o (a \o (b \o l))
      BY ONLY <3>1, <3>2, Assoc
    <3>4. (a \o b) \o l = a \o (b \o l)
      BY ONLY <3>1, Assoc
    <3> QED
      BY <1>7, <2>4, <3>3, <3>4
  <2>9. ASSUME pending = <<>>, o = <<>> PROVE b = <<>> /\ l = <<>> /\ shown \o a = shown
    BY <1>1, <1>8, <2>6, <2>9, ConcatEmptySeq
  <2> QED
    BY <1>6, <1>10, <2>4, <2>5, <2>7, <2>8, <2>9 DEF o
<1> QED
  BY <1>9, <1>10

-----------------------------------------------------------------------------
(* Steps that move only the control of the timeline                         *)

LEMMA FreshType == Fresh \in Replays /\ NoWorker \in Workers /\ NewWorker \in Workers
<1>1. 0 \in 0 .. Total /\ 0 \in 0 .. Slices /\ 0 \in Profiles
  BY CaptureFacts DEF Profiles
<1>2. LoadCommand \in Commands
  BY DEF LoadCommand, Commands
<1>3. <<LoadCommand>> \in Seq(Commands) /\ <<>> \in Seq(Commands) /\ <<>> \in Seq(Pieces)
  BY <1>2
<1>4. Fresh \in Replays
  BY <1>1 DEF Fresh, Replays, Phases, Pacings, Answers
<1>5. NoWorker \in Workers
  BY <1>1, <1>3 DEF NoWorker, Workers
<1>6. NewWorker \in Workers
  BY <1>3, <1>5 DEF Workers, NewWorker
<1> QED
  BY <1>4, <1>5, <1>6

LEMMA PieceOfType ==
    /\ \A c \in Commands : PieceOf(c) \in Pieces
    /\ \A q \in Seq(Commands) : [j \in 1 .. Len(q) |-> PieceOf(q[j])] \in Seq(Pieces)
<1>1. \A c \in Commands : PieceOf(c) \in Pieces
  BY ProfileBeforeType DEF Commands, PieceOf, Piece, Pieces
<1>2. ASSUME NEW q \in Seq(Commands)
      PROVE  [j \in 1 .. Len(q) |-> PieceOf(q[j])] \in Seq(Pieces)
  <2> DEFINE t == [j \in 1 .. Len(q) |-> PieceOf(q[j])]
  <2>1. \A j \in 1 .. Len(q) : q[j] \in Commands
    BY ElementOfSeq
  <2>2. t \in [1 .. Len(q) -> Pieces]
    BY <1>1, <2>1
  <2>3. Len(q) \in Nat
    BY LenProperties
  <2> HIDE DEF t
  <2>4. t \in Seq(Pieces)
    BY <2>2, <2>3, SeqDef
  <2> QED
    BY <2>4 DEF t
<1> QED
  BY <1>1, <1>2

\* What is on its way are pieces.
LEMMA WayType ==
    ASSUME TypeOK
    PROVE  /\ OfExec \in Seq(Pieces) /\ OfInput \in Seq(Pieces) /\ OnTheWay \in Seq(Pieces)
           /\ worker.outputs \in Seq(Pieces)
<1>1. /\ worker.input \in Seq(Commands) /\ worker.exec \in Seq(Commands)
      /\ worker.outputs \in Seq(Pieces) /\ pending \in Seq(Pieces)
  BY DEF TypeOK, Workers
<1>2. OfExec \in Seq(Pieces)
  <2>1. CASE worker.exec = <<>>
    BY <2>1 DEF OfExec
  <2>2. CASE worker.exec # <<>>
    <3>1. 1 \in 1 .. Len(worker.exec)
      BY <1>1, <2>2, EmptySeq
    <3>2. worker.exec[1] \in Commands
      BY <1>1, <3>1, ElementOfSeq
    <3>3. PieceOf(worker.exec[1]) \in Pieces
      BY <3>2, PieceOfType
    <3> QED
      BY <3>3 DEF OfExec
  <2> QED
    BY <2>1, <2>2
<1>3. OfInput \in Seq(Pieces)
  BY <1>1, PieceOfType, EmptySeq DEF OfInput
<1>4. OfExec \o OfInput \in Seq(Pieces)
  BY <1>2, <1>3, Joined
<1>5. worker.outputs \o (OfExec \o OfInput) \in Seq(Pieces)
  BY <1>1, <1>4, Joined
<1>6. OnTheWay \in Seq(Pieces)
  BY <1>1, <1>5, Joined DEF OnTheWay
<1> QED
  BY <1>1, <1>2, <1>3, <1>6

\* Nothing was submitted, drawn or passed on, no command is new, and no change of profile was
\* forgotten by a timeline that goes on.
ControlStep ==
    /\ UNCHANGED <<worker, pending, shown, rows, prepared>>
    /\ replay'.loaded = replay.loaded /\ replay'.mode = replay.mode /\ replay'.index = replay.index
    /\ replay'.started = replay.started /\ replay'.offset = replay.offset
    /\ replay'.fenceOf = replay.fenceOf
    /\ \/ replay'.fence = replay.fence
       \/ FenceOpen /\ replay'.fence = "none"
       \/ replay.fence = "bad" /\ replay'.fence = "none" /\ replay'.phase = "Failed"
    /\ prepared /\ Live /\ replay.phase = "Failed" => replay'.phase = "Failed"

\* Then what is submitted, drawn and on its way stays as it is.
LEMMA ControlKeeps ==
    ASSUME IInv, ControlStep
    PROVE  SliceOK' /\ ProfileOK' /\ DisplayOK' /\ Live' = Live /\ Lua' = Lua
<1>1. Lua' = Lua /\ Live' = Live /\ Current' = Current /\ AtEnd' = AtEnd
  BY DEF ControlStep, Lua, Live, Current, AtEnd
<1>2. (replay'.fence = "waiting") = (replay.fence = "waiting")
  BY DEF ControlStep, FenceOpen
<1>3. SliceOK'
  BY <1>1 DEF IInv, SliceOK, ControlStep
<1>4. ProfileOK'
  <2>1. FenceOpen' /\ replay'.phase # "Failed" /\ prepared /\ Live => FenceOpen /\ replay.phase # "Failed"
    BY DEF ControlStep, FenceOpen
  <2>2. worker' = worker /\ prepared' = prepared /\ replay'.index = replay.index /\ replay'.fenceOf = replay.fenceOf
        /\ replay'.started = replay.started
    BY DEF ControlStep
  <2> QED
    BY <1>1, <1>2, <2>1, <2>2 DEF IInv, ProfileOK
<1>5. DisplayOK'
  <2>1. OnTheWay' = OnTheWay
    BY <1>2 DEF OnTheWay, OfExec, OfInput, ControlStep
  <2>2. Submitted' = Submitted
    BY <1>1 DEF Submitted, ControlStep
  <2>3. shown' = shown /\ rows' = rows /\ prepared' = prepared /\ replay'.started = replay.started
        /\ replay'.index = replay.index
    BY DEF ControlStep
  <2> QED
    BY <1>1, <2>1, <2>2, <2>3 DEF IInv, DisplayOK
<1> QED
  BY <1>1, <1>3, <1>4, <1>5

LEMMA MarkDoneKeeps == IInv /\ MarkDone => IInv'
<1> SUFFICES ASSUME IInv, MarkDone PROVE IInv'
  OBVIOUS
<1>1. replay \in Replays /\ DoneInputs \in Nat /\ replay' = [replay EXCEPT !.done = DoneInputs]
  BY CaptureFacts DEF IInv, TypeOK, Replays, DoneInputs, MarkDone
<1>2. replay' \in Replays
  BY <1>1 DEF Replays
<1>3. TypeOK'
  BY <1>2 DEF IInv, TypeOK, MarkDone, Stages
<1>4. ControlStep
  BY <1>1 DEF ControlStep, MarkDone, Replays
<1>5. /\ replay'.phase = replay.phase /\ replay'.playing = replay.playing
      /\ replay'.rebuilding = replay.rebuilding /\ replay'.fence = replay.fence
  BY <1>1 DEF Replays
<1>6. SliceOK' /\ ProfileOK' /\ DisplayOK' /\ Live' = Live /\ Lua' = Lua
  BY <1>4, ControlKeeps
<1>7. StageOK'
  BY <1>4, <1>5, <1>6 DEF IInv, StageOK, MarkDone, ControlStep
<1>8. NothingRuns' /\ Unprepared'
  BY <1>4, <1>5, <1>6 DEF IInv, NothingRuns, Unprepared, ControlStep
<1>9. DrawingOK'
  BY <1>4, <1>5, <1>6 DEF IInv, DrawingOK, ControlStep, AtEnd, Idle, InputIdle
<1> QED
  BY <1>3, <1>6, <1>7, <1>8, <1>9 DEF IInv

-----------------------------------------------------------------------------
(* The rounds, as far as they only move the control                         *)

LEMMA BeginLoopKeeps == IInv /\ BeginLoop => IInv'
<1> SUFFICES ASSUME IInv, BeginLoop PROVE IInv'
  OBVIOUS
<1>1. /\ replay \in Replays
      /\ \/ stage' = "free" /\ replay' = replay
         \/ /\ stage' = "looping" /\ replay' = [replay EXCEPT !.phase = "Replaying"]
            /\ replay.playing /\ replay.phase \notin {"Failed", "Cancelled"}
  BY DEF IInv, TypeOK, Replays, BeginLoop
<1>2. replay' \in Replays
  BY <1>1 DEF Replays, Phases, Answers, Pacings
<1>3. TypeOK'
  BY <1>2 DEF IInv, TypeOK, BeginLoop, Stages
<1>4. /\ replay'.playing = replay.playing /\ replay'.rebuilding = replay.rebuilding
      /\ replay'.fence = replay.fence
      /\ \/ stage' = "free" /\ replay'.phase = replay.phase
         \/ stage' = "looping" /\ replay'.phase = "Replaying"
  BY <1>1 DEF Replays
<1>5. ControlStep
  BY <1>1 DEF ControlStep, BeginLoop, Replays, FenceOpen, IInv, StageOK
<1>6. SliceOK' /\ ProfileOK' /\ DisplayOK' /\ Live' = Live /\ Lua' = Lua
  BY <1>5, ControlKeeps
<1>7. StageOK'
  BY <1>1, <1>5, <1>4, <1>6 DEF IInv, StageOK, BeginLoop, ControlStep
<1>8. NothingRuns'
  BY <1>1, <1>5, <1>4, <1>6 DEF IInv, NothingRuns, ControlStep, StageOK, Live, Lua, BeginLoop
<1>9. Unprepared'
  BY <1>1, <1>5, <1>4, <1>6 DEF IInv, Unprepared, ControlStep, StageOK, BeginLoop
<1>10. DrawingOK'
  BY <1>1, <1>5, <1>4, <1>6 DEF IInv, DrawingOK, ControlStep, AtEnd, Idle, InputIdle, StageOK, BeginLoop, NothingRuns
<1> QED
  BY <1>3, <1>6, <1>7, <1>8, <1>9, <1>10 DEF IInv

LEMMA FenceFailsKeeps == IInv /\ FenceFails => IInv'
<1> SUFFICES ASSUME IInv, FenceFails PROVE IInv'
  OBVIOUS
<1>1. replay \in Replays /\ replay' = [replay EXCEPT !.fence = "none", !.phase = "Failed", !.playing = FALSE]
  BY DEF IInv, TypeOK, Replays, FenceFails
<1>2. replay' \in Replays
  BY <1>1 DEF Replays, Phases, Answers, Pacings
<1>3. TypeOK'
  BY <1>2 DEF IInv, TypeOK, FenceFails, Stages
<1>4. /\ replay'.rebuilding = replay.rebuilding /\ ~replay'.playing
      /\ replay'.fence = "none" /\ replay'.phase = "Failed"
  BY <1>1 DEF Replays
<1>5. ControlStep
  BY <1>1 DEF ControlStep, FenceFails, Replays, FenceOpen, IInv, StageOK
<1>6. SliceOK' /\ ProfileOK' /\ DisplayOK' /\ Live' = Live /\ Lua' = Lua
  BY <1>5, ControlKeeps
<1>7. StageOK'
  BY <1>1, <1>5, <1>4, <1>6 DEF IInv, StageOK, FenceFails, ControlStep
<1>8. NothingRuns'
  BY <1>1, <1>5, <1>4, <1>6 DEF IInv, NothingRuns, ControlStep, StageOK, Live, Lua, FenceFails
<1>9. Unprepared'
  BY <1>1, <1>5, <1>4, <1>6 DEF IInv, Unprepared, ControlStep, StageOK, FenceFails
<1>10. DrawingOK'
  BY <1>1, <1>5, <1>4, <1>6 DEF IInv, DrawingOK, ControlStep, AtEnd, Idle, InputIdle, StageOK, FenceFails, NothingRuns
<1> QED
  BY <1>3, <1>6, <1>7, <1>8, <1>9, <1>10 DEF IInv

LEMMA EndSeekKeeps == IInv /\ EndSeek => IInv'
<1> SUFFICES ASSUME IInv, EndSeek PROVE IInv'
  OBVIOUS
<1>1. replay \in Replays /\ replay' = [replay EXCEPT !.fence = "none", !.playing = replay.resume, !.phase = "Draining",
                                !.pacing = replay.pacingAfter, !.target = 0, !.resume = FALSE]
  BY DEF IInv, TypeOK, Replays, EndSeek
<1>2. replay' \in Replays
  BY <1>1 DEF Replays, Phases, Answers, Pacings
<1>3. TypeOK'
  BY <1>2 DEF IInv, TypeOK, EndSeek, Stages
<1>4. /\ replay'.rebuilding = replay.rebuilding /\ replay'.fence = "none"
      /\ replay'.phase = "Draining"
  BY <1>1 DEF Replays
<1>5. ControlStep
  BY <1>1 DEF ControlStep, EndSeek, Replays, FenceOpen, IInv, StageOK
<1>6. SliceOK' /\ ProfileOK' /\ DisplayOK' /\ Live' = Live /\ Lua' = Lua
  BY <1>5, ControlKeeps
<1>7. StageOK'
  BY <1>1, <1>5, <1>4, <1>6 DEF IInv, StageOK, EndSeek, ControlStep
<1>8. NothingRuns'
  BY <1>1, <1>5, <1>4, <1>6 DEF IInv, NothingRuns, ControlStep, StageOK, Live, Lua, EndSeek
<1>9. Unprepared'
  BY <1>1, <1>5, <1>4, <1>6 DEF IInv, Unprepared, ControlStep, StageOK, EndSeek
<1>10. DrawingOK'
  BY <1>1, <1>5, <1>4, <1>6 DEF IInv, DrawingOK, ControlStep, AtEnd, Idle, InputIdle, StageOK, EndSeek, NothingRuns
<1> QED
  BY <1>3, <1>6, <1>7, <1>8, <1>9, <1>10 DEF IInv

LEMMA LeaveLoopKeeps == IInv /\ LeaveLoop => IInv'
<1> SUFFICES ASSUME IInv, LeaveLoop PROVE IInv'
  OBVIOUS
<1>1. replay \in Replays /\ replay' = replay
  BY DEF IInv, TypeOK, Replays, LeaveLoop
<1>2. replay' \in Replays
  BY <1>1 DEF Replays, Phases, Answers, Pacings
<1>3. TypeOK'
  BY <1>2 DEF IInv, TypeOK, LeaveLoop, Stages
<1>4. replay' = replay
  BY <1>1 DEF Replays
<1>5. ControlStep
  BY <1>1 DEF ControlStep, LeaveLoop, Replays, FenceOpen, IInv, StageOK
<1>6. SliceOK' /\ ProfileOK' /\ DisplayOK' /\ Live' = Live /\ Lua' = Lua
  BY <1>5, ControlKeeps
<1>7. StageOK'
  BY <1>1, <1>5, <1>4, <1>6 DEF IInv, StageOK, LeaveLoop, ControlStep
<1>8. NothingRuns'
  BY <1>1, <1>5, <1>4, <1>6 DEF IInv, NothingRuns, ControlStep, StageOK, Live, Lua, LeaveLoop
<1>9. Unprepared'
  BY <1>1, <1>5, <1>4, <1>6 DEF IInv, Unprepared, ControlStep, StageOK, LeaveLoop
<1>10. DrawingOK'
  BY <1>1, <1>5, <1>4, <1>6 DEF IInv, DrawingOK, ControlStep, AtEnd, Idle, InputIdle, StageOK, LeaveLoop, NothingRuns
<1> QED
  BY <1>3, <1>6, <1>7, <1>8, <1>9, <1>10 DEF IInv

LEMMA ReachEndKeeps == IInv /\ ReachEnd => IInv'
<1> SUFFICES ASSUME IInv, ReachEnd PROVE IInv'
  OBVIOUS
<1>1. replay \in Replays /\ replay' = [replay EXCEPT !.playing = FALSE, !.phase = "Draining"]
  BY DEF IInv, TypeOK, Replays, ReachEnd
<1>2. replay' \in Replays
  BY <1>1 DEF Replays, Phases, Answers, Pacings
<1>3. TypeOK'
  BY <1>2 DEF IInv, TypeOK, ReachEnd, Stages
<1>4. /\ replay'.rebuilding = replay.rebuilding /\ replay'.fence = replay.fence
      /\ replay'.phase = "Draining"
  BY <1>1 DEF Replays
<1>5. ControlStep
  BY <1>1 DEF ControlStep, ReachEnd, Replays, FenceOpen, IInv, StageOK
<1>6. SliceOK' /\ ProfileOK' /\ DisplayOK' /\ Live' = Live /\ Lua' = Lua
  BY <1>5, ControlKeeps
<1>7. StageOK'
  BY <1>1, <1>5, <1>4, <1>6 DEF IInv, StageOK, ReachEnd, ControlStep
<1>8. NothingRuns'
  BY <1>1, <1>5, <1>4, <1>6 DEF IInv, NothingRuns, ControlStep, StageOK, Live, Lua, ReachEnd
<1>9. Unprepared'
  BY <1>1, <1>5, <1>4, <1>6 DEF IInv, Unprepared, ControlStep, StageOK, ReachEnd
<1>10. DrawingOK'
  BY <1>1, <1>5, <1>4, <1>6 DEF IInv, DrawingOK, ControlStep, AtEnd, Idle, InputIdle, StageOK, ReachEnd, NothingRuns
<1> QED
  BY <1>3, <1>6, <1>7, <1>8, <1>9, <1>10 DEF IInv

LEMMA EndDrainKeeps == IInv /\ EndDrain => IInv'
<1> SUFFICES ASSUME IInv, EndDrain PROVE IInv'
  OBVIOUS
<1>1. /\ replay \in Replays
      /\ \/ replay' = replay
         \/ AtEnd /\ Drained /\ replay' = [replay EXCEPT !.rebuilding = FALSE, !.playing = FALSE,
                                                        !.phase = "Completed"]
         \/ replay' = [replay EXCEPT !.phase = IF replay.playing THEN "Replaying" ELSE "Paused"]
  BY DEF IInv, TypeOK, Replays, EndDrain
<1>2. replay' \in Replays
  BY <1>1 DEF Replays, Phases, Answers, Pacings
<1>3. TypeOK'
  BY <1>2 DEF IInv, TypeOK, EndDrain, Stages
<1>4. /\ replay'.fence = replay.fence
      /\ \/ replay' = replay
         \/ AtEnd /\ Drained /\ ~replay'.rebuilding /\ ~replay'.playing /\ replay'.phase = "Completed"
         \/ /\ replay'.rebuilding = replay.rebuilding /\ replay'.playing = replay.playing
            /\ replay'.phase \in {"Replaying", "Paused"}
  BY <1>1 DEF Replays
<1>5. ControlStep
  BY <1>1 DEF ControlStep, EndDrain, Replays, FenceOpen, IInv, StageOK
<1>6. SliceOK' /\ ProfileOK' /\ DisplayOK' /\ Live' = Live /\ Lua' = Lua
  BY <1>5, ControlKeeps
<1>7. StageOK'
  BY <1>1, <1>5, <1>4, <1>6 DEF IInv, StageOK, EndDrain, ControlStep
<1>8. NothingRuns'
  BY <1>1, <1>5, <1>4, <1>6 DEF IInv, NothingRuns, ControlStep, StageOK, Live, Lua, EndDrain
<1>9. Unprepared'
  BY <1>1, <1>5, <1>4, <1>6 DEF IInv, Unprepared, ControlStep, StageOK, EndDrain
<1>10. DrawingOK'
  <2>1. Drained => Idle /\ pending = <<>>
    <3>1. ~Lua => worker = NoWorker /\ pending = <<>>
      BY DEF IInv, NothingRuns
    <3>2. worker = NoWorker => Idle
      BY DEF Idle, InputIdle, NoWorker
    <3> QED
      BY <3>1, <3>2 DEF Drained
  <2>2. Idle' = Idle /\ AtEnd' = AtEnd /\ pending' = pending /\ prepared' = prepared
    BY <1>5 DEF ControlStep, Idle, InputIdle, AtEnd
  <2>3. replay.phase = "Draining"
    BY DEF IInv, StageOK, EndDrain
  <2> QED
    BY <1>1, <1>4, <1>6, <2>1, <2>2, <2>3 DEF IInv, DrawingOK
<1> QED
  BY <1>3, <1>6, <1>7, <1>8, <1>9, <1>10 DEF IInv

-----------------------------------------------------------------------------
(* The rounds that draw                                                     *)

\* What is drawn, what waits to be, what was put out, and the rest.
Row(s, p, o, x) == s \o (p \o (o \o x))
Ahead(s, p, o) == s \o (p \o o)

\* What comes last may be left out of what is put in a row.
LEMMA BehindThree ==
    \A s, p, o, x \in Seq(Pieces) : Row(s, p, o, x) = Ahead(s, p, o) \o x
<1> SUFFICES ASSUME NEW s \in Seq(Pieces), NEW p \in Seq(Pieces), NEW o \in Seq(Pieces),
                    NEW x \in Seq(Pieces)
             PROVE  s \o (p \o (o \o x)) = (s \o (p \o o)) \o x
  BY DEF Row, Ahead
<1> DEFINE po == p \o o
<1>1. po \in Seq(Pieces)
  BY Joined
<1>2. po \o x = p \o (o \o x)
  BY ONLY p \in Seq(Pieces), o \in Seq(Pieces), x \in Seq(Pieces), Assoc
<1> HIDE DEF po
<1>3. (s \o po) \o x = s \o (po \o x)
  BY ONLY s \in Seq(Pieces), <1>1, x \in Seq(Pieces), Assoc
<1> QED
  BY <1>2, <1>3 DEF po

\* Without its worker or a timeline there is nothing to flush; the worker of a timeline
\* that is prepared may draw, or has nothing to draw.
LEMMA MayDraw ==
    ASSUME IInv
    PROVE  /\ prepared /\ Live => \/ replay.rebuilding
                                  \/ pending = <<>> /\ worker.outputs = <<>>
           /\ ~replay.loaded \/ ~Live => worker = NoWorker /\ pending = <<>> /\ worker.outputs = <<>>
           /\ ~Lua => worker = NoWorker /\ pending = <<>> /\ worker.outputs = <<>>
<1>1. worker = NoWorker => worker.outputs = <<>>
  BY DEF NoWorker
<1>2. ~Lua \/ ~worker.alive => worker = NoWorker /\ pending = <<>>
  BY DEF IInv, NothingRuns
<1>3. ~replay.loaded => worker = NoWorker /\ pending = <<>>
  BY DEF IInv, NothingRuns
<1>4. ~Live /\ replay.loaded => ~worker.alive
  BY DEF Live
<1>5. prepared /\ Live /\ Lua => replay.rebuilding \/ (Idle /\ pending = <<>>)
  BY DEF IInv, DrawingOK
<1> QED
  BY <1>1, <1>2, <1>3, <1>4, <1>5 DEF Idle

\* A flush, and a control of the timeline that goes on as before.
FlushStep ==
    /\ Flush
    /\ UNCHANGED <<rows, prepared>>
    /\ replay'.loaded = replay.loaded /\ replay'.mode = replay.mode /\ replay'.index = replay.index
    /\ replay'.started = replay.started /\ replay'.offset = replay.offset
    /\ replay'.fenceOf = replay.fenceOf /\ replay'.phase = replay.phase
    /\ replay'.playing = replay.playing /\ replay'.rebuilding = replay.rebuilding
    /\ replay'.fence = replay.fence \/ (FenceOpen /\ replay'.fence = "none")

\* A flush moves the pieces along their way and keeps their order.
LEMMA FlushStepKeeps ==
    ASSUME IInv, FlushStep
    PROVE  /\ worker' \in Workers /\ pending' \in Seq(Pieces) /\ shown' \in Seq(Pieces)
           /\ SliceOK' /\ ProfileOK' /\ DisplayOK' /\ NothingRuns' /\ Unprepared' /\ DrawingOK'
           /\ Live' = Live /\ Lua' = Lua
<1>1. PICK f \in Flushes : /\ worker' = [worker EXCEPT !.outputs = f.outputs]
                           /\ pending' = f.pending /\ shown' = f.shown
  BY DEF FlushStep, Flush
<1>2. TypeOK
  BY DEF IInv
<1>3. /\ f.outputs \in Seq(Pieces) /\ f.pending \in Seq(Pieces) /\ f.shown \in Seq(Pieces)
      /\ replay.rebuilding =>
            f.shown \o (f.pending \o f.outputs) = shown \o (pending \o worker.outputs)
      /\ ~replay.rebuilding => f.pending = pending /\ f.shown = shown
      /\ pending = <<>> /\ worker.outputs = <<>> =>
            f.pending = <<>> /\ f.outputs = <<>> /\ f.shown = shown
  BY <1>2, FlushKeeps
<1>4. worker \in Workers /\ pending \in Seq(Pieces) /\ shown \in Seq(Pieces)
  BY <1>2 DEF TypeOK
<1>5. /\ worker' \in Workers /\ worker'.outputs = f.outputs /\ worker'.alive = worker.alive
      /\ worker'.input = worker.input /\ worker'.exec = worker.exec
      /\ worker'.profile = worker.profile
  BY <1>1, <1>3, <1>4 DEF Workers
<1>6. worker = NoWorker /\ f.outputs = <<>> => worker' = NoWorker
  BY <1>1 DEF NoWorker
<1>7. Lua' = Lua /\ Live' = Live /\ Current' = Current /\ AtEnd' = AtEnd
  BY <1>5 DEF FlushStep, Lua, Live, Current, AtEnd
<1>8. (replay'.fence = "waiting") = (replay.fence = "waiting")
  BY DEF FlushStep, FenceOpen
<1>9. SliceOK'
  BY <1>7 DEF IInv, SliceOK, FlushStep
<1>10. ProfileOK'
  <2>1. FenceOpen' => FenceOpen
    BY DEF FlushStep, FenceOpen
  <2>2. /\ prepared' = prepared /\ replay'.index = replay.index /\ replay'.phase = replay.phase
        /\ replay'.started = replay.started /\ replay'.fenceOf = replay.fenceOf
    BY DEF FlushStep
  <2> QED
    BY <1>5, <1>7, <1>8, <2>1, <2>2 DEF IInv, ProfileOK
<1>11. DisplayOK'
  <2> DEFINE x == OfExec \o OfInput
  <2>1. x \in Seq(Pieces) /\ worker.outputs \in Seq(Pieces)
    BY <1>2, WayType, Joined
  <2>2. OfExec' = OfExec /\ OfInput' = OfInput
    BY <1>5, <1>8 DEF OfExec, OfInput
  <2>3. OnTheWay' = f.pending \o (f.outputs \o x) /\ OnTheWay = pending \o (worker.outputs \o x)
    BY <1>1, <1>5, <2>2 DEF OnTheWay
  <2>4. Submitted' = Submitted
    BY <1>7 DEF Submitted, FlushStep
  <2> HIDE DEF x
  <2>5. ASSUME prepared, Live PROVE shown' \o OnTheWay' = Submitted
    <3>1. Ahead(f.shown, f.pending, f.outputs) = Ahead(shown, pending, worker.outputs)
      BY <1>3, <2>5, MayDraw DEF Ahead
    <3>2. Row(f.shown, f.pending, f.outputs, x) = Ahead(f.shown, f.pending, f.outputs) \o x
      <4>1. f.shown \in Seq(Pieces) /\ f.pending \in Seq(Pieces) /\ f.outputs \in Seq(Pieces)
        BY <1>3
      <4>2. x \in Seq(Pieces)
        BY <2>1
      <4> QED
        BY ONLY <4>1, <4>2, BehindThree
    <3>3. Row(shown, pending, worker.outputs, x) = Ahead(shown, pending, worker.outputs) \o x
      BY <1>4, <2>1, BehindThree
    <3>4. shown \o OnTheWay = Submitted
      BY <2>5 DEF IInv, DisplayOK
    <3> QED
      BY <1>1, <2>3, <3>1, <3>2, <3>3, <3>4 DEF Row
  <2>6. OnTheWay' \in Seq(Pieces)
    <3>1. f.outputs \o x \in Seq(Pieces)
      BY <1>3, <2>1, Joined
    <3> QED
      BY <1>3, <2>3, <3>1, Joined
  <2>7. ASSUME prepared PROVE \E rest \in Seq(Pieces) : shown' \o rest = Submitted
    <3>1. CASE Live
      BY <2>5, <2>6, <2>7, <3>1
    <3>2. CASE ~Live
      <4>1. shown' = shown
        BY <1>1, <1>3, <3>2, MayDraw
      <4>2. \E rest \in Seq(Pieces) : shown \o rest = Submitted
        BY <2>7 DEF IInv, DisplayOK
      <4> QED
        BY <4>1, <4>2
    <3> QED
      BY <3>1, <3>2
  <2>8. rows' = rows /\ prepared' = prepared /\ replay'.started = replay.started
        /\ replay'.index = replay.index
    BY DEF FlushStep
  <2> QED
    BY <1>7, <2>4, <2>5, <2>7, <2>8 DEF IInv, DisplayOK
<1>12. NothingRuns'
  <2>1. worker = NoWorker /\ pending = <<>> => worker' = NoWorker /\ pending' = <<>>
    <3>1. worker = NoWorker => worker.outputs = <<>>
      BY DEF NoWorker
    <3> QED
      BY <1>1, <1>3, <1>6, <3>1
  <2>2. ~Lua => replay'.fence = "none"
    BY DEF IInv, NothingRuns, FlushStep
  <2>3. /\ replay'.loaded = replay.loaded /\ replay'.phase = replay.phase
        /\ replay'.playing = replay.playing /\ prepared' = prepared
    BY DEF FlushStep
  <2> QED
    BY <1>5, <1>7, <2>1, <2>2, <2>3 DEF IInv, NothingRuns
<1>13. Unprepared'
  BY <1>5, <1>7 DEF IInv, Unprepared, FlushStep
<1>14. DrawingOK'
  <2>1. Idle /\ pending = <<>> => Idle' /\ pending' = <<>>
    BY <1>1, <1>3, <1>5 DEF Idle, InputIdle
  <2> QED
    BY <1>7, <2>1 DEF IInv, DrawingOK, FlushStep
<1> QED
  BY <1>1, <1>3, <1>5, <1>7, <1>9, <1>10, <1>11, <1>12, <1>13, <1>14

LEMMA FlushOutputsKeeps == IInv /\ FlushOutputs => IInv'
<1> SUFFICES ASSUME IInv, FlushOutputs PROVE IInv'
  OBVIOUS
<1>1. FlushStep /\ replay' = replay
  BY DEF FlushOutputs, FlushStep
<1>2. /\ worker' \in Workers /\ pending' \in Seq(Pieces) /\ shown' \in Seq(Pieces)
      /\ SliceOK' /\ ProfileOK' /\ DisplayOK' /\ NothingRuns' /\ Unprepared' /\ DrawingOK'
      /\ Live' = Live /\ Lua' = Lua
  BY <1>1, FlushStepKeeps
<1>3. TypeOK'
  BY <1>1, <1>2 DEF IInv, TypeOK, FlushOutputs, Stages
<1>4. StageOK'
  BY <1>1, <1>2 DEF IInv, StageOK, FlushOutputs
<1> QED
  BY <1>2, <1>3, <1>4 DEF IInv

LEMMA DrainKeeps == IInv /\ Drain => IInv'
<1> SUFFICES ASSUME IInv, Drain PROVE IInv'
  OBVIOUS
<1>1. replay \in Replays /\ UNCHANGED <<rows, prepared, chosen, calls>>
  BY DEF IInv, TypeOK, Drain
<1>2. CASE stage' = "free" /\ replay' = replay /\ UNCHANGED <<worker, pending, shown>>
  <2>1. TypeOK' /\ ControlStep
    BY <1>1, <1>2 DEF IInv, TypeOK, ControlStep, Stages
  <2>2. SliceOK' /\ ProfileOK' /\ DisplayOK' /\ Live' = Live /\ Lua' = Lua
    BY <2>1, ControlKeeps
  <2>3. StageOK' /\ NothingRuns' /\ Unprepared'
    BY <1>1, <1>2, <2>2 DEF IInv, StageOK, NothingRuns, Unprepared
  <2>4. DrawingOK'
    BY <1>1, <1>2, <2>2 DEF IInv, DrawingOK, AtEnd, Idle, InputIdle
  <2> QED
    BY <2>1, <2>2, <2>3, <2>4 DEF IInv
<1>3. CASE /\ replay.fence = "bad" /\ replay' = [replay EXCEPT !.fence = "none", !.phase = "Failed"]
           /\ stage' = "free" /\ UNCHANGED <<worker, pending, shown>>
  <2>1. replay' \in Replays
    BY <1>1, <1>3 DEF Replays, Phases, Answers
  <2>2. TypeOK'
    BY <1>1, <1>3, <2>1 DEF IInv, TypeOK, Stages
  <2>3. ControlStep
    BY <1>1, <1>3 DEF ControlStep, Replays
  <2>4. /\ replay'.rebuilding = replay.rebuilding /\ replay'.playing = replay.playing
        /\ replay'.fence = "none" /\ replay'.phase = "Failed"
    BY <1>1, <1>3 DEF Replays
  <2>5. SliceOK' /\ ProfileOK' /\ DisplayOK' /\ Live' = Live /\ Lua' = Lua
    BY <2>3, ControlKeeps
  <2>6. StageOK'
    BY <1>3, <2>3, <2>4 DEF IInv, StageOK, ControlStep
  <2>7. NothingRuns'
    BY <1>3, <2>3, <2>4, <2>5 DEF IInv, NothingRuns, ControlStep, StageOK, Drain
  <2>8. Unprepared'
    BY <1>3, <2>3, <2>4, <2>5 DEF IInv, Unprepared, ControlStep, StageOK, Drain
  <2>9. DrawingOK'
    BY <1>3, <2>3, <2>4, <2>5 DEF IInv, DrawingOK, ControlStep, StageOK, Drain
  <2> QED
    BY <2>2, <2>5, <2>6, <2>7, <2>8, <2>9 DEF IInv
<1>4. CASE /\ FenceOpen /\ replay' = [replay EXCEPT !.fence = "none"] /\ stage' = "drained"
           /\ IF Lua THEN Flush ELSE UNCHANGED <<worker, pending, shown>>
  <2>1. replay' \in Replays
    BY <1>1, <1>4 DEF Replays, Answers
  <2>2. /\ replay'.loaded = replay.loaded /\ replay'.mode = replay.mode
        /\ replay'.index = replay.index
        /\ replay'.started = replay.started /\ replay'.offset = replay.offset
        /\ replay'.fenceOf = replay.fenceOf /\ replay'.phase = replay.phase
        /\ replay'.playing = replay.playing /\ replay'.rebuilding = replay.rebuilding
        /\ replay'.fence = "none"
    BY <1>1, <1>4 DEF Replays
  <2>3. StageOK'
    BY <1>4, <2>2 DEF IInv, StageOK, Drain
  <2>4. CASE Lua
    <3>1. FlushStep
      BY <1>1, <1>4, <2>2, <2>4 DEF FlushStep
    <3>2. /\ worker' \in Workers /\ pending' \in Seq(Pieces) /\ shown' \in Seq(Pieces)
          /\ SliceOK' /\ ProfileOK' /\ DisplayOK' /\ NothingRuns' /\ Unprepared' /\ DrawingOK'
          /\ Live' = Live /\ Lua' = Lua
      BY <3>1, FlushStepKeeps
    <3>3. TypeOK'
      BY <1>1, <1>4, <2>1, <3>2 DEF IInv, TypeOK, Stages
    <3> QED
      BY <2>3, <3>2, <3>3 DEF IInv
  <2>5. CASE ~Lua
    <3>1. TypeOK'
      BY <1>1, <1>4, <2>1, <2>5 DEF IInv, TypeOK, Stages
    <3>2. ControlStep
      BY <1>1, <1>4, <2>2, <2>5 DEF ControlStep
    <3>3. SliceOK' /\ ProfileOK' /\ DisplayOK' /\ Live' = Live /\ Lua' = Lua
      BY <3>2, ControlKeeps
    <3>4. NothingRuns' /\ Unprepared'
      BY <1>1, <1>4, <2>2, <2>5, <3>3 DEF IInv, NothingRuns, Unprepared
    <3>5. DrawingOK'
      BY <1>1, <1>4, <2>2, <2>5, <3>3 DEF IInv, DrawingOK, AtEnd, Idle, InputIdle
    <3> QED
      BY <2>3, <3>1, <3>3, <3>4, <3>5 DEF IInv
  <2> QED
    BY <2>4, <2>5
<1> QED
  <2>1. replay.fence \in {"none", "waiting", "ok", "bad"}
    BY <1>1 DEF Replays, Answers
  <2>2. replay.fence = "waiting" => stage' = "free" /\ replay' = replay /\ UNCHANGED <<worker, pending, shown>>
    BY DEF Drain
  <2>3. replay.fence = "bad" => /\ replay' = [replay EXCEPT !.fence = "none", !.phase = "Failed"]
                                /\ stage' = "free" /\ UNCHANGED <<worker, pending, shown>>
    BY DEF Drain
  <2>4. replay.fence \in {"none", "ok"} =>
            /\ replay' = [replay EXCEPT !.fence = "none"] /\ stage' = "drained"
            /\ IF Lua THEN Flush ELSE UNCHANGED <<worker, pending, shown>>
    BY DEF Drain
  <2> QED
    BY <1>2, <1>3, <1>4, <2>1, <2>2, <2>3, <2>4 DEF FenceOpen

-----------------------------------------------------------------------------
(* The offline worker                                                       *)

\* A worker that runs belongs to a timeline that is played through a script.
LEMMA AliveIsLive ==
    ASSUME IInv, worker.alive
    PROVE  replay.loaded /\ Lua /\ Live
<1>1. worker # NoWorker
  BY DEF NoWorker
<1> QED
  BY <1>1 DEF IInv, NothingRuns, Live

\* A command moves from the input of the worker to its turn; a change of profile comes into
\* force, and its answer opens the fence.
LEMMA TakeKeeps == IInv /\ Take => IInv'
<1> SUFFICES ASSUME IInv, Take PROVE IInv'
  OBVIOUS
<1> DEFINE c == Head(worker.input)
<1>1. /\ worker.alive /\ worker.exec = <<>> /\ worker.input # <<>>
      /\ UNCHANGED <<pending, stage, shown, rows, prepared, chosen, calls>>
  BY DEF Take
<1>2. PICK ok \in BOOLEAN :
        /\ worker' = [worker EXCEPT
               !.input = Tail(@), !.exec = <<c>>,
               !.profile = IF c.op = "profile" /\ ok THEN c.at ELSE @]
        /\ replay' = [replay EXCEPT
               !.prep = IF c.op = "load" THEN (IF ok THEN "ok" ELSE "bad") ELSE @,
               !.fence = IF c.op = "profile" /\ c.at = replay.fenceOf
                         THEN (IF ok THEN "ok" ELSE "bad") ELSE @]
  BY DEF Take
<1>3. replay \in Replays /\ worker \in Workers /\ replay.loaded /\ Lua /\ Live
  BY <1>1, AliveIsLive DEF IInv, TypeOK
<1>4. worker.input \in Seq(Commands) /\ worker.outputs \in Seq(Pieces) /\ worker.profile \in Profiles
  BY <1>3 DEF Workers
<1>5. /\ c \in Commands /\ Tail(worker.input) \in Seq(Commands)
      /\ Len(worker.input) \in Nat /\ Len(worker.input) > 0
      /\ Len(Tail(worker.input)) = Len(worker.input) - 1
      /\ \A j \in 1 .. Len(Tail(worker.input)) : Tail(worker.input)[j] = worker.input[j + 1]
      /\ c = worker.input[1]
  <2>1. worker.input # <<>>
    BY <1>1
  <2>2. /\ Head(worker.input) \in Commands /\ Tail(worker.input) \in Seq(Commands)
        /\ Len(Tail(worker.input)) = Len(worker.input) - 1
        /\ \A j \in 1 .. Len(Tail(worker.input)) : Tail(worker.input)[j] = worker.input[j + 1]
    BY <1>4, <2>1, HeadTailProperties
  <2>3. Len(worker.input) \in Nat /\ Len(worker.input) # 0
    BY <1>4, <2>1, EmptySeq
  <2>4. Head(worker.input) = worker.input[1]
    BY <1>4, <2>1
  <2> QED
    BY <2>2, <2>3, <2>4
<1>6. c.at \in Nat /\ c.op \in {"load", "profile", "bytes"} /\ <<c>> \in Seq(Commands)
  BY <1>5 DEF Commands
<1> HIDE DEF c
<1>7. /\ worker' \in Workers /\ worker'.alive /\ worker'.input = Tail(worker.input)
      /\ worker'.exec = <<c>> /\ worker'.outputs = worker.outputs
      /\ worker'.profile = IF c.op = "profile" /\ ok THEN c.at ELSE worker.profile
  BY <1>1, <1>2, <1>3, <1>5, <1>6 DEF Workers, Profiles
<1>8. /\ replay' \in Replays /\ replay'.loaded = replay.loaded /\ replay'.mode = replay.mode
      /\ replay'.phase = replay.phase
      /\ replay'.playing = replay.playing /\ replay'.index = replay.index
      /\ replay'.started = replay.started /\ replay'.offset = replay.offset
      /\ replay'.fenceOf = replay.fenceOf /\ replay'.rebuilding = replay.rebuilding
      /\ replay'.fence = IF c.op = "profile" /\ c.at = replay.fenceOf
                         THEN (IF ok THEN "ok" ELSE "bad") ELSE replay.fence
  BY <1>2, <1>3 DEF Replays, Answers
<1>9. TypeOK'
  BY <1>1, <1>7, <1>8 DEF IInv, TypeOK
<1>10. Lua' /\ Lua /\ Live' /\ Live /\ Current' = Current /\ AtEnd' = AtEnd
  BY <1>3, <1>7, <1>8 DEF Lua, Live, Current, AtEnd
<1>11. StageOK' /\ SliceOK'
  BY <1>1, <1>8, <1>10 DEF IInv, StageOK, SliceOK
<1>12. NothingRuns'
  BY <1>1, <1>3, <1>7, <1>8, <1>10 DEF NothingRuns
<1>13. Unprepared'
  <2> SUFFICES ASSUME ~prepared PROVE Unprepared'
    BY <1>1 DEF Unprepared
  <2>1. /\ replay.index = 0 /\ ~replay.started /\ replay.fence = "none" /\ ~replay.rebuilding
        /\ replay.phase \in {"Preparing", "Failed"} /\ worker.profile = 0
        /\ worker.input = <<LoadCommand>>
    BY <1>1, <1>3 DEF IInv, Unprepared
  <2>2. c = LoadCommand /\ c.op = "load" /\ Tail(worker.input) = <<>>
    BY <1>5, <2>1 DEF LoadCommand
  <2> QED
    BY <1>7, <1>8, <1>10, <2>1, <2>2 DEF Unprepared
<1>14. DrawingOK'
  <2>1. ~Idle
    BY <1>1 DEF Idle, InputIdle
  <2> QED
    BY <1>1, <1>8, <1>10, <2>1 DEF IInv, DrawingOK
<1>15. ASSUME prepared, replay.fence = "waiting" PROVE ProfileOK' /\ OfExec' \o OfInput' = OfExec \o OfInput
  <2>1. /\ worker.input = <<ProfileCommand(replay.index)>> /\ ~replay.started
        /\ replay.fenceOf = replay.index /\ replay.index > 0 /\ Capture[replay.index] = "profile"
    BY <1>3, <1>15 DEF IInv, ProfileOK
  <2>2. c.op = "profile" /\ c.at = replay.index /\ Tail(worker.input) = <<>>
    BY <1>5, <2>1 DEF ProfileCommand
  <2>3. replay'.fence = IF ok THEN "ok" ELSE "bad"
    BY <1>8, <2>1, <2>2
  <2>4. worker'.input = <<>> /\ Len(<<>>) = 0
    BY <1>7, <2>2
  <2>5. ok => worker'.profile = ProfileBefore(Current)
    <3>1. replay.index \in 1 .. Total
      BY <1>3, <2>1 DEF Replays
    <3>2. ProfileBefore(replay.index + 1) = replay.index
      BY <2>1, <3>1, ProfileBeforeNext
    <3> QED
      BY <1>7, <2>2, <3>2 DEF Current
  <2>6. FenceOpen' => ok
    BY <2>3 DEF FenceOpen
  <2>7. worker'.exec[1] = c /\ Len(worker'.exec) = 1 /\ worker'.exec # <<>>
    BY <1>7
  <2>8. ~IsBytes(c)
    BY <2>2 DEF IsBytes
  <2>9. ProfileOK'
    BY <1>8, <1>10, <2>2, <2>3, <2>4, <2>5, <2>6, <2>7, <2>8 DEF ProfileOK
  <2>10. OfExec' = <<>> /\ OfExec = <<>> /\ OfInput = <<>>
    BY <1>1, <1>15, <2>7, <2>8 DEF OfExec, OfInput
  <2>11. OfInput' = <<>>
    <3>1. [j \in 1 .. 0 |-> PieceOf(worker'.input[j])] = <<>>
      OBVIOUS
    <3>2. OfInput' = [j \in 1 .. Len(worker'.input) |-> PieceOf(worker'.input[j])]
      BY <2>3 DEF OfInput
    <3> QED
      BY <2>4, <3>1, <3>2
  <2> QED
    BY <2>9, <2>10, <2>11
<1>16. ASSUME prepared, replay.fence # "waiting" PROVE ProfileOK' /\ OfExec' \o OfInput' = OfExec \o OfInput
  <2>1. /\ \A j \in 1 .. Len(worker.input) : IsBytes(worker.input[j])
        /\ \A j \in 1 .. Len(worker.input) :
              IsBytes(worker.input[j]) => ProfileBefore(worker.input[j].at) = worker.profile
        /\ Lua /\ FenceOpen /\ replay.phase # "Failed" => worker.profile = ProfileBefore(Current)
    BY <1>3, <1>16 DEF IInv, ProfileOK
  <2>2. IsBytes(c) /\ ProfileBefore(c.at) = worker.profile
    BY <1>5, <2>1
  <2>3. c.op = "bytes" /\ replay'.fence = replay.fence /\ worker'.profile = worker.profile
    BY <1>7, <1>8, <2>2 DEF IsBytes
  <2>4. worker'.exec[1] = c /\ Len(worker'.exec) = 1 /\ worker'.exec # <<>>
    BY <1>7
  <2>5. \A j \in 1 .. Len(worker'.input) :
            /\ IsBytes(worker'.input[j]) /\ ProfileBefore(worker'.input[j].at) = worker.profile
            /\ worker'.input[j] = worker.input[j + 1]
    <3>1. \A j \in 1 .. Len(worker'.input) :
              j + 1 \in 1 .. Len(worker.input) /\ worker'.input[j] = worker.input[j + 1]
      BY <1>5, <1>7
    <3> QED
      BY <2>1, <3>1
  <2>6. ProfileOK'
    <3>1. FenceOpen' => FenceOpen
      BY <2>3 DEF FenceOpen
    <3> QED
      BY <1>8, <1>10, <1>16, <2>1, <2>2, <2>3, <2>4, <2>5, <3>1 DEF ProfileOK
  <2>7. OfExec = <<>> /\ OfExec' = <<PieceOf(c)>>
    BY <1>1, <2>2, <2>4 DEF OfExec
  <2>8. /\ OfInput = [j \in 1 .. Len(worker.input) |-> PieceOf(worker.input[j])]
        /\ OfInput' = [j \in 1 .. Len(worker'.input) |-> PieceOf(worker'.input[j])]
    BY <1>16, <2>3 DEF OfInput
  <2>9. OfInput \in Seq(Pieces) /\ OfInput' \in Seq(Pieces) /\ OfExec' \in Seq(Pieces)
    <3>1. TypeOK
      BY DEF IInv
    <3>2. PieceOf(c) \in Pieces /\ <<PieceOf(c)>> \in Seq(Pieces)
      BY <1>5, PieceOfType
    <3>3. \A q \in Seq(Commands) : [j \in 1 .. Len(q) |-> PieceOf(q[j])] \in Seq(Pieces)
      BY PieceOfType
    <3>4. worker'.input \in Seq(Commands) /\ worker.input \in Seq(Commands)
      BY <1>4, <1>5, <1>7
    <3> QED
      BY <2>7, <2>8, <3>2, <3>3, <3>4
  <2>10. OfExec' \o OfInput' = OfInput
    <3> DEFINE a == <<PieceOf(c)>>
               b == [j \in 1 .. Len(worker'.input) |-> PieceOf(worker'.input[j])]
               q == [j \in 1 .. Len(worker.input) |-> PieceOf(worker.input[j])]
    <3>1. a \in Seq(Pieces) /\ b \in Seq(Pieces) /\ q \in Seq(Pieces)
      BY <2>7, <2>8, <2>9
    <3>2. Len(a) = 1 /\ a[1] = PieceOf(c)
      OBVIOUS
    <3>3. /\ DOMAIN b = 1 .. Len(worker'.input) /\ DOMAIN q = 1 .. Len(worker.input)
          /\ \A j \in 1 .. Len(worker'.input) : b[j] = PieceOf(worker'.input[j])
          /\ \A j \in 1 .. Len(worker.input) : q[j] = PieceOf(worker.input[j])
      OBVIOUS
    <3> HIDE DEF a, b, q
    <3>4. Len(b) = Len(worker'.input) /\ Len(q) = Len(worker.input)
          /\ Len(worker.input) = Len(worker'.input) + 1 /\ Len(worker'.input) \in Nat
      <4>1. DOMAIN b = 1 .. Len(b) /\ DOMAIN q = 1 .. Len(q) /\ Len(b) \in Nat /\ Len(q) \in Nat
        BY <3>1, LenProperties
      <4>2. Len(worker'.input) = Len(worker.input) - 1
        BY <1>5, <1>7
      <4>3. Len(worker'.input) \in Nat
        BY <1>5, <4>2
      <4> QED
        BY <1>5, <3>3, <4>1, <4>2, <4>3
    <3>5. /\ a \o b \in Seq(Pieces) /\ Len(a \o b) = Len(a) + Len(b)
          /\ \A i \in 1 .. Len(a) + Len(b) : (a \o b)[i] = IF i <= Len(a) THEN a[i] ELSE b[i - Len(a)]
      BY <3>1, ConcatProperties
    <3>6. Len(a \o b) = Len(q)
      BY <3>2, <3>4, <3>5
    <3>7. ASSUME NEW i \in 1 .. Len(q) PROVE (a \o b)[i] = q[i]
      <4>1. q[i] = PieceOf(worker.input[i])
        BY <3>3, <3>4
      <4>2. CASE i = 1
        BY <1>5, <3>2, <3>4, <3>5, <4>1, <4>2
      <4>3. CASE i # 1
        <5>1. i - 1 \in 1 .. Len(worker'.input) /\ (i - 1) + 1 = i
          BY <3>4, <4>3
        <5>2. b[i - 1] = PieceOf(worker.input[i])
          BY <2>5, <3>3, <5>1
        <5>3. (a \o b)[i] = b[i - 1]
          BY <3>2, <3>4, <3>5, <4>3
        <5> QED
          BY <4>1, <5>2, <5>3
      <4> QED
        BY <4>2, <4>3
    <3>8. a \o b = q
      BY <3>1, <3>5, <3>6, <3>7, SeqEqual
    <3> QED
      BY <2>7, <2>8, <3>8 DEF a, b, q
  <2>11. OfExec \o OfInput = OfInput
    BY <2>7, <2>9, ConcatEmptySeq
  <2> QED
    BY <2>6, <2>10, <2>11
<1>17. ProfileOK'
  BY <1>1, <1>15, <1>16 DEF ProfileOK
<1>18. DisplayOK'
  <2>1. prepared => OnTheWay' = OnTheWay
    BY <1>1, <1>7, <1>15, <1>16 DEF OnTheWay
  <2>2. Submitted' = Submitted
    BY <1>8, <1>10 DEF Submitted
  <2> QED
    BY <1>1, <1>8, <1>10, <2>1, <2>2 DEF IInv, DisplayOK
<1> QED
  BY <1>9, <1>11, <1>12, <1>13, <1>14, <1>17, <1>18 DEF IInv

\* The output of the callback is the piece that was submitted, under the right profile.
LEMMA PublishKeeps == IInv /\ Publish => IInv'
<1> SUFFICES ASSUME IInv, Publish PROVE IInv'
  OBVIOUS
<1> DEFINE c == Head(worker.exec)
           out == OutputOf(c)
<1>1. /\ worker.alive /\ worker.exec # <<>>
      /\ worker' = [worker EXCEPT !.exec = <<>>, !.outputs = worker.outputs \o out]
      /\ UNCHANGED <<replay, pending, stage, shown, rows, prepared, chosen, calls>>
  BY DEF Publish
<1>2. TypeOK /\ replay \in Replays /\ worker \in Workers /\ replay.loaded /\ Lua /\ Live
  BY <1>1, AliveIsLive DEF IInv, TypeOK
<1>3. worker.exec \in Seq(Commands) /\ worker.outputs \in Seq(Pieces) /\ worker.profile \in Profiles
  BY <1>2 DEF Workers
<1>4. c \in Commands /\ c = worker.exec[1]
  BY <1>1, <1>3, HeadTailProperties
<1>5. out \in Seq(Pieces)
  <2>1. Piece(c.at, c.part, worker.profile) \in Pieces
    BY <1>3, <1>4 DEF Commands, Piece, Pieces
  <2>2. <<Piece(c.at, c.part, worker.profile)>> \in Seq(Pieces) /\ <<>> \in Seq(Pieces)
    BY <2>1
  <2> HIDE DEF c
  <2> QED
    BY <2>2 DEF OutputOf
<1> HIDE DEF c, out
<1>6. worker.outputs \o out \in Seq(Pieces)
  BY <1>3, <1>5, Joined
<1>7. /\ worker' \in Workers /\ worker'.alive /\ worker'.input = worker.input
      /\ worker'.exec = <<>> /\ worker'.outputs = worker.outputs \o out
      /\ worker'.profile = worker.profile
  BY <1>1, <1>2, <1>6, EmptySeq DEF Workers
<1>8. TypeOK'
  BY <1>1, <1>2, <1>7 DEF TypeOK
<1>9. Lua' /\ Lua /\ Live' /\ Live /\ Current' = Current /\ AtEnd' = AtEnd
  BY <1>1, <1>2, <1>7 DEF Lua, Live, Current, AtEnd
<1>10. StageOK' /\ SliceOK'
  BY <1>1, <1>9 DEF IInv, StageOK, SliceOK
<1>11. NothingRuns'
  BY <1>1, <1>2, <1>7, <1>9 DEF NothingRuns
<1>12. Unprepared'
  BY <1>1, <1>7, <1>9 DEF IInv, Unprepared
<1>13. DrawingOK'
  <2>1. ~Idle
    BY <1>1 DEF Idle, InputIdle
  <2> QED
    BY <1>1, <1>9, <2>1 DEF IInv, DrawingOK
<1>14. ProfileOK'
  <2>1. Len(<<>>) <= 1
    OBVIOUS
  <2>2. FenceOpen' = FenceOpen
    BY <1>1 DEF FenceOpen
  <2> QED
    BY <1>1, <1>7, <1>9, <2>1, <2>2 DEF IInv, ProfileOK
<1>15. DisplayOK'
  <2>1. ASSUME prepared PROVE out = OfExec
    <3>1. c.op # "load" /\ (IsBytes(c) => ProfileBefore(c.at) = worker.profile)
      BY <1>1, <1>2, <1>4, <2>1 DEF IInv, ProfileOK
    <3>2. c.op \in {"load", "profile", "bytes"}
      BY <1>4 DEF Commands
    <3>3. OfExec = IF IsBytes(c) THEN <<PieceOf(c)>> ELSE <<>>
      BY <1>1, <1>4 DEF OfExec
    <3> QED
      BY <3>1, <3>2, <3>3 DEF out, OutputOf, PieceOf, IsBytes
  <2>2. OfExec' = <<>> /\ OfInput' = OfInput
    BY <1>1, <1>7 DEF OfExec, OfInput
  <2>3. OfInput \in Seq(Pieces)
    BY <1>2, WayType
  <2>4. ASSUME prepared PROVE OnTheWay' = OnTheWay
    <3>1. OnTheWay' = pending \o ((worker.outputs \o out) \o (<<>> \o OfInput))
      BY <1>1, <1>7, <2>2 DEF OnTheWay
    <3>2. <<>> \o OfInput = OfInput
      BY <2>3, ConcatEmptySeq
    <3>3. worker.outputs \in Seq(Pieces)
      BY <1>3
    <3>4. (worker.outputs \o out) \o OfInput = worker.outputs \o (out \o OfInput)
      BY ONLY <1>5, <2>3, <3>3, Assoc
    <3> QED
      BY <2>1, <2>4, <3>1, <3>2, <3>4 DEF OnTheWay
  <2>5. Submitted' = Submitted
    BY <1>1, <1>9 DEF Submitted
  <2> QED
    BY <1>1, <1>9, <2>4, <2>5 DEF IInv, DisplayOK
<1> QED
  BY <1>8, <1>10, <1>11, <1>12, <1>13, <1>14, <1>15 DEF IInv

-----------------------------------------------------------------------------
(* Preparing                                                                *)

\* The display of a timeline that starts is empty, and so is what its events show so far.
ClearedNext ==
    /\ replay'.index = 0 /\ replay'.started = FALSE /\ replay'.offset = 0 /\ replay'.fence = "none"
    /\ worker'.input = <<>> /\ worker'.exec = <<>> /\ worker'.outputs = <<>> /\ worker'.profile = 0
    /\ shown' = <<>> /\ rows' = <<>> /\ pending' = <<>>

\* Nothing submitted and nothing drawn agree.
LEMMA ClearedKeeps ==
    ASSUME ClearedNext
    PROVE  SliceOK' /\ ProfileOK' /\ DisplayOK'
<1>1. SliceOK'
  BY DEF ClearedNext, SliceOK
<1>2. ProfileOK'
  <2>1. Len(<<>>) = 0
    OBVIOUS
  <2>2. Current' = 1 /\ ProfileBefore(1) = 0
    BY ProfileBeforeNext DEF ClearedNext, Current
  <2> QED
    BY <2>1, <2>2 DEF ClearedNext, ProfileOK
<1>3. DisplayOK'
  <2>1. <<>> \in Seq(Pieces) /\ <<>> \o <<>> = <<>>
    BY EmptySeq, ConcatEmptySeq
  <2>2. OfExec' = <<>>
    BY DEF ClearedNext, OfExec
  <2>3. OfInput' = <<>>
    <3>1. [j \in 1 .. 0 |-> PieceOf(worker'.input[j])] = <<>> /\ Len(<<>>) = 0
      OBVIOUS
    <3>2. OfInput' = [j \in 1 .. Len(worker'.input) |-> PieceOf(worker'.input[j])]
      BY DEF ClearedNext, OfInput
    <3> QED
      BY <3>1, <3>2 DEF ClearedNext
  <2>4. OnTheWay' = <<>>
    BY <2>1, <2>2, <2>3 DEF ClearedNext, OnTheWay
  <2>5. Submitted' = <<>>
    BY <2>1, ExpectedNone DEF ClearedNext, Submitted
  <2>6. shown' \o OnTheWay' = Submitted'
    BY <2>1, <2>4, <2>5 DEF ClearedNext
  <2>7. \E rest \in Seq(Pieces) : shown' \o rest = Submitted'
    BY <2>1, <2>4, <2>6
  <2>8. rows' = ExpectedRows(replay'.index) /\ replay'.started = FALSE
    BY ExpectedRowsStep DEF ClearedNext
  <2> QED
    BY <2>6, <2>7, <2>8 DEF DisplayOK
<1> QED
  BY <1>1, <1>2, <1>3

\* A timeline that is being prepared has a worker, and shows nothing yet.
LEMMA PreparingFacts ==
    ASSUME IInv, replay.loaded, replay.phase = "Preparing"
    PROVE  Live /\ Lua /\ worker.alive /\ ~prepared
<1>1. Live /\ Lua
  BY DEF IInv, NothingRuns
<1>2. ~prepared
  BY <1>1 DEF IInv, DrawingOK, TypeOK
<1> QED
  BY <1>1, <1>2 DEF Live

LEMMA PumpKeeps == IInv /\ Pump => IInv'
<1> SUFFICES ASSUME IInv, Pump PROVE IInv'
  OBVIOUS
<1>1. /\ replay.loaded /\ UNCHANGED <<replay, pending, shown, rows, prepared, chosen, calls>>
      /\ stage' = CASE replay.phase = "Preparing" -> "preparing"
                    [] replay.phase = "Draining" -> "draining"
                    [] OTHER -> IF Lua THEN "flushing" ELSE "marked"
  BY DEF Pump
<1>2. /\ replay.phase = "Preparing" => stage' = "preparing"
      /\ replay.phase = "Draining" => stage' = "draining"
      /\ replay.phase \notin {"Preparing", "Draining"} => stage' = IF Lua THEN "flushing" ELSE "marked"
  BY <1>1
<1>3. stage' \in Stages
  BY <1>2 DEF Stages
<1>4. CASE replay.phase # "Preparing"
  <2>1. worker' = worker
    BY <1>4 DEF Pump
  <2>2. TypeOK' /\ ControlStep
    BY <1>1, <1>3, <2>1 DEF IInv, TypeOK, ControlStep
  <2>3. SliceOK' /\ ProfileOK' /\ DisplayOK' /\ Live' = Live /\ Lua' = Lua
    BY <2>2, ControlKeeps
  <2>4. StageOK'
    BY <1>1, <1>2, <1>4, <2>3 DEF StageOK
  <2>5. NothingRuns' /\ Unprepared'
    BY <1>1, <2>1, <2>3 DEF IInv, NothingRuns, Unprepared
  <2>6. DrawingOK'
    BY <1>1, <2>1, <2>3 DEF IInv, DrawingOK, AtEnd, Idle, InputIdle
  <2> QED
    BY <2>2, <2>3, <2>4, <2>5, <2>6 DEF IInv
<1>5. CASE replay.phase = "Preparing"
  <2>1. worker' = [worker EXCEPT !.outputs = <<>>] /\ worker \in Workers
    BY <1>5 DEF Pump, IInv, TypeOK
  <2>2. Live /\ Lua /\ worker.alive /\ ~prepared
    BY <1>1, <1>5, PreparingFacts
  <2>3. /\ worker' \in Workers /\ worker'.alive /\ worker'.input = worker.input
        /\ worker'.exec = worker.exec /\ worker'.profile = worker.profile
    BY <2>1, <2>2, EmptySeq DEF Workers
  <2>4. TypeOK'
    BY <1>1, <1>3, <2>3 DEF IInv, TypeOK
  <2>5. Lua' /\ Live' /\ ~prepared'
    BY <1>1, <2>2, <2>3 DEF Lua, Live
  <2>6. StageOK' /\ SliceOK'
    <3>1. Current' = Current /\ AtEnd' = AtEnd
      BY <1>1 DEF Current, AtEnd
    <3> QED
      BY <1>1, <1>2, <1>5, <2>2, <2>5, <3>1 DEF IInv, StageOK, SliceOK
  <2>7. ProfileOK' /\ DisplayOK' /\ DrawingOK'
    BY <2>5 DEF ProfileOK, DisplayOK, DrawingOK
  <2>8. NothingRuns'
    BY <1>1, <2>3, <2>5 DEF NothingRuns
  <2>9. Unprepared'
    BY <1>1, <2>2, <2>3, <2>5 DEF IInv, Unprepared
  <2> QED
    BY <2>4, <2>6, <2>7, <2>8, <2>9 DEF IInv
<1> QED
  BY <1>4, <1>5

LEMMA EndPreparationKeeps == IInv /\ EndPreparation => IInv'
<1> SUFFICES ASSUME IInv, EndPreparation PROVE IInv'
  OBVIOUS
<1>1. stage' = "free" /\ UNCHANGED <<chosen, calls>> /\ replay.loaded /\ replay.phase = "Preparing"
  BY DEF EndPreparation, IInv, StageOK
<1>2. Live /\ Lua /\ worker.alive /\ ~prepared /\ replay \in Replays /\ worker \in Workers
  BY <1>1, PreparingFacts DEF IInv, TypeOK
<1>3. /\ replay.index = 0 /\ ~replay.started /\ replay.fence = "none" /\ ~replay.rebuilding
      /\ worker.profile = 0 /\ replay.offset = 0
  BY <1>1, <1>2 DEF IInv, Unprepared, SliceOK
<1>4. CASE /\ UNCHANGED <<worker, pending, shown, rows, prepared>>
           /\ \/ replay' = replay
              \/ replay' = [replay EXCEPT !.prep = "none", !.phase = "Failed", !.playing = FALSE]
  <2>1. /\ replay' \in Replays /\ replay'.loaded /\ replay'.mode = replay.mode
        /\ replay'.index = 0 /\ ~replay'.started /\ replay'.fence = "none" /\ ~replay'.rebuilding
        /\ replay'.offset = 0 /\ replay'.phase \in {"Preparing", "Failed"}
    BY <1>1, <1>2, <1>3, <1>4 DEF Replays, Answers, Phases
  <2>2. TypeOK'
    BY <1>1, <1>4, <2>1 DEF IInv, TypeOK, Stages
  <2>3. Lua' /\ Live' /\ ~prepared' /\ worker' = worker
    BY <1>2, <1>4, <2>1 DEF Lua, Live
  <2>4. StageOK' /\ SliceOK'
    BY <1>1, <2>1 DEF StageOK, SliceOK
  <2>5. ProfileOK' /\ DisplayOK' /\ DrawingOK'
    BY <2>3 DEF ProfileOK, DisplayOK, DrawingOK
  <2>6. NothingRuns' /\ Unprepared'
    BY <1>1, <1>2, <2>1, <2>3 DEF IInv, NothingRuns, Unprepared
  <2> QED
    BY <2>2, <2>4, <2>5, <2>6 DEF IInv
<1>5. CASE /\ Loaded /\ ClearDisplay /\ worker' = [worker EXCEPT !.outputs = <<>>]
           /\ replay' = [replay EXCEPT
                  !.prep = "none", !.rebuilding = TRUE, !.playing = Seeking \/ replay.playing,
                  !.phase = IF Seeking \/ replay.playing THEN "Replaying" ELSE "Paused"]
  <2>1. Seeking \in BOOLEAN /\ replay.playing \in BOOLEAN
    BY <1>2 DEF Seeking, Replays
  <2>2. (Seeking \/ replay.playing) \in BOOLEAN
    OBVIOUS
  <2> DEFINE go == Seeking \/ replay.playing
  <2> HIDE DEF go
  <2>3. replay' = [replay EXCEPT !.prep = "none", !.rebuilding = TRUE, !.playing = go,
                                 !.phase = IF go THEN "Replaying" ELSE "Paused"]
    BY <1>5 DEF go
  <2>4. /\ replay' \in Replays /\ replay'.loaded /\ replay'.mode = replay.mode
        /\ replay'.index = 0 /\ replay'.started = FALSE /\ replay'.fence = "none"
        /\ replay'.rebuilding
        /\ replay'.offset = 0 /\ replay'.phase \in {"Replaying", "Paused"}
    <3>1. go \in BOOLEAN
      BY <2>2 DEF go
    <3> QED
      BY <1>1, <1>2, <1>3, <2>3, <3>1 DEF Replays, Answers, Phases
  <2>5. /\ worker' \in Workers /\ worker'.alive /\ worker'.input = <<>>
        /\ worker'.exec = <<>> /\ worker'.profile = 0 /\ worker'.outputs = <<>>
    BY <1>2, <1>3, <1>5, EmptySeq DEF Workers, Loaded, InputIdle
  <2>6. shown' = <<>> /\ rows' = <<>> /\ pending' = <<>> /\ prepared' = TRUE
    BY <1>5 DEF ClearDisplay
  <2>7. SliceOK' /\ ProfileOK' /\ DisplayOK'
    BY <2>4, <2>5, <2>6, ClearedKeeps DEF ClearedNext
  <2>8. <<>> \in Seq(Nat) /\ <<>> \in Seq(Pieces)
    BY EmptySeq
  <2>9. TypeOK'
    BY <1>1, <2>4, <2>5, <2>6, <2>8 DEF IInv, TypeOK, Stages
  <2>10. Lua' /\ Live'
    BY <1>2, <2>4, <2>5 DEF Lua, Live
  <2>11. StageOK' /\ NothingRuns' /\ Unprepared'
    BY <1>1, <2>4, <2>5, <2>6, <2>10 DEF StageOK, NothingRuns, Unprepared
  <2>12. DrawingOK'
    BY <2>4, <2>10 DEF DrawingOK
  <2> QED
    BY <2>7, <2>9, <2>11, <2>12 DEF IInv
<1>6. CASE ~Loaded
  BY <1>4, <1>6 DEF EndPreparation
<1>7. CASE Loaded /\ replay.prep = "bad"
  BY <1>4, <1>7 DEF EndPreparation
<1>8. CASE Loaded /\ replay.prep # "bad"
  BY <1>5, <1>8 DEF EndPreparation
<1> QED
  BY <1>6, <1>7, <1>8

-----------------------------------------------------------------------------
(* Calls of the user                                                        *)

\* The user presses no button that would act on a timeline being prepared or one that failed,
\* and steps only where the timeline itself would go on.
Careful == Risky \subseteq {"resume cancelled"}

\* A timeline that stands in front of its first event is prepared anew.
LEMMA PrepareKeeps ==
    ASSUME IInv, NEW r \in Replays, NEW ok \in BOOLEAN, NEW left \in Seq(Pieces),
           r.loaded, r.index = 0, ~r.started, r.offset = 0, r.fence = "none", ~r.rebuilding,
           Prepare(r, ok, left), stage' = "free", calls' \in Nat, chosen' \in Pacings
    PROVE  IInv'
<1>1. CASE r.mode = "browse"
  <2> DEFINE p == IF r.playing THEN "Replaying" ELSE "Paused"
  <2>1. p \in {"Replaying", "Paused"}
    OBVIOUS
  <2> HIDE DEF p
  <2>2. /\ replay' = [r EXCEPT !.phase = p] /\ worker' = NoWorker
        /\ shown' = <<>> /\ rows' = <<>> /\ pending' = <<>> /\ prepared' = TRUE
    BY <1>1 DEF Prepare, ClearDisplay, p
  <2>3. /\ replay' \in Replays /\ replay'.loaded /\ replay'.mode = "browse"
        /\ replay'.index = 0 /\ replay'.started = FALSE /\ replay'.offset = 0
        /\ replay'.fence = "none" /\ replay'.phase \in {"Replaying", "Paused"}
    BY <1>1, <2>1, <2>2 DEF Replays, Phases
  <2>4. /\ NoWorker.input = <<>> /\ NoWorker.exec = <<>> /\ NoWorker.outputs = <<>>
        /\ NoWorker.profile = 0
    BY DEF NoWorker
  <2>5. SliceOK' /\ ProfileOK' /\ DisplayOK'
    BY <2>2, <2>3, <2>4, ClearedKeeps DEF ClearedNext
  <2>6. <<>> \in Seq(Nat) /\ <<>> \in Seq(Pieces)
    BY EmptySeq
  <2>7. TypeOK'
    BY <2>2, <2>3, <2>6, FreshType DEF TypeOK, Stages
  <2>8. ~Lua' /\ Live'
    BY <2>3 DEF Lua, Live
  <2>9. StageOK' /\ NothingRuns' /\ Unprepared'
    BY <2>2, <2>3, <2>8 DEF StageOK, NothingRuns, Unprepared
  <2>10. DrawingOK'
    BY <2>3, <2>8 DEF DrawingOK
  <2> QED
    BY <2>5, <2>7, <2>9, <2>10 DEF IInv
<1>2. CASE r.mode # "browse"
  <2>1. r.mode = "lua"
    BY <1>2 DEF Replays
  <2>2. /\ pending' = left /\ prepared' = FALSE /\ shown' = shown /\ rows' = rows
        /\ replay' = IF ok THEN [r EXCEPT !.phase = "Preparing", !.prep = "waiting"]
                     ELSE [r EXCEPT !.phase = "Failed"]
        /\ worker' = IF ok THEN NewWorker ELSE [NewWorker EXCEPT !.input = <<>>]
    BY <1>2 DEF Prepare
  <2>3. /\ replay' \in Replays /\ replay'.loaded /\ replay'.mode = "lua"
        /\ replay'.index = 0 /\ replay'.started = FALSE /\ replay'.offset = 0
        /\ replay'.fence = "none" /\ ~replay'.rebuilding
        /\ replay'.phase \in {"Preparing", "Failed"}
    BY <2>1, <2>2 DEF Replays, Phases, Answers
  <2>4. /\ worker'.alive /\ worker'.profile = 0 /\ worker'.exec = <<>>
        /\ worker'.input \in {<<>>, <<LoadCommand>>}
    BY <2>2 DEF NewWorker, NoWorker
  <2>5. worker' \in Workers
    <3>1. <<>> \in Seq(Commands)
      BY EmptySeq
    <3>2. [NewWorker EXCEPT !.input = <<>>] \in Workers
      BY <3>1, FreshType DEF Workers
    <3> QED
      BY <2>2, <3>2, FreshType
  <2>6. TypeOK'
    BY <2>2, <2>3, <2>5 DEF IInv, TypeOK, Stages
  <2>7. Lua' /\ Live' /\ ~prepared'
    BY <2>2, <2>3, <2>4 DEF Lua, Live
  <2>8. StageOK' /\ SliceOK'
    BY <2>3 DEF StageOK, SliceOK
  <2>9. ProfileOK' /\ DisplayOK' /\ DrawingOK'
    BY <2>7 DEF ProfileOK, DisplayOK, DrawingOK
  <2>10. NothingRuns' /\ Unprepared'
    BY <2>3, <2>4, <2>7 DEF NothingRuns, Unprepared
  <2> QED
    BY <2>6, <2>8, <2>9, <2>10 DEF IInv
<1> QED
  BY <1>1, <1>2

LEMMA CallKeeps ==
    ASSUME IInv, Call
    PROVE  stage = "free" /\ stage' = "free" /\ calls' \in Nat
  BY DEF IInv, TypeOK, Call

LEMMA OutcomesAre == Outcomes \subseteq BOOLEAN
  BY DEF Outcomes

LEMMA LoadKeeps ==
    ASSUME IInv, NEW mode \in {"browse", "lua"}, NEW pacing \in Pacings, NEW ok \in BOOLEAN,
           Load(mode, pacing, ok)
    PROVE  IInv'
<1> DEFINE r == [Fresh EXCEPT !.loaded = TRUE, !.mode = mode, !.pacing = pacing]
<1>1. r \in Replays /\ r.loaded
  BY FreshType DEF Replays
<1>2. r.index = 0 /\ ~r.started /\ r.offset = 0 /\ r.fence = "none" /\ ~r.rebuilding
  BY DEF Fresh
<1>3. Prepare(r, ok, <<>>) /\ chosen' \in Pacings
  BY DEF Load
<1> HIDE DEF r
<1>4. <<>> \in Seq(Pieces) /\ stage' = "free" /\ calls' \in Nat
  BY CallKeeps, EmptySeq DEF Load
<1> QED
  BY <1>1, <1>2, <1>3, <1>4, PrepareKeeps

LEMMA SoughtType ==
    ASSUME TypeOK, NEW target \in Nat, replay.loaded
    PROVE  /\ Sought(target) \in Replays /\ Sought(target).loaded
           /\ Sought(target).index = 0 /\ ~Sought(target).started /\ Sought(target).offset = 0
           /\ Sought(target).fence = "none" /\ ~Sought(target).rebuilding
<1> DEFINE moving == target > 0
<1>1. replay \in Replays /\ moving \in BOOLEAN
  BY DEF TypeOK
<1>2. 0 \in 0 .. Total /\ 0 \in 0 .. Slices
  BY CaptureFacts
<1> DEFINE s == [replay EXCEPT
        !.index = 0, !.offset = 0, !.started = FALSE, !.target = target,
        !.resume = replay.playing, !.pacingAfter = replay.pacing, !.pacing = "fast",
        !.playing = moving, !.phase = "Paused"]
<1>3. Sought(target) = CleanedUp(s)
  BY DEF Sought
<1> HIDE DEF moving
<1>4. s \in Replays /\ s.loaded /\ s.index = 0 /\ s.started = FALSE /\ s.offset = 0
  BY <1>1, <1>2 DEF Replays, Phases, Pacings
<1> HIDE DEF s
<1>5. /\ CleanedUp(s) \in Replays /\ CleanedUp(s).loaded
      /\ CleanedUp(s).index = 0 /\ ~CleanedUp(s).started /\ CleanedUp(s).offset = 0
      /\ CleanedUp(s).fence = "none" /\ ~CleanedUp(s).rebuilding
  BY <1>4 DEF Replays, CleanedUp, Answers
<1> QED
  BY <1>3, <1>5

LEMMA SeekKeeps ==
    ASSUME IInv, NEW target \in Nat, NEW ok \in BOOLEAN, Seek(target, ok)
    PROVE  IInv'
<1>1. TypeOK /\ replay.loaded /\ Prepare(Sought(target), ok, pending) /\ chosen' = chosen
  BY DEF IInv, Seek
<1>2. stage' = "free" /\ calls' \in Nat
  BY CallKeeps DEF Seek
<1>3. pending \in Seq(Pieces) /\ chosen' \in Pacings
  BY <1>1 DEF TypeOK
<1> QED
  BY <1>1, <1>2, <1>3, SoughtType, PrepareKeeps

LEMMA UnloadKeeps == IInv /\ Unload => IInv'
<1> SUFFICES ASSUME IInv, Unload PROVE IInv'
  OBVIOUS
<1>1. /\ replay' = [Fresh EXCEPT !.phase = "Cancelled"] /\ worker' = NoWorker
      /\ pending' = <<>> /\ prepared' = FALSE /\ UNCHANGED <<shown, rows, chosen>>
      /\ stage' = "free" /\ calls' \in Nat
  BY CallKeeps DEF Unload
<1>2. replay' \in Replays
  BY <1>1, FreshType DEF Replays, Phases
<1>3. /\ ~replay'.loaded /\ replay'.mode = "browse" /\ ~replay'.started /\ replay'.offset = 0
      /\ replay'.fence = "none" /\ replay'.phase = "Cancelled"
  BY <1>1 DEF Fresh
<1>4. TypeOK'
  BY <1>1, <1>2, FreshType, EmptySeq DEF IInv, TypeOK, Stages
<1>5. ~Lua' /\ ~Live' /\ ~prepared'
  BY <1>1, <1>3 DEF Lua, Live
<1>6. StageOK' /\ SliceOK' /\ NothingRuns' /\ Unprepared'
  BY <1>1, <1>3, <1>5 DEF StageOK, SliceOK, NothingRuns, Unprepared
<1>7. ProfileOK' /\ DisplayOK' /\ DrawingOK'
  BY <1>5 DEF ProfileOK, DisplayOK, DrawingOK
<1> QED
  BY <1>4, <1>6, <1>7 DEF IInv

\* While a timeline is prepared the careful user does not pause it.
LEMMA PauseKeeps ==
    ASSUME Careful, IInv, Pause
    PROVE  IInv'
<1>1. /\ replay.loaded /\ replay.playing /\ stage' = "free" /\ calls' \in Nat
      /\ replay.phase # "Preparing"
      /\ UNCHANGED <<worker, pending, shown, rows, prepared, chosen>>
  BY CallKeeps DEF Pause, Careful
<1> DEFINE p == IF replay.phase \in {"Completed", "Failed"} THEN replay.phase ELSE "Paused"
<1>2. p \in {replay.phase, "Paused"} /\ (replay.phase \in {"Completed", "Failed"} <=> p \in {"Completed", "Failed"})
      /\ (replay.phase = "Completed" <=> p = "Completed") /\ (replay.phase = "Failed" <=> p = "Failed")
  OBVIOUS
<1>3. replay' = [replay EXCEPT !.playing = FALSE, !.phase = p]
  BY DEF Pause
<1> HIDE DEF p
<1>4. replay \in Replays /\ stage = "free"
  BY CallKeeps DEF IInv, TypeOK, Pause
<1>5. /\ replay' \in Replays /\ replay'.phase = p /\ ~replay'.playing
      /\ replay'.rebuilding = replay.rebuilding /\ replay'.fence = replay.fence
  BY <1>2, <1>3, <1>4 DEF Replays, Phases
<1>6. TypeOK'
  BY <1>1, <1>5 DEF IInv, TypeOK, Stages
<1>7. ControlStep
  BY <1>1, <1>2, <1>3, <1>4, <1>5 DEF ControlStep, Replays
<1>8. SliceOK' /\ ProfileOK' /\ DisplayOK' /\ Live' = Live /\ Lua' = Lua
  BY <1>7, ControlKeeps
<1>9. StageOK'
  BY <1>1 DEF StageOK
<1>10. NothingRuns'
  <2>1. /\ ~Lua \/ ~worker.alive => worker = NoWorker /\ pending = <<>>
        /\ ~Live => "resume cancelled" \in Risky
        /\ ~Lua => replay.fence = "none" /\ replay.phase # "Failed"
    BY <1>1 DEF IInv, NothingRuns
  <2>2. replay'.loaded /\ p # "Preparing"
    BY <1>1, <1>2, <1>7 DEF ControlStep
  <2> QED
    BY <1>1, <1>2, <1>5, <1>8, <2>1, <2>2 DEF NothingRuns
<1>11. Unprepared'
  BY <1>1, <1>2, <1>5, <1>7, <1>8 DEF IInv, Unprepared, ControlStep
<1>12. DrawingOK'
  BY <1>1, <1>2, <1>5, <1>7, <1>8 DEF IInv, DrawingOK, ControlStep, AtEnd, Idle, InputIdle
<1> QED
  BY <1>6, <1>8, <1>9, <1>10, <1>11, <1>12 DEF IInv

\* The careful user does not resume a timeline that failed.
LEMMA PlayKeeps ==
    ASSUME Careful, IInv, NEW ok \in BOOLEAN, Play(ok)
    PROVE  IInv'
<1>1. /\ replay.loaded /\ ~replay.playing /\ stage' = "free" /\ calls' \in Nat
      /\ chosen' = chosen /\ stage = "free" /\ replay \in Replays /\ TypeOK
  BY CallKeeps DEF Play, IInv, TypeOK
<1>2. CASE replay.phase = "Completed"
  <2> DEFINE s == Sought(0)
             go == ok \/ ~Lua
  <2>1. /\ s \in Replays /\ s.loaded /\ s.index = 0 /\ ~s.started /\ s.offset = 0
        /\ s.fence = "none" /\ ~s.rebuilding
    BY <1>1, SoughtType
  <2>2. go \in BOOLEAN
    OBVIOUS
  <2>3. Prepare([s EXCEPT !.playing = go], ok, pending)
    BY <1>2 DEF Play
  <2> HIDE DEF s, go
  <2> DEFINE r == [s EXCEPT !.playing = go]
  <2>4. /\ r \in Replays /\ r.loaded /\ r.index = 0 /\ ~r.started /\ r.offset = 0
        /\ r.fence = "none" /\ ~r.rebuilding
    BY <2>1, <2>2 DEF Replays
  <2> HIDE DEF r
  <2>5. pending \in Seq(Pieces) /\ chosen' \in Pacings /\ Prepare(r, ok, pending)
    BY <1>1, <2>3 DEF TypeOK, r
  <2> QED
    BY <1>1, <2>4, <2>5, PrepareKeeps
<1>3. CASE replay.phase # "Completed"
  <2>1. replay.phase # "Failed" /\ (Lua /\ ~worker.alive => "resume cancelled" \in Risky)
    BY DEF Play, Resumable, Careful
  <2> DEFINE p == IF replay.phase = "Preparing" THEN "Preparing" ELSE "Replaying"
  <2>2. p \in Phases /\ p \notin {"Failed", "Completed"} /\ (p = "Preparing" <=> replay.phase = "Preparing")
    BY DEF Phases
  <2>3. /\ replay' = [replay EXCEPT !.playing = TRUE, !.phase = p]
        /\ UNCHANGED <<worker, pending, shown, rows, prepared>>
    BY <1>3 DEF Play
  <2> HIDE DEF p
  <2>4. /\ replay' \in Replays /\ replay'.phase = p
        /\ replay'.rebuilding = replay.rebuilding /\ replay'.fence = replay.fence
    BY <1>1, <2>2, <2>3 DEF Replays
  <2>5. TypeOK'
    BY <1>1, <2>3, <2>4 DEF TypeOK, Stages
  <2>6. ControlStep
    BY <1>1, <2>1, <2>3 DEF ControlStep, Replays
  <2>7. SliceOK' /\ ProfileOK' /\ DisplayOK' /\ Live' = Live /\ Lua' = Lua
    BY <2>6, ControlKeeps
  <2>8. StageOK'
    BY <1>1 DEF StageOK
  <2>9. NothingRuns'
    <3>1. ~Live => Lua /\ ~worker.alive
      BY <1>1 DEF Live
    <3>2. /\ ~Lua \/ ~worker.alive => worker = NoWorker /\ pending = <<>>
          /\ ~Live => replay.phase # "Preparing"
          /\ ~Lua => replay.fence = "none" /\ replay.phase # "Preparing"
      BY <1>1 DEF IInv, NothingRuns
    <3>3. ~Live => "resume cancelled" \in Risky
      BY <2>1, <3>1
    <3>4. replay'.loaded /\ worker' = worker /\ pending' = pending
      BY <1>1, <2>3, <2>6 DEF ControlStep
    <3> QED
      BY <2>2, <2>4, <2>7, <3>2, <3>3, <3>4 DEF NothingRuns
  <2>10. Unprepared'
    <3> SUFFICES ASSUME ~prepared PROVE Unprepared'
      BY <2>3 DEF Unprepared
    <3>1. /\ Lua /\ replay.index = 0 /\ ~replay.started /\ replay.fence = "none" /\ ~replay.rebuilding
          /\ worker.alive =>
                /\ replay.phase \in {"Preparing", "Failed"} /\ worker.profile = 0
                /\ worker.input \in {<<>>, <<LoadCommand>>}
                /\ worker.exec \in {<<>>, <<LoadCommand>>}
      BY <1>1 DEF IInv, Unprepared
    <3>2. /\ replay'.index = replay.index /\ replay'.started = replay.started
          /\ worker' = worker
      BY <2>6 DEF ControlStep
    <3> QED
      BY <2>1, <2>2, <2>4, <2>7, <3>1, <3>2 DEF Unprepared
  <2>11. DrawingOK'
    BY <1>3, <2>2, <2>3, <2>4, <2>6, <2>7 DEF IInv, DrawingOK, ControlStep
  <2> QED
    BY <2>5, <2>7, <2>8, <2>9, <2>10, <2>11 DEF IInv
<1> QED
  BY <1>2, <1>3

\* The worker goes, and what was shown before stays.
LEMMA CancelTransferKeeps == IInv /\ CancelTransfer => IInv'
<1> SUFFICES ASSUME IInv, CancelTransfer PROVE IInv'
  OBVIOUS
<1>1. /\ replay.loaded /\ stage = "free" /\ stage' = "free" /\ calls' \in Nat
      /\ replay \in Replays /\ TypeOK
      /\ worker' = NoWorker /\ pending' = <<>> /\ UNCHANGED <<shown, rows, prepared, chosen>>
  BY CallKeeps DEF CancelTransfer, IInv, TypeOK
<1> DEFINE s == [replay EXCEPT !.phase = "Cancelled", !.playing = FALSE]
<1>2. replay' = CleanedUp(s)
  BY DEF CancelTransfer
<1>3. /\ s \in Replays /\ s.loaded /\ s.mode = replay.mode /\ s.phase = "Cancelled" /\ ~s.playing
      /\ s.index = replay.index /\ s.started = replay.started /\ s.offset = replay.offset
  BY <1>1 DEF Replays, Phases
<1> HIDE DEF s
<1>4. /\ replay' \in Replays /\ replay'.loaded /\ replay'.mode = replay.mode
      /\ replay'.phase = "Cancelled" /\ ~replay'.playing
      /\ replay'.index = replay.index /\ replay'.started = replay.started
      /\ replay'.offset = replay.offset /\ replay'.fence = "none" /\ replay'.rebuilding = FALSE
  BY <1>2, <1>3 DEF Replays, CleanedUp, Answers
<1>5. TypeOK'
  BY <1>1, <1>4, FreshType, EmptySeq DEF TypeOK, Stages
<1>6. Lua' = Lua /\ Current' = Current /\ AtEnd' = AtEnd /\ ~worker'.alive /\ (Live' => ~Lua)
  BY <1>1, <1>4 DEF Lua, Current, AtEnd, Live, NoWorker
<1>7. StageOK' /\ SliceOK'
  BY <1>1, <1>4, <1>6 DEF IInv, StageOK, SliceOK
<1>8. NothingRuns'
  BY <1>1, <1>4 DEF NothingRuns
<1>9. Unprepared'
  <2> SUFFICES ASSUME ~prepared PROVE Unprepared'
    BY <1>1 DEF Unprepared
  <2>1. /\ Lua /\ replay.index = 0 /\ ~replay.started
    BY <1>1 DEF IInv, Unprepared
  <2> QED
    BY <1>4, <1>6, <2>1 DEF Unprepared
<1>10. Submitted' = Submitted
  BY <1>4, <1>6 DEF Submitted
<1>11. CASE ~Lua
  <2>1. /\ worker = NoWorker /\ pending = <<>> /\ replay.fence = "none" /\ Live
    BY <1>1, <1>11 DEF IInv, NothingRuns, Live
  <2>2. worker' = worker /\ pending' = pending /\ replay'.fence = replay.fence /\ ~Lua' /\ Live'
    BY <1>1, <1>4, <1>6, <1>11, <2>1 DEF Live
  <2>3. OnTheWay' = OnTheWay
    BY <2>2 DEF OnTheWay, OfExec, OfInput
  <2>4. DisplayOK'
    BY <1>1, <1>4, <1>6, <1>10, <2>1, <2>3 DEF IInv, DisplayOK
  <2>5. ProfileOK'
    <3>1. worker.exec = <<>> /\ worker.input = <<>> /\ Len(<<>>) = 0
      BY <2>1 DEF NoWorker
    <3> QED
      BY <1>4, <2>2, <3>1 DEF ProfileOK
  <2>6. DrawingOK'
    BY <1>4, <2>2 DEF DrawingOK
  <2> QED
    BY <1>5, <1>7, <1>8, <1>9, <2>4, <2>5, <2>6 DEF IInv
<1>12. CASE Lua
  <2>1. ~Live'
    BY <1>6, <1>12
  <2>2. DisplayOK'
    BY <1>1, <1>4, <1>6, <1>10, <2>1 DEF IInv, DisplayOK
  <2>3. ProfileOK' /\ DrawingOK'
    BY <2>1 DEF ProfileOK, DrawingOK
  <2> QED
    BY <1>5, <1>7, <1>8, <1>9, <2>2, <2>3 DEF IInv
<1> QED
  BY <1>11, <1>12

-----------------------------------------------------------------------------
(* Replaying an event                                                       *)

\* A round or a step replays the next event of the timeline, as r, when nothing holds it.
EventReady(r) ==
    /\ r \in Replays /\ r.loaded = replay.loaded /\ r.mode = replay.mode
    /\ r.index = replay.index /\ r.started = replay.started /\ r.offset = replay.offset
    /\ r.fenceOf = replay.fenceOf /\ r.rebuilding = replay.rebuilding
    /\ r.fence \in {"none", replay.fence} /\ r.phase \in {"Replaying", "Paused"}
    /\ prepared /\ Live /\ FenceOpen /\ ~AtEnd
    /\ Lua /\ IsControl(Current) => Idle /\ pending = <<>>
    /\ replay.phase \notin {"Failed", "Completed"}
    /\ UNCHANGED <<prepared, chosen>>
    /\ calls' \in Nat /\ stage' \in {"free", "looping"}
    /\ stage' = "looping" => r.phase = "Replaying" /\ r.playing

\* What is known where an event is replayed.
LEMMA EventFacts ==
    ASSUME IInv, NEW r, EventReady(r)
    PROVE  /\ replay.index \in 0 .. (Total - 1) /\ Current = replay.index + 1
           /\ Current \in 1 .. Total /\ Current \in Nat /\ r.index + 1 = Current
           /\ replay.loaded /\ replay \in Replays /\ worker \in Workers
           /\ replay.fence # "waiting" /\ r.fence \in {"none", "ok"}
           /\ (Lua => replay.rebuilding) /\ (Lua => worker.profile = ProfileBefore(Current))
           /\ shown \o OnTheWay = Submitted
           /\ rows = ExpectedRows(IF replay.started THEN Current ELSE replay.index)
           /\ (~Lua => worker = NoWorker /\ pending = <<>> /\ replay.fence = "none")
           /\ (Lua => worker.alive)
<1>1. replay \in Replays /\ worker \in Workers
  BY DEF IInv, TypeOK
<1>2. replay.index \in 0 .. (Total - 1)
  BY <1>1, CaptureFacts DEF EventReady, AtEnd, Replays
<1>3. Current = replay.index + 1 /\ Current \in 1 .. Total /\ Current \in Nat
  BY <1>2, CaptureFacts DEF Current
<1>4. replay.loaded /\ (Lua => worker.alive)
  BY DEF EventReady, Live
<1>5. replay.fence # "waiting" /\ r.fence \in {"none", "ok"}
  BY DEF EventReady, FenceOpen
<1>6. Lua => replay.rebuilding /\ worker.profile = ProfileBefore(Current)
  BY DEF EventReady, IInv, DrawingOK, ProfileOK
<1>7. /\ shown \o OnTheWay = Submitted
      /\ rows = ExpectedRows(IF replay.started THEN Current ELSE replay.index)
  BY DEF EventReady, IInv, DisplayOK
<1>8. ~Lua => worker = NoWorker /\ pending = <<>> /\ replay.fence = "none"
  BY DEF IInv, NothingRuns
<1> QED
  BY <1>1, <1>2, <1>3, <1>4, <1>5, <1>6, <1>7, <1>8 DEF EventReady

\* What stays as it was, whatever the event.
EventFrame(r) ==
    /\ replay'.loaded = r.loaded /\ replay'.mode = r.mode /\ replay'.playing = r.playing
    /\ replay'.rebuilding = r.rebuilding
    /\ replay'.phase \in {r.phase, "Draining"} /\ (r.playing => replay'.phase = r.phase)
    /\ worker'.alive = worker.alive
    /\ ~Lua => worker' = worker /\ pending' = pending /\ replay'.fence = r.fence

\* Whatever the event does, the control of the timeline stays sound.
LEMMA EventRest ==
    ASSUME IInv, NEW r, EventReady(r), EventFrame(r)
    PROVE  StageOK' /\ NothingRuns' /\ Unprepared' /\ DrawingOK' /\ Lua' = Lua /\ Live'
<1>1. /\ replay.loaded /\ (Lua => replay.rebuilding) /\ (Lua => worker.alive)
      /\ (~Lua => worker = NoWorker /\ pending = <<>> /\ replay.fence = "none")
  BY EventFacts
<1>2. /\ r.loaded = replay.loaded /\ r.mode = replay.mode /\ r.rebuilding = replay.rebuilding
      /\ r.fence \in {"none", replay.fence} /\ r.phase \in {"Replaying", "Paused"}
      /\ prepared' /\ stage' \in {"free", "looping"}
      /\ stage' = "looping" => r.phase = "Replaying" /\ r.playing
  BY DEF EventReady
<1>3. Lua' = Lua /\ Live' /\ replay'.loaded
  BY <1>1, <1>2 DEF EventFrame, Lua, Live
<1>4. StageOK'
  BY <1>2, <1>3 DEF EventFrame, StageOK
<1>5. replay'.phase \in {"Replaying", "Paused", "Draining"}
  BY <1>2 DEF EventFrame
<1>6. NothingRuns'
  <2>1. ~Lua => worker' = NoWorker /\ pending' = <<>> /\ replay'.fence = "none"
    BY <1>1, <1>2 DEF EventFrame
  <2>2. Lua => worker'.alive
    BY <1>1 DEF EventFrame
  <2> QED
    BY <1>3, <1>5, <2>1, <2>2 DEF NothingRuns
<1>7. Unprepared'
  BY <1>2 DEF Unprepared
<1>8. DrawingOK'
  BY <1>1, <1>2, <1>3, <1>5 DEF EventFrame, DrawingOK
<1> QED
  BY <1>3, <1>4, <1>6, <1>7, <1>8

\* What the event adds to what is submitted is drawn at once or comes last on the way.
LEMMA ShownNext ==
    ASSUME NEW way \in Seq(Pieces), OnTheWay' = way, shown' \o way = Submitted',
           rows' = ExpectedRows(IF replay'.started THEN Current' ELSE replay'.index)
    PROVE  DisplayOK'
  BY DEF DisplayOK

\* The timeline that has passed an event.
LEMMA PassedType ==
    ASSUME NEW r \in Replays, r.index \in 0 .. (Total - 1)
    PROVE  /\ Passed(r) \in Replays
           /\ Passed(r).index = r.index + 1 /\ Passed(r).started = FALSE /\ Passed(r).offset = 0
           /\ Passed(r).phase \in {r.phase, "Draining"} /\ (r.playing => Passed(r).phase = r.phase)
           /\ Passed(r).loaded = r.loaded /\ Passed(r).mode = r.mode
           /\ Passed(r).playing = r.playing /\ Passed(r).rebuilding = r.rebuilding
           /\ Passed(r).fence = r.fence /\ Passed(r).fenceOf = r.fenceOf
<1> DEFINE p == IF ~r.playing /\ r.index + 1 = Total THEN "Draining" ELSE r.phase
<1>1. p \in {r.phase, "Draining"} /\ (r.playing => p = r.phase) /\ p \in Phases
  BY DEF Replays, Phases
<1>2. Passed(r) = [r EXCEPT !.index = r.index + 1, !.started = FALSE, !.offset = 0, !.phase = p]
  BY DEF Passed
<1> HIDE DEF p
<1>3. r.index + 1 \in 0 .. Total /\ 0 \in 0 .. Slices
  BY CaptureFacts
<1> QED
  BY <1>1, <1>2, <1>3 DEF Replays


-----------------------------------------------------------------------------
(* A legacy event, slice by slice                                           *)

\* One flush, and one slice more for an idle worker or the next event after the last slice.
LEMMA SliceKeeps ==
    ASSUME IInv, NEW r, EventReady(r), Capture[r.index + 1] = "legacy", r.mode = "lua",
           ReplaySlice(r)
    PROVE  IInv'
<1> DEFINE i == r.index + 1
           posts == InputIdle /\ r.offset < Slices
           c == BytesCommand(i, r.offset + 1)
<1>1. PICK f \in Flushes :
        /\ pending' = f.pending /\ shown' = f.shown
        /\ rows' = IF InputIdle /\ ~r.started THEN Append(rows, i) ELSE rows
        /\ worker' = [worker EXCEPT !.outputs = f.outputs,
                                    !.input = IF posts THEN Append(worker.input, c) ELSE worker.input]
        /\ replay' = IF ~InputIdle THEN r
                     ELSE IF posts THEN [r EXCEPT !.started = TRUE, !.offset = r.offset + 1]
                     ELSE Passed(r)
  BY DEF ReplaySlice
<1>2. /\ replay.index \in 0 .. (Total - 1) /\ i = Current /\ Current = replay.index + 1
      /\ Current \in 1 .. Total /\ Current \in Nat
      /\ replay.loaded /\ replay \in Replays /\ worker \in Workers /\ replay.fence # "waiting"
      /\ r.fence # "waiting" /\ r.fence \in {"none", "ok"}
      /\ shown \o OnTheWay = Submitted
      /\ rows = ExpectedRows(IF replay.started THEN Current ELSE replay.index)
  BY EventFacts
<1>3. Lua /\ replay.rebuilding /\ worker.profile = ProfileBefore(Current) /\ worker.alive
      /\ Capture[Current] = "legacy"
  BY <1>2, EventFacts DEF EventReady, Lua
<1>4. TypeOK /\ stage' \in Stages /\ prepared' = prepared /\ prepared /\ chosen' = chosen /\ calls' \in Nat
  BY DEF IInv, EventReady, Stages
<1>5. /\ r \in Replays /\ r.index = replay.index /\ r.started = replay.started
      /\ r.offset = replay.offset /\ r.offset \in 0 .. Slices /\ r.fenceOf = replay.fenceOf
      /\ r.phase \in {"Replaying", "Paused"}
  BY DEF EventReady, Replays
<1>6. /\ f.outputs \in Seq(Pieces) /\ f.pending \in Seq(Pieces) /\ f.shown \in Seq(Pieces)
      /\ f.shown \o (f.pending \o f.outputs) = shown \o (pending \o worker.outputs)
  BY <1>3, <1>4, FlushKeeps
<1>7. worker.input \in Seq(Commands) /\ pending \in Seq(Pieces) /\ shown \in Seq(Pieces) /\ rows \in Seq(Nat)
      /\ worker.outputs \in Seq(Pieces)
  BY <1>2, <1>4 DEF TypeOK, Workers
<1>8. SliceOK /\ ProfileOK
  BY DEF IInv
<1> HIDE DEF posts
<1>9. posts <=> InputIdle /\ r.offset < Slices
  BY DEF posts
<1>10. c \in Commands /\ IsBytes(c) /\ c.at = Current /\ PieceOf(c) = Piece(Current, r.offset + 1, ProfileBefore(Current))
  BY <1>2, <1>5, CaptureFacts DEF BytesCommand, Commands, IsBytes, PieceOf
<1> HIDE DEF c, i
<1> DEFINE q == IF posts THEN Append(worker.input, c) ELSE worker.input
<1>11. q \in Seq(Commands)
  BY <1>7, <1>10, AppendProperties
<1> HIDE DEF q
<1>12. /\ worker' \in Workers /\ worker'.alive /\ worker'.input = q
       /\ worker'.exec = worker.exec /\ worker'.profile = worker.profile
       /\ worker'.outputs = f.outputs
  BY <1>1, <1>2, <1>3, <1>6, <1>11 DEF Workers, q
<1>13. r.started => r.offset > 0
  BY <1>5, <1>8 DEF SliceOK
<1>14. /\ ~InputIdle => replay' = r
       /\ posts => replay' = [r EXCEPT !.started = TRUE, !.offset = r.offset + 1]
       /\ InputIdle /\ ~posts => replay' = Passed(r) /\ r.offset = Slices /\ r.started
  <2>1. ASSUME InputIdle, ~posts PROVE r.offset = Slices
    <3>1. ~(r.offset < Slices)
      BY <1>9, <2>1
    <3> QED
      BY <1>5, <3>1, CaptureFacts
  <2>2. ~r.started => r.offset = 0
    BY <1>5, <1>8 DEF SliceOK
  <2>3. r.offset = Slices => r.started
    BY <1>5, <2>2, CaptureFacts DEF Replays
  <2> QED
    BY <1>1, <1>9, <2>1, <2>3
<1>15. ASSUME posts PROVE [r EXCEPT !.started = TRUE, !.offset = r.offset + 1] \in Replays
  <2>1. r.offset + 1 \in 0 .. Slices
    BY <1>5, <1>9, <1>15, CaptureFacts
  <2> QED
    BY <1>5, <2>1 DEF Replays
<1>16. /\ Passed(r) \in Replays
       /\ Passed(r).index = r.index + 1 /\ Passed(r).started = FALSE /\ Passed(r).offset = 0
       /\ Passed(r).phase \in {r.phase, "Draining"} /\ (r.playing => Passed(r).phase = r.phase)
       /\ Passed(r).loaded = r.loaded /\ Passed(r).mode = r.mode
       /\ Passed(r).playing = r.playing /\ Passed(r).rebuilding = r.rebuilding
       /\ Passed(r).fence = r.fence /\ Passed(r).fenceOf = r.fenceOf
  BY <1>2, <1>5, PassedType
<1>17. /\ replay' \in Replays /\ replay'.loaded = r.loaded /\ replay'.mode = r.mode
       /\ replay'.playing = r.playing /\ replay'.rebuilding = r.rebuilding
       /\ replay'.phase \in {r.phase, "Draining"} /\ (r.playing => replay'.phase = r.phase)
       /\ replay'.fence = r.fence /\ replay'.fenceOf = r.fenceOf
  <2>1. CASE ~InputIdle
    BY <1>5, <1>14, <2>1
  <2>2. CASE posts
    BY <1>5, <1>14, <1>15, <2>2 DEF Replays
  <2>3. CASE InputIdle /\ ~posts
    BY <1>14, <1>16, <2>3
  <2> QED
    BY <2>1, <2>2, <2>3
<1>18. rows' \in Seq(Nat)
  BY <1>1, <1>2, <1>7, AppendProperties
<1>19. TypeOK'
  BY <1>1, <1>4, <1>6, <1>12, <1>17, <1>18 DEF TypeOK
<1>20. StageOK' /\ NothingRuns' /\ Unprepared' /\ DrawingOK' /\ Lua' /\ Live'
  <2>1. EventFrame(r)
    BY <1>3, <1>12, <1>17 DEF EventFrame
  <2> QED
    BY <1>3, <2>1, EventRest
<1>21. /\ ~InputIdle => replay'.index = replay.index /\ replay'.started = replay.started /\ replay'.offset = replay.offset
       /\ posts => replay'.index = replay.index /\ replay'.started = TRUE /\ replay'.offset = replay.offset + 1
       /\ InputIdle /\ ~posts => replay'.index = replay.index + 1 /\ replay'.started = FALSE /\ replay'.offset = 0
  <2>1. posts => replay'.index = r.index /\ replay'.started = TRUE /\ replay'.offset = r.offset + 1
    BY <1>5, <1>14 DEF Replays
  <2> QED
    BY <1>5, <1>14, <1>16, <2>1
<1>22. SliceOK'
  <2>1. CASE ~InputIdle
    <3>1. Current' = Current /\ AtEnd' = AtEnd
      BY <1>21, <2>1 DEF Current, AtEnd
    <3> QED
      BY <1>3, <1>8, <1>20, <1>21, <2>1, <3>1 DEF SliceOK
  <2>2. CASE posts
    <3>1. Current' = Current /\ AtEnd' = AtEnd /\ ~AtEnd
      BY <1>21, <2>2 DEF Current, AtEnd, EventReady
    <3>2. replay'.offset > 0
      BY <1>5, <1>21, <2>2, CaptureFacts
    <3> QED
      BY <1>3, <1>20, <1>21, <2>2, <3>1, <3>2 DEF SliceOK
  <2>3. CASE InputIdle /\ ~posts
    BY <1>21, <2>3 DEF SliceOK
  <2> QED
    BY <2>1, <2>2, <2>3
<1>23. ProfileOK'
  <2>1. worker.profile = ProfileBefore(Current')
    <3>1. Current' \in {Current, Current + 1}
      BY <1>2, <1>9, <1>21 DEF Current
    <3>2. ProfileBefore(Current + 1) = ProfileBefore(Current)
      BY <1>2, <1>3, ProfileBeforeNext
    <3> QED
      BY <1>3, <3>1, <3>2
  <2>2. \A j \in 1 .. Len(q) : IsBytes(q[j]) /\ ProfileBefore(q[j].at) = worker.profile
    <3>1. \A j \in 1 .. Len(worker.input) :
              IsBytes(worker.input[j]) /\ ProfileBefore(worker.input[j].at) = worker.profile
      BY <1>2, <1>4, <1>8 DEF ProfileOK, EventReady
    <3>2. CASE ~posts
      BY <3>1, <3>2 DEF q
    <3>3. CASE posts
      <4>1. /\ q = Append(worker.input, c) /\ Len(q) = Len(worker.input) + 1
            /\ \A j \in 1 .. Len(worker.input) : q[j] = worker.input[j]
            /\ q[Len(worker.input) + 1] = c /\ Len(worker.input) \in Nat
        BY <1>7, <1>10, <3>3, AppendProperties, LenProperties DEF q
      <4>2. \A j \in 1 .. Len(q) : j \in 1 .. Len(worker.input) \/ j = Len(worker.input) + 1
        BY <4>1
      <4> QED
        BY <1>3, <1>10, <3>1, <4>1, <4>2
    <3> QED
      BY <3>2, <3>3
  <2>3. /\ Len(worker.exec) <= 1
        /\ worker.exec # <<>> => worker.exec[1].op # "load"
        /\ worker.exec # <<>> /\ IsBytes(worker.exec[1]) =>
              ProfileBefore(worker.exec[1].at) = worker.profile
    BY <1>4, <1>8 DEF ProfileOK, EventReady
  <2>4. replay'.fence # "waiting"
    BY <1>2, <1>17
  <2> QED
    BY <1>12, <2>1, <2>2, <2>3, <2>4 DEF ProfileOK
<1>24. rows' = ExpectedRows(IF replay'.started THEN Current' ELSE replay'.index)
  <2>1. HasBytes(Current)
    BY <1>3 DEF HasBytes
  <2>2. CASE ~InputIdle
    BY <1>1, <1>2, <1>21, <2>2 DEF Current
  <2>3. CASE posts
    <3>1. Current' = Current
      BY <1>21, <2>3 DEF Current
    <3>2. CASE replay.started
      BY <1>1, <1>2, <1>5, <1>9, <1>21, <2>3, <3>1, <3>2
    <3>3. CASE ~replay.started
      <4>1. rows' = Append(rows, Current)
        BY <1>1, <1>2, <1>5, <1>9, <2>3, <3>3 DEF i
      <4>2. ExpectedRows(Current) = Append(ExpectedRows(replay.index), Current)
        BY <1>2, <2>1, ExpectedRowsStep
      <4> QED
        BY <1>2, <1>21, <2>3, <3>1, <3>3, <4>1, <4>2
    <3> QED
      BY <3>2, <3>3
  <2>4. CASE InputIdle /\ ~posts
    BY <1>1, <1>2, <1>5, <1>14, <1>21, <2>4
  <2> QED
    BY <2>2, <2>3, <2>4
<1>25. /\ posts => Submitted' = Submitted \o <<PieceOf(c)>>
       /\ ~posts => Submitted' = Submitted
  <2>1. /\ Submitted = SubmittedAt("lua", replay.index, replay.started, replay.offset)
        /\ Submitted' = SubmittedAt("lua", replay'.index, replay'.started, replay'.offset)
    <3>1. replay.mode = "lua" /\ replay'.mode = "lua"
      BY <1>17 DEF EventReady
    <3> QED
      BY <3>1 DEF Submitted, SubmittedAt, Current
  <2>2. CASE ~InputIdle
    BY <1>9, <1>21, <2>1, <2>2
  <2>3. ~replay.started => replay.offset = 0
    BY <1>8 DEF SliceOK
  <2>4. replay.started \in BOOLEAN /\ replay.offset \in 0 .. Slices
    BY <1>2 DEF Replays
  <2>5. Capture[replay.index + 1] = "legacy"
    BY <1>2, <1>3
  <2>6. CASE posts
    <3>1. replay.offset < Slices
      BY <1>5, <1>9, <2>6
    <3>2. SubmittedAt("lua", replay.index, TRUE, replay.offset + 1) =
             SubmittedAt("lua", replay.index, replay.started, replay.offset)
                \o <<Piece(replay.index + 1, replay.offset + 1, ProfileBefore(replay.index + 1))>>
      BY <1>2, <2>3, <2>4, <2>5, <3>1, SliceSubmits
    <3> QED
      BY <1>2, <1>5, <1>10, <1>21, <2>1, <2>6, <3>2
  <2>7. CASE InputIdle /\ ~posts
    <3>1. replay.offset = Slices
      BY <1>5, <1>14, <2>7
    <3>2. SubmittedAt("lua", replay.index + 1, FALSE, 0)
             = SubmittedAt("lua", replay.index, replay.started, replay.offset)
      BY <1>2, <2>3, <2>4, <2>5, <3>1, SliceSubmits
    <3> QED
      BY <1>21, <2>1, <2>7, <3>2
  <2> QED
    BY <1>9, <2>2, <2>6, <2>7
<1>26. DisplayOK'
  <2> DEFINE x == OfExec \o OfInput
             y == OfExec' \o OfInput'
  <2>1. OfExec \in Seq(Pieces) /\ OfInput \in Seq(Pieces)
    BY <1>4, WayType
  <2>2. OfExec' = OfExec
    BY <1>12 DEF OfExec
  <2>3. OfInput = [j \in 1 .. Len(worker.input) |-> PieceOf(worker.input[j])]
    BY <1>2 DEF OfInput
  <2>4. OfInput' = [j \in 1 .. Len(q) |-> PieceOf(q[j])]
    BY <1>2, <1>12, <1>17 DEF OfInput
  <2>5. ASSUME ~posts PROVE y = x
    BY <2>2, <2>3, <2>4, <2>5 DEF q
  <2>6. ASSUME posts PROVE x = <<>> /\ y = <<PieceOf(c)>>
    <3>1. worker.input = <<>> /\ worker.exec = <<>> /\ Len(<<>>) = 0
      BY <1>9, <2>6 DEF InputIdle
    <3>2. OfExec = <<>>
      BY <3>1 DEF OfExec
    <3>3. OfInput = <<>>
      <4>1. [j \in 1 .. 0 |-> PieceOf(worker.input[j])] = <<>>
        OBVIOUS
      <4> QED
        BY <2>3, <3>1, <4>1
    <3>4. q = <<c>>
      BY <2>6, <3>1 DEF q
    <3>5. Len(q) = 1 /\ q[1] = c
      BY <3>4
    <3>6. [j \in 1 .. 1 |-> PieceOf(q[j])] = <<PieceOf(q[1])>>
      OBVIOUS
    <3>7. OfInput' = <<PieceOf(c)>>
      BY <2>4, <3>5, <3>6
    <3>8. PieceOf(c) \in Pieces
      BY <1>10, PieceOfType
    <3>9. <<PieceOf(c)>> \in Seq(Pieces)
      BY <3>8
    <3> QED
      BY <2>2, <3>2, <3>3, <3>7, <3>9, ConcatEmptySeq
  <2>7. x \in Seq(Pieces) /\ y \in Seq(Pieces)
    <3>1. OfInput' \in Seq(Pieces)
      BY <1>11, <2>4, PieceOfType
    <3> QED
      BY <2>1, <2>2, <3>1, Joined
  <2>8. OnTheWay' = f.pending \o (f.outputs \o y) /\ OnTheWay = pending \o (worker.outputs \o x)
    BY <1>1, <1>12 DEF OnTheWay
  <2> HIDE DEF x, y
  <2>9. /\ f.shown \o OnTheWay' = Ahead(shown, pending, worker.outputs) \o y
        /\ Submitted = Ahead(shown, pending, worker.outputs) \o x
    <3>1. Row(f.shown, f.pending, f.outputs, y) = Ahead(f.shown, f.pending, f.outputs) \o y
      <4>1. f.shown \in Seq(Pieces) /\ f.pending \in Seq(Pieces) /\ f.outputs \in Seq(Pieces)
        BY <1>6
      <4>2. y \in Seq(Pieces)
        BY <2>7
      <4> QED
        BY ONLY <4>1, <4>2, BehindThree
    <3>2. Row(shown, pending, worker.outputs, x) = Ahead(shown, pending, worker.outputs) \o x
      <4>1. shown \in Seq(Pieces) /\ pending \in Seq(Pieces) /\ worker.outputs \in Seq(Pieces)
        BY <1>7
      <4>2. x \in Seq(Pieces)
        BY <2>7
      <4> QED
        BY ONLY <4>1, <4>2, BehindThree
    <3>3. Ahead(f.shown, f.pending, f.outputs) = Ahead(shown, pending, worker.outputs)
      BY <1>6 DEF Ahead
    <3> QED
      BY <1>2, <2>8, <3>1, <3>2, <3>3 DEF Row
  <2>10. f.shown \o OnTheWay' = Submitted'
    <3>1. CASE ~posts
      BY <1>25, <2>5, <2>9, <3>1
    <3>2. CASE posts
      <4>1. Ahead(shown, pending, worker.outputs) \in Seq(Pieces)
        <5>1. pending \o worker.outputs \in Seq(Pieces)
          BY <1>7, Joined
        <5> QED
          BY <1>7, <5>1, Joined DEF Ahead
      <4>2. Submitted = Ahead(shown, pending, worker.outputs)
        BY <2>6, <2>9, <3>2, <4>1, ConcatEmptySeq
      <4>3. f.shown \o OnTheWay' = Submitted \o <<PieceOf(c)>>
        BY <2>6, <2>9, <3>2, <4>2, Zenon
      <4> QED
        BY <1>25, <3>2, <4>3, Zenon
    <3> QED
      BY <3>1, <3>2
  <2>11. OnTheWay' \in Seq(Pieces)
    <3>1. f.outputs \o y \in Seq(Pieces)
      BY <1>6, <2>7, Joined
    <3> QED
      BY <1>6, <2>8, <3>1, Joined
  <2> QED
    BY <1>1, <1>24, <2>10, <2>11, ShownNext
<1> QED
  BY <1>19, <1>20, <1>22, <1>23, <1>26 DEF IInv

-----------------------------------------------------------------------------
(* Any other event                                                          *)

\* A worker that has nothing to do, and nothing that waits to be drawn.
LEMMA NothingOnTheWay ==
    ASSUME worker.input = <<>>, worker.exec = <<>>, worker.outputs = <<>>, pending = <<>>
    PROVE  OfExec = <<>> /\ OfInput = <<>> /\ OnTheWay = <<>>
<1>1. OfExec = <<>>
  BY DEF OfExec
<1>2. OfInput = <<>>
  <2>1. [j \in 1 .. 0 |-> PieceOf(worker.input[j])] = <<>> /\ Len(<<>>) = 0
    OBVIOUS
  <2> QED
    BY <2>1 DEF OfInput
<1>3. <<>> \o <<>> = <<>>
  BY EmptySeq, ConcatEmptySeq
<1> QED
  BY <1>1, <1>2, <1>3 DEF OnTheWay

\* The event is drawn at once, handed to the worker as its last command, or shows nothing.
LEMMA WholeKeeps ==
    ASSUME IInv, NEW r, EventReady(r), ~(Capture[r.index + 1] = "legacy" /\ r.mode = "lua"),
           ReplayWhole(r)
    PROVE  IInv'
<1> DEFINE kind == Capture[Current]
           gain == PiecesOf(replay.mode, Current)
<1>1. /\ replay.index \in 0 .. (Total - 1) /\ Current = replay.index + 1 /\ r.index + 1 = Current
      /\ Current \in 1 .. Total /\ Current \in Nat
      /\ replay.loaded /\ replay \in Replays /\ worker \in Workers /\ replay.fence # "waiting"
      /\ r.fence # "waiting" /\ r.fence \in {"none", "ok"}
      /\ shown \o OnTheWay = Submitted
      /\ rows = ExpectedRows(IF replay.started THEN Current ELSE replay.index)
  BY EventFacts
<1>2. /\ (Lua => worker.profile = ProfileBefore(Current)) /\ (Lua => worker.alive)
      /\ (~Lua => worker = NoWorker /\ pending = <<>> /\ replay.fence = "none")
  BY EventFacts
<1>3. TypeOK /\ stage' \in Stages /\ prepared' = prepared /\ prepared /\ chosen' = chosen /\ calls' \in Nat
  BY DEF IInv, EventReady, Stages
<1>4. /\ r \in Replays /\ r.index = replay.index /\ r.mode = replay.mode
      /\ r.index \in 0 .. (Total - 1) /\ (Lua <=> r.mode = "lua")
  BY <1>1 DEF EventReady, Lua
<1>5. kind \in EventKinds /\ ~(Lua /\ kind = "legacy")
  BY <1>1, <1>4, CaptureFacts
<1>6. ~replay.started
  BY <1>5 DEF IInv, SliceOK
<1>7. /\ pending' = pending
      /\ rows' = IF HasBytes(Current) THEN Append(rows, Current) ELSE rows
      /\ shown' = IF kind = "setup" THEN Append(shown, Piece(Current, 0, 0)) ELSE shown
      /\ Lua /\ kind = "rx" => worker' = Posted(worker, BytesCommand(Current, 1))
      /\ Lua /\ kind = "profile" => worker' = Posted(worker, ProfileCommand(Current))
      /\ ~(Lua /\ kind \in {"rx", "profile"}) => worker' = worker
      /\ replay' = IF Lua /\ kind = "profile"
                   THEN [Passed(r) EXCEPT !.fence = "waiting", !.fenceOf = Current]
                   ELSE Passed(r)
  BY <1>1, <1>4 DEF ReplayWhole
<1>8. /\ Passed(r) \in Replays
      /\ Passed(r).index = r.index + 1 /\ Passed(r).started = FALSE /\ Passed(r).offset = 0
      /\ Passed(r).phase \in {r.phase, "Draining"} /\ (r.playing => Passed(r).phase = r.phase)
      /\ Passed(r).loaded = r.loaded /\ Passed(r).mode = r.mode
      /\ Passed(r).playing = r.playing /\ Passed(r).rebuilding = r.rebuilding
      /\ Passed(r).fence = r.fence /\ Passed(r).fenceOf = r.fenceOf
  BY <1>4, PassedType
<1>9. /\ replay' \in Replays /\ replay'.index = Current /\ replay'.started = FALSE /\ replay'.offset = 0
      /\ replay'.phase \in {r.phase, "Draining"} /\ (r.playing => replay'.phase = r.phase)
      /\ replay'.loaded = r.loaded /\ replay'.mode = r.mode
      /\ replay'.playing = r.playing /\ replay'.rebuilding = r.rebuilding
      /\ Lua /\ kind = "profile" => replay'.fence = "waiting" /\ replay'.fenceOf = Current
      /\ ~(Lua /\ kind = "profile") => replay'.fence = r.fence
  BY <1>1, <1>7, <1>8 DEF Replays, Answers
<1>10. BytesCommand(Current, 1) \in Commands /\ ProfileCommand(Current) \in Commands
  BY <1>1 DEF BytesCommand, ProfileCommand, Commands
<1>11. worker.input \in Seq(Commands) /\ shown \in Seq(Pieces) /\ pending \in Seq(Pieces) /\ rows \in Seq(Nat)
  BY <1>1, <1>3 DEF TypeOK, Workers
<1>12. gain \in Seq(Pieces) /\ Submitted' = Submitted \o gain /\ Submitted \in Seq(Pieces)
  <2>1. /\ SubmittedAt(replay.mode, replay.index, FALSE, replay.offset) \in Seq(Pieces)
        /\ PiecesOf(replay.mode, replay.index + 1) \in Seq(Pieces)
        /\ SubmittedAt(replay.mode, replay.index + 1, FALSE, 0) =
              SubmittedAt(replay.mode, replay.index, FALSE, replay.offset)
                 \o PiecesOf(replay.mode, replay.index + 1)
    BY <1>1, PassedSubmits
  <2>2. Submitted = SubmittedAt(replay.mode, replay.index, FALSE, replay.offset)
    BY <1>1, <1>6 DEF Submitted, SubmittedAt
  <2>3. Submitted' = SubmittedAt(replay.mode, replay.index + 1, FALSE, 0)
    BY <1>1, <1>4, <1>9 DEF Submitted, SubmittedAt
  <2> QED
    BY <1>1, <2>1, <2>2, <2>3
<1>13. rows' = ExpectedRows(replay'.index) /\ rows' \in Seq(Nat)
  <2>1. rows = ExpectedRows(replay.index)
    BY <1>1, <1>6
  <2>2. ExpectedRows(Current) = IF HasBytes(Current) THEN Append(ExpectedRows(replay.index), Current)
                                ELSE ExpectedRows(replay.index)
    BY <1>1, ExpectedRowsStep
  <2>3. rows' \in Seq(Nat)
    BY <1>1, <1>7, <1>11, AppendProperties
  <2> QED
    BY <1>7, <1>9, <2>1, <2>2, <2>3
<1>14. shown' \in Seq(Pieces) /\ pending' \in Seq(Pieces)
  <2>1. Piece(Current, 0, 0) \in Pieces
    BY <1>1 DEF Piece, Pieces, Profiles
  <2> QED
    BY <1>7, <1>11, <2>1, AppendProperties
<1>15. /\ worker' \in Workers /\ worker'.alive = worker.alive /\ worker'.exec = worker.exec
       /\ worker'.profile = worker.profile /\ worker'.outputs = worker.outputs
  <2>1. \A c \in Commands : /\ Posted(worker, c) \in Workers /\ Posted(worker, c).alive = worker.alive
                            /\ Posted(worker, c).exec = worker.exec
                            /\ Posted(worker, c).profile = worker.profile
                            /\ Posted(worker, c).outputs = worker.outputs
    <3> SUFFICES ASSUME NEW c \in Commands
                 PROVE  /\ Posted(worker, c) \in Workers /\ Posted(worker, c).alive = worker.alive
                        /\ Posted(worker, c).exec = worker.exec
                        /\ Posted(worker, c).profile = worker.profile
                        /\ Posted(worker, c).outputs = worker.outputs
      OBVIOUS
    <3>1. Append(worker.input, c) \in Seq(Commands)
      BY <1>11, AppendProperties
    <3> QED
      BY <1>1, <3>1 DEF Posted, Workers
  <2> QED
    BY <1>1, <1>7, <1>10, <2>1
<1>16. TypeOK'
  BY <1>3, <1>9, <1>13, <1>14, <1>15 DEF TypeOK
<1>17. StageOK' /\ NothingRuns' /\ Unprepared' /\ DrawingOK' /\ Lua' = Lua /\ Live'
  <2>1. EventFrame(r)
    BY <1>7, <1>9, <1>15 DEF EventFrame
  <2> QED
    BY <2>1, EventRest
<1>18. SliceOK'
  BY <1>9 DEF SliceOK
<1>19. /\ Current' = Current + 1
       /\ ProfileBefore(Current + 1) = IF kind = "profile" THEN Current ELSE ProfileBefore(Current)
  BY <1>1, <1>9, ProfileBeforeNext DEF Current
<1>20. /\ Len(worker.exec) <= 1
       /\ worker.exec # <<>> => worker.exec[1].op # "load"
       /\ worker.exec # <<>> /\ IsBytes(worker.exec[1]) =>
             ProfileBefore(worker.exec[1].at) = worker.profile
       /\ \A j \in 1 .. Len(worker.input) :
             IsBytes(worker.input[j]) /\ ProfileBefore(worker.input[j].at) = worker.profile
  BY <1>1, <1>3 DEF IInv, ProfileOK, EventReady
\* What does not go through the worker.
<1>21. CASE kind \in {"setup", "tx"} \/ ~Lua
  <2>1. worker' = worker /\ replay'.fence = r.fence
    BY <1>7, <1>9, <1>21
  <2>2. ProfileOK'
    <3>1. Lua => ProfileBefore(Current + 1) = ProfileBefore(Current)
      BY <1>19, <1>21
    <3>2. replay'.fence # "waiting"
      BY <1>1, <2>1
    <3> QED
      BY <1>2, <1>17, <1>19, <1>20, <2>1, <3>1, <3>2 DEF ProfileOK
  <2>3. OnTheWay' = OnTheWay
    BY <1>1, <1>7, <2>1 DEF OnTheWay, OfExec, OfInput
  <2>4. OnTheWay \in Seq(Pieces)
    BY <1>3, WayType
  <2>5. shown' \o OnTheWay = Submitted'
    <3>1. CASE kind = "setup"
      <4>1. worker.input = <<>> /\ worker.exec = <<>> /\ worker.outputs = <<>> /\ pending = <<>>
        <5>1. CASE Lua
          <6>1. IsControl(Current)
            BY <3>1 DEF IsControl
          <6> QED
            BY <5>1, <6>1 DEF EventReady, Idle, InputIdle
        <5>2. CASE ~Lua
          BY <1>2, <5>2 DEF NoWorker
        <5> QED
          BY <5>1, <5>2
      <4>2. OnTheWay = <<>>
        BY <4>1, NothingOnTheWay
      <4>3. shown = Submitted
        BY <1>1, <1>11, <4>2, ConcatEmptySeq
      <4>4. gain = <<Piece(Current, 0, 0)>>
        BY <3>1 DEF PiecesOf
      <4>5. Piece(Current, 0, 0) \in Pieces
        BY <1>1 DEF Piece, Pieces, Profiles
      <4>6. Append(shown, Piece(Current, 0, 0)) = shown \o <<Piece(Current, 0, 0)>>
        BY <1>11, <4>5, AppendIsConcat
      <4>7. shown' = Submitted'
        BY <1>7, <1>12, <3>1, <4>3, <4>4, <4>6
      <4> QED
        BY <1>14, <4>2, <4>7, ConcatEmptySeq
    <3>2. CASE kind # "setup"
      <4>1. gain = <<>>
        <5>1. Lua <=> replay.mode = "lua"
          BY DEF Lua
        <5> QED
          BY <1>5, <1>21, <3>2, <5>1 DEF PiecesOf
      <4>2. Submitted' = Submitted
        BY <1>12, <4>1, ConcatEmptySeq
      <4> QED
        BY <1>1, <1>7, <3>2, <4>2
    <3> QED
      BY <3>1, <3>2
  <2>6. DisplayOK'
    BY <1>9, <1>13, <2>3, <2>4, <2>5, ShownNext
  <2> QED
    BY <1>16, <1>17, <1>18, <2>2, <2>6 DEF IInv
\* Bytes of the device go to the script.
<1>22. CASE Lua /\ kind = "rx"
  <2> DEFINE c == BytesCommand(Current, 1)
             q == Append(worker.input, c)
             x == <<PieceOf(c)>>
  <2>1. worker'.input = q /\ replay'.fence = r.fence /\ shown' = shown
    BY <1>1, <1>7, <1>9, <1>22 DEF Posted, Workers
  <2>2. /\ Len(q) = Len(worker.input) + 1 /\ q \in Seq(Commands)
        /\ \A j \in 1 .. Len(worker.input) : q[j] = worker.input[j]
        /\ q[Len(worker.input) + 1] = c /\ Len(worker.input) \in Nat
    BY <1>10, <1>11, AppendProperties, LenProperties
  <2>3. IsBytes(c) /\ c.at = Current /\ PieceOf(c) = Piece(Current, 1, ProfileBefore(Current))
    BY DEF BytesCommand, IsBytes, PieceOf
  <2>4. PieceOf(c) \in Pieces
    BY <1>10, PieceOfType
  <2> HIDE DEF c, q
  <2>5. \A j \in 1 .. Len(q) : IsBytes(q[j]) /\ ProfileBefore(q[j].at) = worker.profile
    <3>1. \A j \in 1 .. Len(q) : j \in 1 .. Len(worker.input) \/ j = Len(worker.input) + 1
      BY <2>2
    <3> QED
      BY <1>2, <1>20, <1>22, <2>2, <2>3, <3>1
  <2>6. ProfileOK'
    <3>1. ProfileBefore(Current + 1) = ProfileBefore(Current)
      BY <1>19, <1>22
    <3>2. replay'.fence # "waiting"
      BY <1>1, <2>1
    <3> QED
      BY <1>2, <1>15, <1>19, <1>20, <1>22, <2>1, <2>5, <3>1, <3>2 DEF ProfileOK
  <2>7. x \in Seq(Pieces)
    BY <2>4
  <2>8. OfInput' = OfInput \o x
    <3> DEFINE a == [j \in 1 .. Len(worker.input) |-> PieceOf(worker.input[j])]
               b == [j \in 1 .. Len(q) |-> PieceOf(q[j])]
    <3>1. OfInput = a /\ OfInput' = b
      BY <1>1, <2>1 DEF OfInput
    <3>2. a \in Seq(Pieces) /\ b \in Seq(Pieces)
      BY <1>11, <2>2, PieceOfType
    <3>3. /\ DOMAIN a = 1 .. Len(worker.input) /\ DOMAIN b = 1 .. Len(q)
          /\ \A j \in 1 .. Len(worker.input) : a[j] = PieceOf(worker.input[j])
          /\ \A j \in 1 .. Len(q) : b[j] = PieceOf(q[j])
      OBVIOUS
    <3>4. Len(x) = 1 /\ x[1] = PieceOf(c)
      OBVIOUS
    <3> HIDE DEF a, b, x
    <3>5. Len(a) = Len(worker.input) /\ Len(b) = Len(worker.input) + 1
      <4>1. DOMAIN a = 1 .. Len(a) /\ DOMAIN b = 1 .. Len(b) /\ Len(a) \in Nat /\ Len(b) \in Nat
        BY <3>2, LenProperties
      <4> QED
        BY <2>2, <3>3, <4>1
    <3>6. /\ a \o x \in Seq(Pieces) /\ Len(a \o x) = Len(a) + Len(x)
          /\ \A j \in 1 .. Len(a) + Len(x) : (a \o x)[j] = IF j <= Len(a) THEN a[j] ELSE x[j - Len(a)]
      BY <2>7, <3>2, ConcatProperties
    <3>7. ASSUME NEW j \in 1 .. Len(b) PROVE (a \o x)[j] = b[j]
      <4>1. CASE j \in 1 .. Len(worker.input)
        <5>1. (a \o x)[j] = a[j]
          BY <2>2, <3>4, <3>5, <3>6, <4>1
        <5>2. a[j] = b[j]
          BY <2>2, <3>3, <3>5, <4>1
        <5> QED
          BY <5>1, <5>2
      <4>2. CASE j = Len(worker.input) + 1
        <5>1. ~(j <= Len(a)) /\ j - Len(a) = 1 /\ j \in 1 .. Len(a) + Len(x) /\ j \in 1 .. Len(q)
          BY <2>2, <3>4, <3>5, <4>2
        <5>2. (a \o x)[j] = x[1]
          BY <3>6, <5>1
        <5>3. b[j] = PieceOf(q[j]) /\ q[j] = c
          BY <2>2, <3>3, <4>2, <5>1
        <5> QED
          BY <3>4, <5>2, <5>3
      <4>3. j \in 1 .. Len(worker.input) \/ j = Len(worker.input) + 1
        BY <2>2, <3>5
      <4> QED
        BY <4>1, <4>2, <4>3
    <3>8. Len(a \o x) = Len(b)
      BY <3>4, <3>5, <3>6
    <3>9. a \o x = b
      BY <3>2, <3>6, <3>7, <3>8, SeqEqual
    <3> QED
      BY <3>1, <3>9
  <2>9. /\ OfExec \in Seq(Pieces) /\ OfInput \in Seq(Pieces) /\ worker.outputs \in Seq(Pieces)
    BY <1>3, WayType
  <2>10. gain = x
    BY <1>22, <2>3 DEF Lua, PiecesOf
  <2> HIDE DEF x
  <2>11. OnTheWay' = pending \o (worker.outputs \o (OfExec \o (OfInput \o x)))
    <3>1. OfExec' = OfExec
      BY <1>15 DEF OfExec
    <3> QED
      BY <1>7, <1>15, <2>8, <3>1 DEF OnTheWay
  <2>12. OnTheWay' \in Seq(Pieces)
    <3>1. OfInput \o x \in Seq(Pieces)
      BY <2>7, <2>9, Joined
    <3>2. OfExec \o (OfInput \o x) \in Seq(Pieces)
      BY <2>9, <3>1, Joined
    <3>3. worker.outputs \o (OfExec \o (OfInput \o x)) \in Seq(Pieces)
      BY <2>9, <3>2, Joined
    <3> QED
      BY <1>11, <2>11, <3>3, Joined
  <2>13. shown' \o OnTheWay' = Submitted'
    <3>1. shown \o (pending \o (worker.outputs \o (OfExec \o (OfInput \o x))))
             = (shown \o (pending \o (worker.outputs \o (OfExec \o OfInput)))) \o x
      <4> DEFINE h == Ahead(shown, pending, worker.outputs)
                 y == OfExec \o OfInput
                 z == OfExec \o (OfInput \o x)
      <4>1. /\ shown \in Seq(Pieces) /\ pending \in Seq(Pieces) /\ worker.outputs \in Seq(Pieces)
        BY <1>11, <2>9
      <4>2. h \in Seq(Pieces)
        <5>1. pending \o worker.outputs \in Seq(Pieces)
          BY <1>11, <2>9, Joined
        <5> QED
          BY <1>11, <2>9, <5>1, Joined DEF Ahead
      <4>3. y \in Seq(Pieces) /\ z \in Seq(Pieces)
        <5>1. OfInput \o x \in Seq(Pieces)
          BY <2>7, <2>9, Joined
        <5> QED
          BY <2>9, <5>1, Joined
      <4>4. y \o x = z
        BY ONLY <2>7, <2>9, Assoc
      <4> HIDE DEF h, y, z
      <4>5. Row(shown, pending, worker.outputs, y) = h \o y
        <5>1. Row(shown, pending, worker.outputs, y) = Ahead(shown, pending, worker.outputs) \o y
          <6>1. y \in Seq(Pieces)
            BY <4>3
          <6> QED
            BY ONLY <4>1, <6>1, BehindThree
        <5> QED
          BY <5>1 DEF h
      <4>6. Row(shown, pending, worker.outputs, z) = h \o z
        <5>1. Row(shown, pending, worker.outputs, z) = Ahead(shown, pending, worker.outputs) \o z
          <6>1. z \in Seq(Pieces)
            BY <4>3
          <6> QED
            BY ONLY <4>1, <6>1, BehindThree
        <5> QED
          BY <5>1 DEF h
      <4>7. (h \o y) \o x = h \o (y \o x)
        BY ONLY <2>7, <4>3, <4>2, Assoc
      <4> QED
        BY <4>4, <4>5, <4>6, <4>7, Zenon DEF Row, y, z
    <3>2. shown \o OnTheWay = shown \o (pending \o (worker.outputs \o (OfExec \o OfInput)))
      BY DEF OnTheWay
    <3> QED
      BY <1>1, <1>12, <2>1, <2>10, <2>11, <3>1, <3>2
  <2>14. DisplayOK'
    BY <1>9, <1>13, <2>12, <2>13, ShownNext
  <2> QED
    BY <1>16, <1>17, <1>18, <2>6, <2>14 DEF IInv
\* A change of profile, which finds the worker idle.
<1>23. CASE Lua /\ kind = "profile"
  <2>1. worker.input = <<>> /\ worker.exec = <<>> /\ worker.outputs = <<>> /\ pending = <<>>
    <3>1. IsControl(Current)
      BY <1>23 DEF IsControl
    <3> QED
      BY <1>23, <3>1 DEF EventReady, Idle, InputIdle
  <2>2. /\ worker'.input = <<ProfileCommand(Current)>> /\ worker'.exec = <<>>
        /\ worker'.outputs = <<>> /\ pending' = <<>> /\ shown' = shown
        /\ replay'.fence = "waiting" /\ replay'.fenceOf = Current
    <3>1. worker'.input = Append(worker.input, ProfileCommand(Current))
      BY <1>1, <1>7, <1>23 DEF Posted, Workers
    <3> QED
      BY <1>7, <1>9, <1>15, <1>23, <2>1, <3>1
  <2>3. ProfileOK'
    <3>1. Len(<<>>) = 0 /\ ~FenceOpen'
      BY <2>2 DEF FenceOpen
    <3>2. /\ Len(worker'.input) = 1 /\ worker'.input[1] = ProfileCommand(Current)
          /\ ~IsBytes(ProfileCommand(Current))
      BY <2>2 DEF IsBytes, ProfileCommand
    <3>3. \A j \in 1 .. Len(worker'.input) : ~IsBytes(worker'.input[j])
      BY <3>2
    <3> QED
      BY <1>1, <1>9, <1>23, <2>2, <3>1, <3>3 DEF ProfileOK
  <2>4. OnTheWay = <<>>
    BY <2>1, NothingOnTheWay
  <2>5. OnTheWay' = <<>>
    <3>1. OfExec' = <<>> /\ OfInput' = <<>>
      BY <2>2 DEF OfExec, OfInput
    <3>2. <<>> \o <<>> = <<>>
      BY EmptySeq, ConcatEmptySeq
    <3> QED
      BY <2>2, <3>1, <3>2 DEF OnTheWay
  <2>6. gain = <<>>
    BY <1>23 DEF PiecesOf
  <2>7. shown' \o <<>> = Submitted'
    BY <1>1, <1>12, <2>2, <2>4, <2>6, ConcatEmptySeq
  <2>8. DisplayOK'
    BY <1>9, <1>13, <2>5, <2>7, EmptySeq, ShownNext
  <2> QED
    BY <1>16, <1>17, <1>18, <2>3, <2>8 DEF IInv
<1> QED
  BY <1>5, <1>21, <1>22, <1>23 DEF EventKinds

\* An event is replayed by a round (Submit) or by a step of the user (Step).
LEMMA EventKeeps ==
    ASSUME IInv, NEW r, EventReady(r), ReplayEvent(r)
    PROVE  IInv'
  BY SliceKeeps, WholeKeeps DEF ReplayEvent

LEMMA SubmitKeeps == IInv /\ Submit => IInv'
<1> SUFFICES ASSUME IInv, Submit PROVE IInv'
  OBVIOUS
<1> DEFINE r == [replay EXCEPT !.fence = "none"]
<1>1. /\ stage = "looping" /\ ~AtEnd /\ FenceOpen /\ ReplayEvent(r)
      /\ (Lua => worker.alive) /\ (Lua /\ IsControl(Current) => Idle /\ pending = <<>>)
      /\ UNCHANGED <<stage, prepared, chosen, calls>>
  BY DEF Submit, ControlMayPass
<1>2. replay.loaded /\ replay.phase = "Replaying" /\ replay.playing /\ replay \in Replays /\ calls \in Nat
  BY <1>1 DEF IInv, StageOK, TypeOK
<1>3. Live
  BY <1>1, <1>2 DEF Live
<1>4. prepared
  BY <1>1, <1>2 DEF IInv, Unprepared
<1>5. /\ r \in Replays /\ r.loaded = replay.loaded /\ r.mode = replay.mode
      /\ r.index = replay.index /\ r.started = replay.started /\ r.offset = replay.offset
      /\ r.fenceOf = replay.fenceOf /\ r.rebuilding = replay.rebuilding
      /\ r.fence = "none" /\ r.phase = "Replaying" /\ r.playing
  BY <1>2 DEF Replays, Answers
<1> HIDE DEF r
<1>6. EventReady(r)
  BY <1>1, <1>2, <1>3, <1>4, <1>5 DEF EventReady
<1> QED
  BY <1>1, <1>6, EventKeeps

\* The careful user steps only over an event that a round could replay.
LEMMA StepKeeps == ASSUME Careful, IInv, Step PROVE IInv'
<1> DEFINE r == [replay EXCEPT !.playing = FALSE, !.phase = "Paused"]
<1>1. /\ replay.loaded /\ ~AtEnd /\ ReplayEvent(r) /\ stage' = "free" /\ calls' \in Nat
      /\ replay.phase # "Preparing" /\ (Lua => worker.alive) /\ replay.phase # "Failed"
      /\ FenceOpen /\ (Lua /\ IsControl(Current) => Idle /\ pending = <<>>)
      /\ UNCHANGED <<prepared, chosen>>
  BY CallKeeps DEF Step, ControlMayPass, Resumable, Careful
<1>2. replay \in Replays
  BY DEF IInv, TypeOK
<1>3. Live
  BY <1>1 DEF Live
<1>4. prepared
  BY <1>1 DEF IInv, Unprepared
<1>5. replay.phase # "Completed"
  BY <1>1, <1>3, <1>4 DEF IInv, DrawingOK
<1>6. /\ r \in Replays /\ r.loaded = replay.loaded /\ r.mode = replay.mode
      /\ r.index = replay.index /\ r.started = replay.started /\ r.offset = replay.offset
      /\ r.fenceOf = replay.fenceOf /\ r.rebuilding = replay.rebuilding
      /\ r.fence = replay.fence /\ r.phase = "Paused"
  BY <1>2 DEF Replays, Phases
<1> HIDE DEF r
<1>7. EventReady(r)
  BY <1>1, <1>3, <1>4, <1>5, <1>6 DEF EventReady
<1> QED
  BY <1>1, <1>7, EventKeeps

-----------------------------------------------------------------------------
(* The theorems                                                             *)

LEMMA InitHolds == Init => IInv
<1> SUFFICES ASSUME Init PROVE IInv
  OBVIOUS
<1>1. /\ replay = Fresh /\ worker = NoWorker /\ pending = <<>> /\ shown = <<>> /\ rows = <<>>
      /\ stage = "free" /\ prepared = FALSE /\ chosen = "timeline" /\ calls = 0
  BY DEF Init
<1>2. TypeOK
  BY <1>1, FreshType, EmptySeq DEF TypeOK, Stages, Pacings
<1>3. /\ ~replay.loaded /\ replay.mode = "browse" /\ ~replay.started /\ replay.offset = 0
      /\ replay.fence = "none" /\ replay.phase = "Paused"
  BY <1>1 DEF Fresh
<1>4. ~Lua /\ ~Live /\ ~prepared
  BY <1>1, <1>3 DEF Lua, Live
<1>5. StageOK /\ SliceOK /\ NothingRuns /\ Unprepared
  BY <1>1, <1>3, <1>4 DEF StageOK, SliceOK, NothingRuns, Unprepared
<1>6. ProfileOK /\ DisplayOK /\ DrawingOK
  BY <1>4 DEF ProfileOK, DisplayOK, DrawingOK
<1> QED
  BY <1>2, <1>5, <1>6 DEF IInv

LEMMA UserKeeps == ASSUME Careful, IInv, User PROVE IInv'
<1>1. ASSUME NEW mode \in {"browse", "lua"}, NEW pacing \in {"timeline", "fast"}, NEW ok \in Outcomes,
             Load(mode, pacing, ok)
      PROVE  IInv'
  <2>1. pacing \in Pacings /\ ok \in BOOLEAN
    BY OutcomesAre DEF Pacings
  <2> QED
    BY <1>1, <2>1, LoadKeeps
<1>2. ASSUME NEW target \in 0 .. Total, NEW ok \in Outcomes, Seek(target, ok) PROVE IInv'
  <2>1. target \in Nat /\ ok \in BOOLEAN
    BY OutcomesAre, CaptureFacts
  <2> QED
    BY <1>2, <2>1, SeekKeeps
<1>3. ASSUME NEW ok \in Outcomes, Play(ok) PROVE IInv'
  <2>1. ok \in BOOLEAN
    BY OutcomesAre
  <2> QED
    BY <1>3, <2>1, PlayKeeps
<1> QED
  BY <1>1, <1>2, <1>3, UnloadKeeps, CancelTransferKeeps, PauseKeeps, StepKeeps DEF User

\* Every step keeps the invariant.
LEMMA NextKeeps == ASSUME Careful, IInv, [Next]_vars PROVE IInv'
<1>1. CASE Take
  BY <1>1, TakeKeeps
<1>2. CASE Publish
  BY <1>2, PublishKeeps
<1>3. CASE Round
  BY <1>3, PumpKeeps, EndPreparationKeeps, FlushOutputsKeeps, MarkDoneKeeps, BeginLoopKeeps,
     SubmitKeeps, FenceFailsKeeps, EndSeekKeeps, LeaveLoopKeeps, ReachEndKeeps, DrainKeeps,
     EndDrainKeeps DEF Round
<1>4. CASE User
  BY <1>4, UserKeeps
<1>5. CASE UNCHANGED vars
  <2>1. /\ TypeOK' /\ StageOK' /\ SliceOK' /\ NothingRuns' /\ Unprepared'
    BY <1>5 DEF vars, IInv, TypeOK, StageOK, SliceOK, NothingRuns, Unprepared, Lua, Live,
                Current, AtEnd
  <2>2. ControlStep
    BY <1>5 DEF vars, ControlStep
  <2>3. ProfileOK' /\ DisplayOK' /\ Live' = Live /\ Lua' = Lua
    BY <2>2, ControlKeeps
  <2>4. DrawingOK'
    BY <1>5, <2>3 DEF vars, IInv, DrawingOK, AtEnd, Idle, InputIdle
  <2> QED
    BY <2>1, <2>3, <2>4 DEF IInv
<1> QED
  BY <1>1, <1>2, <1>3, <1>4, <1>5 DEF Next

\* However the rounds of the application and the turns of the worker fall, the control of the
\* timeline, the profile the worker parses under, and what is drawn and on its way fit together.
THEOREM ReplayInvariant == ASSUME Careful PROVE Spec => []IInv
<1>1. Init => IInv
  BY InitHolds
<1>2. IInv /\ [Next]_vars => IInv'
  BY NextKeeps
<1> QED
  BY <1>1, <1>2, PTL DEF Spec

\* A sequence is a prefix of itself with another behind it.
LEMMA PrefixOf ==
    ASSUME NEW a \in Seq(Pieces), NEW b \in Seq(Pieces)
    PROVE  IsPrefix(a, a \o b)
  BY ConcatProperties, LenProperties DEF IsPrefix

\* What is drawn is the beginning of what is submitted, and that of what the capture shows.
LEMMA InvariantIsFaithful == IInv => Faithful
<1> SUFFICES ASSUME IInv PROVE Faithful
  OBVIOUS
<1>1. replay.loaded /\ replay.index > 0 => prepared
  BY DEF IInv, Unprepared, TypeOK, Replays
<1>2. ASSUME prepared PROVE IsPrefix(shown, Expected(replay.mode, Total))
  <2>1. PICK rest : rest \in Seq(Pieces) /\ shown \o rest = Submitted
    BY <1>2 DEF IInv, DisplayOK
  <2>2. /\ replay.index \in 0 .. Total /\ replay.started \in BOOLEAN /\ replay.offset \in 0 .. Slices
        /\ shown \in Seq(Pieces)
    BY DEF IInv, TypeOK, Replays
  <2>3. replay.started => replay.mode = "lua" /\ replay.index < Total /\ Capture[replay.index + 1] = "legacy"
    BY <2>2, CaptureFacts DEF IInv, SliceOK, Lua, AtEnd, Current
  <2>4. PICK more : /\ more \in Seq(Pieces)
                    /\ SubmittedAt(replay.mode, replay.index, replay.started, replay.offset) \o more
                          = Expected(replay.mode, Total)
    BY <2>2, <2>3, SubmittedAtType
  <2>5. (shown \o rest) \o more = shown \o (rest \o more)
    BY ONLY <2>1, <2>2, <2>4, Assoc
  <2>6. rest \o more \in Seq(Pieces)
    BY <2>1, <2>4, Joined
  <2>7. Expected(replay.mode, Total) = shown \o (rest \o more)
    BY <2>1, <2>4, <2>5, SubmittedIs
  <2> QED
    BY <2>2, <2>6, <2>7, PrefixOf
<1>3. prepared => rows = ExpectedRows(IF replay.started THEN Current ELSE replay.index)
  BY DEF IInv, DisplayOK
<1> QED
  BY <1>1, <1>2, <1>3 DEF Faithful

\* Whatever the capture and however its bytes are cut: what is drawn was made of the events in
\* their order, under the profiles they were recorded with (pumpRawCaptureReplay).
THEOREM ReplayIsFaithful == ASSUME Careful PROVE Spec => []Faithful
  BY ReplayInvariant, InvariantIsFaithful, PTL

\* While a drain is looked at, only its own end changes the phase, and finds nothing on its way.
LEMMA DrainEnds ==
    ASSUME Risky = {}, IInv, Next, stage = "drained", replay'.phase # "Draining"
    PROVE  shown' = Submitted
<1>1. replay.loaded /\ replay.phase = "Draining" /\ replay \in Replays /\ TypeOK
  BY DEF IInv, StageOK, TypeOK
<1>2. ~Take /\ ~Publish
  <2>1. Take => replay'.phase = replay.phase
    BY <1>1 DEF Take, Replays
  <2>2. Publish => replay'.phase = replay.phase
    BY DEF Publish
  <2> QED
    BY <1>1, <2>1, <2>2
<1>3. ~User
  BY DEF User, Load, Seek, Play, Unload, CancelTransfer, Pause, Step, Call
<1>4. EndDrain
  BY <1>2, <1>3 DEF Next, Round, Pump, EndPreparation, FlushOutputs, MarkDone, BeginLoop, Submit,
                    FenceFails, EndSeek, LeaveLoop, ReachEnd, Drain
<1>5. Drained /\ shown' = shown
  BY <1>1, <1>4 DEF EndDrain
<1>6. Live
  BY <1>1 DEF IInv, NothingRuns
<1>7. prepared
  BY <1>1, <1>6 DEF IInv, Unprepared, Live
<1>8. worker.input = <<>> /\ worker.exec = <<>> /\ worker.outputs = <<>> /\ pending = <<>>
  <2>1. CASE Lua
    BY <1>5, <2>1 DEF Drained, Idle, InputIdle
  <2>2. CASE ~Lua
    BY <2>2 DEF IInv, NothingRuns, NoWorker
  <2> QED
    BY <2>1, <2>2
<1>9. shown \o <<>> = Submitted
  BY <1>6, <1>7, <1>8, NothingOnTheWay DEF IInv, DisplayOK
<1>10. shown \in Seq(Pieces)
  BY <1>1 DEF TypeOK
<1> QED
  BY <1>5, <1>9, <1>10, ConcatEmptySeq

\* When a drain ends, after a seek or at the end of the capture, nothing that was submitted waits
\* in the worker, in its outputs or in front of the plot (finishRawCaptureReplayDrain).
THEOREM DrainShowsAll == ASSUME Risky = {} PROVE Spec => DrainedMeansShown
<1>1. Careful
  BY DEF Careful
<1>2. Spec => []IInv
  BY <1>1, ReplayInvariant
<1>3. IInv /\ [Next]_vars =>
         [stage = "drained" /\ replay'.phase # "Draining" => shown' = Submitted]_vars
  BY DrainEnds
<1> QED
  BY <1>2, <1>3, PTL DEF Spec, DrainedMeansShown

=============================================================================
