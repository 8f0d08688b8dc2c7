---------------------------- MODULE FrameParser ----------------------------
(* The frame stream parser: bytes of a device go into a ring, headers are   *)
(* searched for, frames of a fixed, a declared or a run-time length are cut *)
(* out, checked and taken apart, and what fits no frame is reported and     *)
(* skipped.  Source: src/scripting/frame_stream_parser.cc.                  *)
(*                                                                          *)
(* A byte is a digit of a small base; the CRC is a single byte, the sum of  *)
(* the bytes before it.                                                     *)
EXTENDS Integers, Sequences, FiniteSets, TLC, SequencesExt, Functions

CONSTANTS
    None,
    Base,        \* bytes are 0..Base-1
    IntBits,     \* width of the signed integers of the counts
    Schemas,     \* the schemas that a script may declare
    Lengths,     \* the lengths a script tries to set at run time
    MaxInput,    \* bytes received in a run, for TLC
    MaxChunk     \* bytes of one push, for TLC

Byte == 0 .. Base - 1

\* What the loader of a script lets through (stream_schema_module.cc).
FieldOk(d) ==
    /\ d.width \in Nat \ {0} /\ d.offset \in Nat \cup {None}
    /\ d.count.op = "fixed" => d.count.value \in Nat

FrameOk(f) ==
    /\ f.header \in Seq(Byte) \ {<<>>} /\ f.crc \in {0, 1}
    /\ Len(f.fields) \in Nat /\ \A k \in 1 .. Len(f.fields) : FieldOk(f.fields[k])
    /\ f.length \in {"size", "len", "profile"}
    /\ f.length = "size" => f.size \in Nat \ {0}
    /\ f.length = "len" => f.offset \in Nat /\ f.width \in Nat \ {0}

SchemaOk(s) ==
    /\ s.capacity \in Nat \ {0} /\ s.maxCapacity \in Nat /\ s.maxCapacity >= s.capacity
    /\ s.dropOldest \in BOOLEAN
    /\ Len(s.frames) \in Nat \ {0}
    /\ \A i \in 1 .. Len(s.frames) : FrameOk(s.frames[i])
    /\ \A i, j \in 1 .. Len(s.frames) : s.frames[i].name = s.frames[j].name => i = j

ASSUME ParserAssumption ==
    /\ Base \in Nat \ {0} /\ IntBits \in Nat \ {0}
    /\ MaxInput \in Nat /\ MaxChunk \in Nat /\ Lengths \subseteq Nat
    /\ None \notin Nat
    /\ \A s \in Schemas : SchemaOk(s)

VARIABLES
    schema,      \* capacity, maxCapacity, dropOldest, frames
    ring,        \* cells, head, size: ByteRingBuffer
    profiles,    \* frame name -> length set at run time, or None
    received,    \* history: the number of bytes pushed since the last reset
    stream,      \* history: those the ring took
    events       \* history: the frames and errors reported

vars == <<schema, ring, profiles, received, stream, events>>

IntMax == 2 ^ (IntBits - 1) - 1
IntMin == -(2 ^ (IntBits - 1))
SizeMax == 2 ^ IntBits - 1

Least(a, b) == IF a < b THEN a ELSE b
Greatest(a, b) == IF a > b THEN a ELSE b

-----------------------------------------------------------------------------
(* The ring                                                                 *)

EmptyRing(capacity) == [cells |-> [i \in 1 .. capacity |-> 0], head |-> 0, size |-> 0]

Cap(r) == Len(r.cells)

Contents(r) == [i \in 1 .. r.size |-> r.cells[((r.head + i - 1) % Cap(r)) + 1]]

\* Copies to a larger array: the oldest byte comes first again.
EnsureCapacity(r, capacity) ==
    IF capacity <= Cap(r) THEN r
    ELSE [cells |-> [i \in 1 .. capacity |-> IF i <= r.size THEN Contents(r)[i] ELSE 0],
          head |-> 0, size |-> r.size]

DiscardFront(r, count) ==
    LET actual == Least(count, r.size)
    IN  IF actual = 0 THEN r
        ELSE [r EXCEPT !.head = (@ + actual) % Cap(r), !.size = @ - actual]

\* Fault: the tail is the number of bytes, as if the oldest were at 0.
AppendFromStart(r, bytes) ==
    [r EXCEPT !.cells = [i \in 1 .. Cap(r) |->
                            LET k == i - r.size
                            IN  IF k \in 1 .. Len(bytes) THEN bytes[k] ELSE r.cells[i]],
              !.size = Least(Cap(r), @ + Len(bytes))]

\* In two pieces, the second one from the start of the array.
AppendContiguous(r, bytes) ==
    LET tail == (r.head + r.size) % Cap(r)
        first == Least(Len(bytes), Cap(r) - tail)
    IN  [r EXCEPT !.cells = [i \in 1 .. Cap(r) |->
                                CASE i > tail /\ i <= tail + first -> bytes[i - tail]
                                  [] i <= Len(bytes) - first -> bytes[first + i]
                                  [] OTHER -> r.cells[i]],
                  !.size = Least(Cap(r), @ + Len(bytes))]

\* What append returns: the bytes that were lost.  Without drop_oldest the end
\* of the input is refused; with it the oldest bytes go.
Dropped(r, bytes, dropOldest) ==
    IF dropOldest /\ Len(bytes) >= Cap(r) THEN Len(bytes) - Cap(r) + r.size
    ELSE Greatest(0, Len(bytes) - (Cap(r) - r.size))

AppendBytes(r, bytes, dropOldest) ==
    LET free == Cap(r) - r.size
    IN  IF ~dropOldest THEN AppendContiguous(r, SubSeq(bytes, 1, Least(free, Len(bytes))))
        ELSE IF Len(bytes) >= Cap(r)
             THEN AppendContiguous([r EXCEPT !.head = 0, !.size = 0],
                                   SubSeq(bytes, Len(bytes) - Cap(r) + 1, Len(bytes)))
             ELSE AppendContiguous(DiscardFront(r, Greatest(0, Len(bytes) - free)), bytes)

\* Without drop_oldest the ring grows up to max_capacity before it refuses.
EnsureAppendCapacity(r, incoming) ==
    IF schema.dropOldest THEN r
    ELSE LET required == r.size + incoming
         IN  IF required > Cap(r) /\ schema.maxCapacity > Cap(r)
             THEN EnsureCapacity(r, Least(required, schema.maxCapacity))
             ELSE r
-----------------------------------------------------------------------------
(* Counts of fields                                                         *)

Digits(b, at, width) ==
    LET value[i \in 0 .. width] == IF i = 0 THEN 0 ELSE value[i - 1] * Base + b[at + i]
    IN  value[width]

InInt(n) == n >= IntMin /\ n <= IntMax

\* Division of integers in C++ rounds towards zero.
Quotient(a, b) ==
    LET Abs(n) == IF n < 0 THEN -n ELSE n
        q == Abs(a) \div Abs(b)
    IN  IF (a < 0) = (b < 0) THEN q ELSE -q

\* The bit i of an integer in two's complement.
Bit(n, i) == (n \div 2 ^ i) % 2
Bits == 0 .. IntBits - 1

\* The value of a count, or None for an error.  A count is fixed or the nodes of an
\* expression, the last of them its root; a node names those it is computed from by
\* their places before its own.  ctx holds the fields decoded so far and the bounds of
\* the frame.
CountOf(count, ctx) ==
    LET Field(name) == IF name \in DOMAIN ctx.parsed THEN ctx.parsed[name] ELSE None
        Checked(n) == IF InInt(n) THEN n ELSE None
        value[k \in DOMAIN count.nodes] ==
            LET e == count.nodes[k]
                operand == value[e.operand]
                by == value[e.by]
                unit == IF e.unit > 0 THEN e.unit ELSE ctx.width
                limit == IF e.excludeCrc THEN ctx.readable ELSE ctx.length
                read == Field(e.field)
            IN  CASE e.op = "const" -> e.value
                  [] e.op = "field" -> read
                  [] e.op = "div" ->
                        IF operand = None \/ by = None \/ by = 0 THEN None
                        ELSE Checked(Quotient(operand, by))
                  [] e.op = "sub" ->
                        IF operand = None THEN None ELSE Checked(operand - e.value)
                  [] e.op = "mul" ->
                        IF operand = None \/ by = None THEN None ELSE Checked(operand * by)
                  [] e.op = "remaining" ->
                        IF unit = 0 \/ ctx.start > limit THEN None
                        ELSE (limit - ctx.start) \div unit
                  [] e.op = "if_flag" ->
                        IF read = None THEN None
                        ELSE IF \E i \in Bits : Bit(read, i) = 1 /\ Bit(e.mask, i) = 1
                             THEN value[e.then] ELSE value[e.else]
                  [] e.op = "case" ->
                        CASE read = None -> None
                          [] read \in DOMAIN e.cases -> value[e.cases[read]]
                          [] OTHER -> IF e.default = None THEN None ELSE value[e.default]
                  [] e.op = "bit_count" ->
                        IF operand = None THEN None
                        ELSE Cardinality({i \in Bits : Bit(operand, i) = 1})
    IN  IF count.op = "fixed" THEN count.value ELSE value[Len(count.nodes)]
-----------------------------------------------------------------------------
(* Fields                                                                   *)

\* Fault: the size wraps around.
FieldEndWraps(start, count, width) == (start + count * width) % (SizeMax + 1)

\* The end of a field, or None when its size does not fit.
FieldEnd(start, count, width) ==
    LET end == start + count * width
    IN  IF end > SizeMax THEN None ELSE end

\* A field of "count" numbers from "start" on, put behind those in acc.
Placed(f, w, length, acc, field, start, count) ==
    LET readable == length - f.crc
        end == FieldEnd(start, count, field.width)
        scalar == IF field.integer /\ count = 1 THEN Digits(w, start, field.width) ELSE None
    IN  IF count \notin Nat \/ end = None THEN [acc EXCEPT !.failed = TRUE]
        ELSE IF start > readable \/ end > readable
             THEN [acc EXCEPT !.failed = f.length # "profile"]
        ELSE [acc EXCEPT !.cursor = Greatest(@, end),
                         !.parsed = (field.name :> scalar) @@ @,
                         !.decoded = Append(@, [name |-> field.name, start |-> start,
                                                count |-> count, width |-> field.width])]

\* One step of the decoding: acc is the cursor, the scalars known so far, the
\* fields decoded and whether an error ended it.
DecodeField(f, w, length, acc, field) ==
    LET start == IF field.offset = None THEN acc.cursor ELSE field.offset
        count == CountOf(field.count, [parsed |-> acc.parsed, length |-> length,
                                       readable |-> length - f.crc, start |-> start,
                                       width |-> field.width])
    IN  IF acc.failed THEN acc ELSE Placed(f, w, length, acc, field, start, count)

NothingDecoded == [cursor |-> 0, parsed |-> <<>>, decoded |-> <<>>, failed |-> FALSE]

DecodeFields(f, w, length) ==
    LET decoded[k \in 0 .. Len(f.fields)] ==
            IF k = 0 THEN NothingDecoded
            ELSE DecodeField(f, w, length, decoded[k - 1], f.fields[k])
    IN  decoded[Len(f.fields)]
-----------------------------------------------------------------------------
(* One frame at the front of a window                                       *)

More == [action |-> "more"]
Bad(code) == [action |-> "error", code |-> code]

\* The length field has not arrived yet.
Unread(f, w) == f.length = "len" /\ f.offset + f.width > Len(w)

\* The length a frame declares, None for an error.
DeclaredLength(f, w) ==
    CASE f.length = "profile" -> profiles[f.name]
      [] f.length = "size" -> f.size
      [] f.length = "len" ->
            LET n == Digits(w, f.offset, f.width) + (IF f.payload THEN f.extra ELSE 0)
            IN  IF n > SizeMax THEN None ELSE n

\* Fault: a frame may be longer than the buffer.
NonZeroLength(n) == n \notin {0, None}

ValidLength(n) == n \in 1 .. schema.capacity

\* The check byte of the model: the sum of the bytes before it.
Sum(w, n) == FoldLeft(LAMBDA a, b : (a + b) % Base, 0, SubSeq(w, 1, n))

CheckHolds(f, w, n) == f.crc = 0 \/ w[n] = Sum(w, n - 1)

Analyze(f, w) ==
    LET n == DeclaredLength(f, w)
        fields == DecodeFields(f, w, n)
    IN  IF Unread(f, w) THEN More
        ELSE IF ~ValidLength(n) THEN Bad("invalid_length")
        ELSE IF n > Len(w) THEN More
        ELSE IF n < Len(f.header) + f.crc THEN Bad("invalid_length")
        ELSE IF ~CheckHolds(f, w, n) THEN Bad("crc_mismatch")
        ELSE IF fields.failed THEN Bad("field_failed")
        ELSE [action |-> "parsed", name |-> f.name, length |-> n, decoded |-> fields.decoded]
-----------------------------------------------------------------------------
(* Frames of a schema whose header is at a place, the longest first         *)

SumOf(s) ==
    LET sum[k \in 0 .. Len(s)] == IF k = 0 THEN 0 ELSE sum[k - 1] + s[k]
    IN  sum[Len(s)]

\* The length a frame has at least, by what its definition fixes.
MinLength(f) ==
    LET fixed == SumOf([k \in 1 .. Len(f.fields) |->
                            LET d == f.fields[k]
                            IN  IF d.count.op = "fixed" THEN d.count.value * d.width ELSE 0])
        declared == CASE f.length = "size" -> f.size
                      [] f.length = "len" -> Greatest(Len(f.header), f.offset + f.width)
                      [] OTHER -> Len(f.header)
    IN  Least(SizeMax, Greatest(declared, Len(f.header) + fixed))

Frames == 1 .. Len(schema.frames)

HeaderAt(f, w, start) ==
    /\ start + Len(f.header) <= Len(w)
    /\ \A k \in 1 .. Len(f.header) : w[start + k] = f.header[k]

\* sortedHeaderFirstByteIndex_: a stable sort, so equal ones keep their order.
Before(i, j) ==
    LET a == MinLength(schema.frames[i])
        b == MinLength(schema.frames[j])
    IN  a > b \/ (a = b /\ i < j)

First(S) == CHOOSE i \in S : \A j \in S \ {i} : Before(i, j)

MaxHeader ==
    CHOOSE n \in {Len(schema.frames[i].header) : i \in Frames} :
        \A i \in Frames : Len(schema.frames[i].header) <= n

\* The first candidate that parses wins; else one that needs more bytes waits;
\* else the first error.
Best(result) ==
    LET Of(action) == {i \in DOMAIN result : result[i].action = action}
    IN  IF Of("parsed") # {} THEN result[First(Of("parsed"))]
        ELSE IF Of("more") # {} THEN More
        ELSE result[First(Of("error"))]

\* What the bytes at the front of the window are.
AnalyzeCandidates(w) ==
    Best([i \in {i \in Frames : HeaderAt(schema.frames[i], w, 0)} |->
              Analyze(schema.frames[i], w)])
-----------------------------------------------------------------------------
(* The handlers                                                             *)

Noise(count) == [kind |-> "noise", count |-> count]
Overflow(count) == [kind |-> "overflow", count |-> count]
Failure(code) == [kind |-> "error", code |-> code]
FrameAt(at, found, raw) ==
    [kind |-> "frame", at |-> at, name |-> found.name, raw |-> raw, decoded |-> found.decoded]

\* Fault: everything without a header is noise.
KeptNothing == 0

\* Bytes that stay when no header is found: one may be arriving.
Kept == MaxHeader - 1

\* One pass of the loop of pushBytes over what is buffered; "total" bytes came so far.
\* p.waits: the loop has ended.
Pass(p, total) ==
    LET r == p.ring
        w == Contents(r)
        starts == {k \in 0 .. Len(w) - 1 : \E i \in Frames : HeaderAt(schema.frames[i], w, k)}
        start == CHOOSE k \in starts : \A j \in starts : k <= j
        front == AnalyzeCandidates(w)
        After(count, event, waits) ==
            [ring |-> DiscardFront(r, count), found |-> Append(p.found, event), waits |-> waits]
        waiting == [ring |-> r, found |-> p.found, waits |-> TRUE]
    IN  IF p.waits \/ r.size = 0 THEN waiting
        ELSE IF starts = {}
        THEN IF r.size <= Kept THEN waiting
             ELSE After(r.size - Kept, Noise(r.size - Kept), TRUE)
        ELSE IF start > 0 THEN After(start, Noise(start), FALSE)
        ELSE CASE front.action = "parsed" ->
                    After(front.length,
                          FrameAt(total - r.size, front, SubSeq(w, 1, front.length)), FALSE)
               [] front.action = "more" -> waiting
               [] front.action = "error" -> After(1, Failure(front.code), FALSE)

\* The whole loop: a pass that does not end it takes a byte at least.
Parse(r, total, found) ==
    LET pass[k \in 0 .. r.size] ==
            IF k = 0 THEN [ring |-> r, found |-> found, waits |-> FALSE]
            ELSE Pass(pass[k - 1], total)
    IN  pass[r.size]

\* pushBytes: all of it, with the bytes of one chunk.
Push(bytes) ==
    /\ received' = received + Len(bytes)
    /\ LET r == EnsureAppendCapacity(ring, Len(bytes))
           dropped == Dropped(r, bytes, schema.dropOldest)
           accepted == IF schema.dropOldest THEN bytes
                       ELSE SubSeq(bytes, 1, Len(bytes) - dropped)
           lost == IF dropped > 0 THEN <<Overflow(dropped)>> ELSE <<>>
           parsed == Parse(AppendBytes(r, bytes, schema.dropOldest),
                           Len(stream) + Len(accepted), lost)
       IN  /\ ring' = parsed.ring
           /\ stream' = stream \o accepted
           /\ events' = events \o parsed.found
    /\ UNCHANGED <<schema, profiles>>

ProfileFrames == {schema.frames[i].name : i \in {j \in Frames : schema.frames[j].length = "profile"}}

\* setRuntimeProfile; what it refuses changes nothing.
SetProfile(name, length) ==
    /\ name \in ProfileFrames
    /\ length # 0 /\ length <= schema.capacity
    /\ profiles' = [profiles EXCEPT ![name] = length]
    /\ UNCHANGED <<schema, ring, received, stream, events>>

\* clearRuntimeProfile of one name, clearRuntimeProfiles of all.
ClearProfiles(names) ==
    /\ \A name \in names : profiles[name] # None
    /\ profiles' = [name \in DOMAIN profiles |->
                        IF name \in names THEN None ELSE profiles[name]]
    /\ UNCHANGED <<schema, ring, received, stream, events>>

\* reset keeps the array and the profiles; the histories start again.
Reset ==
    /\ ring' = [ring EXCEPT !.head = 0, !.size = 0]
    /\ received' = 0 /\ stream' = <<>> /\ events' = <<>>
    /\ UNCHANGED <<schema, profiles>>

Init ==
    /\ schema \in Schemas
    /\ ring = EmptyRing(schema.capacity)
    /\ profiles = [name \in {schema.frames[i].name : i \in Frames} |-> None]
    /\ received = 0 /\ stream = <<>> /\ events = <<>>

\* The bounds on what is received, for TLC.
ChunkLengths == 1 .. Least(MaxChunk, MaxInput - received)

Next ==
    \/ \E n \in ChunkLengths : \E bytes \in [1 .. n -> Byte] : Push(bytes)
    \/ \E name \in ProfileFrames : \E length \in Lengths : SetProfile(name, length)
    \/ \E names \in SUBSET ProfileFrames \ {{}} : ClearProfiles(names)
    \/ Reset

Spec == Init /\ [][Next]_vars
-----------------------------------------------------------------------------
(* Properties                                                               *)

\* The frames of the stream, read from its start as if it had come at once: from the
\* byte "at" on, the first of a frame that waits or fails or parses by the schema.
Scan ==
    LET scan[at \in 0 .. Len(stream)] ==
            LET w == SubSeq(stream, at + 1, Len(stream))
                heads == {i \in Frames : HeaderAt(schema.frames[i], w, 0)}
                front == Analyze(schema.frames[CHOOSE i \in heads : TRUE], w)
            IN  IF w = <<>> THEN <<>>
                ELSE IF heads = {} THEN scan[at + 1]
                ELSE CASE front.action = "parsed" ->
                            <<FrameAt(at, front, SubSeq(w, 1, front.length))>>
                                \o scan[at + front.length]
                       [] front.action = "more" -> <<>>
                       [] front.action = "error" -> scan[at + 1]
    IN  scan[0]

\* The frames among the events es.
FramesOf(es) ==
    LET frames[k \in 0 .. Len(es)] ==
            IF k = 0 THEN <<>>
            ELSE IF es[k].kind = "frame" THEN Append(frames[k - 1], es[k]) ELSE frames[k - 1]
    IN  frames[Len(es)]

FramesFound == FramesOf(events)
HasKind(kind) == \E k \in DOMAIN events : events[k].kind = kind

\* No header is complete before the end of another one.
Unambiguous ==
    \A i, j \in Frames : i # j =>
        LET f == schema.frames[i].header
            g == schema.frames[j].header
        IN  \A k \in 0 .. Len(f) - Len(g) :
                SubSeq(f, k + 1, k + Len(g)) = g => k > 0 /\ k + Len(g) = Len(f)

\* However the bytes were cut into pushes, the frames are those of a scan of the
\* whole stream from its start: a header cut in two, a frame that arrives byte
\* by byte, a false header before a real one and the wrap of the ring change
\* nothing.  (pushBytes; the longest first rule and the lengths set at run time
\* depend on the moment, so such schemas are not meant.)
FramesAsScanned ==
    Unambiguous /\ ProfileFrames = {} /\ ~(schema.dropOldest /\ HasKind("overflow"))
        => FramesFound = Scan

\* Every byte received is in one place - in a frame, skipped as noise, skipped after a
\* failed frame, lost with a report, or waiting -, what waits is the end of the stream, and
\* the frames reported are pieces of the stream, in order and apart, also after the ring has
\* wrapped, grown or overwritten its oldest bytes (pushBytes, ByteRingBuffer).
StreamIntact ==
    LET Bytes(e) == CASE e.kind = "frame" -> Len(e.raw)
                      [] e.kind = "error" -> 1
                      [] OTHER -> e.count
        Found == {k \in DOMAIN events : events[k].kind = "frame"}
    IN  /\ received = ring.size + SumOf([k \in DOMAIN events |-> Bytes(events[k])])
        /\ Contents(ring) = SubSeq(stream, Len(stream) - ring.size + 1, Len(stream))
        /\ \A k \in Found :
               LET e == events[k]
               IN  /\ e.raw = SubSeq(stream, e.at + 1, e.at + Len(e.raw))
                   /\ e.at + Len(e.raw) <= Len(stream) - ring.size
                   /\ \A j \in Found : j < k => events[j].at + Len(events[j].raw) <= e.at

\* A header and a length field that lie within the capacity of the buffer; the loader
\* does not ask for it.
WithinReach(f) ==
    /\ Len(f.header) <= schema.capacity
    /\ f.length = "len" => f.offset + f.width <= schema.capacity

\* The ring never outgrows max_capacity, and what waits always leaves room in it, if
\* headers and length fields lie within the capacity: a frame that is waited for fits
\* into the buffer, so that the parser never waits with a buffer that can take no more
\* (validateResolvedFrameLength).
NeverStarves ==
    /\ Cap(ring) <= schema.maxCapacity
    /\ (\A i \in Frames : WithinReach(schema.frames[i])) => ring.size < schema.capacity

\* Each field decoded lies within the frame and before its check, whatever the
\* count expression computed (resolveFieldDecodePlan).
FieldsInPayload ==
    \A k \in DOMAIN events : \A i \in Frames :
        LET e == events[k]
            f == schema.frames[i]
        IN  e.kind = "frame" /\ e.name = f.name =>
                \A d \in Range(e.decoded) :
                    d.start + d.count * d.width <= Len(e.raw) - f.crc

\* What the documentation promises: a frame that arrives in pieces is collected,
\* and of two frames with one header the longer one is taken, so the frames do
\* not depend on how the same bytes are pushed (pushBytes).
SplitsDoNotMatter ==
    LET all == Parse(AppendBytes(EmptyRing(MaxInput), stream, TRUE), Len(stream), <<>>)
    IN  ProfileFrames = {} /\ ~HasKind("overflow")
            => FramesFound = FramesOf(all.found)
=============================================================================
