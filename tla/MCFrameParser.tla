--------------------------- MODULE MCFrameParser ---------------------------
(* Instances of FrameParser for TLC: bytes 0..2, integers of 5 bits.        *)
EXTENDS FrameParser

Fixed(n) == [op |-> "fixed", value |-> n]
Computed(nodes) == [op |-> "computed", nodes |-> nodes]
Const(n) == [op |-> "const", value |-> n]
FieldNamed(name) == [op |-> "field", field |-> name]
Number(name, at, count) ==
    [name |-> name, integer |-> TRUE, width |-> 1, offset |-> at, count |-> count]
Words(name, count) ==
    [name |-> name, integer |-> FALSE, width |-> 4, offset |-> None, count |-> count]

Sized(name, header, size, crc, fields) ==
    [name |-> name, header |-> header, length |-> "size", size |-> size, crc |-> crc,
     fields |-> fields]

ByLength(name, header, offset, payload, extra, fields) ==
    [name |-> name, header |-> header, length |-> "len", offset |-> offset, width |-> 1,
     payload |-> payload, extra |-> extra, crc |-> 0, fields |-> fields]

ByProfile(name, header, fields) ==
    [name |-> name, header |-> header, length |-> "profile", crc |-> 0, fields |-> fields]

Buffer(capacity, maxCapacity, dropOldest, frames) ==
    [capacity |-> capacity, maxCapacity |-> maxCapacity, dropOldest |-> dropOldest,
     frames |-> frames]

\* A checked frame with a header of two bytes and one whose length is declared.
Mixed(dropOldest) ==
    Buffer(4, 5, dropOldest,
           <<Sized("a", <<1, 2>>, 4, 1, <<>>), ByLength("b", <<2>>, 1, TRUE, 3, <<>>)>>)

\* Counts of a number in the frame: multiplied, of the rest, by case.
Counts ==
    LET of == Number("n", 1, Fixed(1))
        mul == Computed(<<FieldNamed("n"), Const(4), [op |-> "mul", operand |-> 1, by |-> 2]>>)
        cases == Computed(
            <<FieldNamed("n"),
              [op |-> "sub", operand |-> 1, value |-> 1],
              [op |-> "remaining", excludeCrc |-> TRUE, unit |-> 0],
              [op |-> "div", operand |-> 2, by |-> 1],
              [op |-> "case", field |-> "n", cases |-> (0 :> 2 @@ 1 :> 3 @@ 2 :> 4),
               default |-> None]>>)
    IN  Buffer(4, 4, FALSE,
               <<Sized("m", <<1>>, 3, 0, <<of, Words("v", mul)>>),
                 Sized("c", <<2>>, 4, 1, <<of, Number("x", None, cases)>>)>>)

\* Counts by the bits of a number, and a length field that lies beyond the buffer.
Flags ==
    LET of == Number("n", 1, Fixed(1))
        flag == Computed(
            <<FieldNamed("n"),
              [op |-> "bit_count", operand |-> 1],
              Const(2),
              [op |-> "if_flag", field |-> "n", mask |-> 1, then |-> 2, else |-> 3]>>)
    IN  Buffer(3, 4, FALSE,
               <<Sized("f", <<1>>, 3, 0, <<of, Number("x", None, flag)>>),
                 ByLength("far", <<2, 2>>, 4, FALSE, 0, <<>>)>>)

\* A length set at run time, with a field it may cut off, beside a fixed frame.
Profiled ==
    Buffer(4, 4, TRUE,
           <<ByProfile("p", <<1>>, <<Number("x", None, Fixed(1)), Number("y", 3, Fixed(1))>>),
             Sized("q", <<1>>, 2, 0, <<>>)>>)

MCSchemas == {Mixed(TRUE), Mixed(FALSE), Counts, Flags, Profiled}

\* The two frames of test_frame_stream_parser_prefers_longer_same_header_candidate.
SameHeader ==
    Buffer(4, 4, TRUE,
           <<Sized("short", <<1>>, 2, 0, <<>>),
             Sized("long", <<1>>, 3, 0, <<Number("value", 2, Fixed(1))>>)>>)

MCSplitSchemas == {SameHeader}
MCLengths == {0, 2, 4, 5}
=============================================================================
