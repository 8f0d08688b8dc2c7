----------------------------- MODULE Connection -----------------------------
(* From the socket to the script: the I/O thread of a transport turns what  *)
(* peers do into events, the application pulls them, keeps track of the     *)
(* active connection and posts them to the script worker, while the user    *)
(* opens and closes and clients of a server take over from each other.      *)
(* Sources: src/transport/transport.cc, src/transport/udp_transport.cc,     *)
(* src/app/application_transport.cc, src/scripting/script_runtime_worker.cc.*)
(*                                                                          *)
(* "stream" stands for the TCP client, the serial port and UDP, which have  *)
(* one connection from open to close; "server" for the TCP server.          *)
(*                                                                          *)
(* Bytes are numbered in the order in which peers send them, and a chunk of *)
(* them is the set of its numbers: a part of a chunk is its lowest numbers. *)
EXTENDS Integers, Sequences, FiniteSets, SeqPick

CONSTANTS
    None,
    Kinds,        \* subset of {"stream", "server"}
    MaxConns,     \* connections made in a run, for TLC
    MaxBytes,     \* bytes that peers send in a run, for TLC
    MaxOpens,     \* times the user opens a transport, for TLC
    MaxExtras,    \* writes posted and clients rejected in a run, for TLC
    ReadSize,     \* bytes of the read buffer
    PumpBytes,    \* bytes one pump passes on
    RxBudget      \* bytes that the worker accepts to hold

ASSUME ConnectionAssumption ==
    /\ Kinds \subseteq {"stream", "server"}
    /\ \A n \in {MaxConns, MaxBytes, MaxOpens, MaxExtras} : n \in Nat
    /\ \A n \in {ReadSize, PumpBytes, RxBudget} : n \in Nat \ {0}
    /\ None \notin Nat

VARIABLES
    transport,    \* None, or the transport that is open (see NewTransport)
    made,         \* connection ids given out: makeConnectionId
    active,       \* activeConnection_
    pending,      \* pendingTransportEvents_
    chunks,       \* pendingRxByteChunks_: bytes of a connection that was closed
    commands,     \* the command queue of the script worker
    heardConn,    \* activeConnectionId of the worker
    told,         \* history: the connection the script knows of, by its callbacks
    heard,        \* history: the bytes the script was given
    origin,       \* history: the connection on which each byte was sent
    received,     \* history: the bytes reported by the I/O thread
    lost,         \* history: bytes thrown away by a close or an open
    opens, extras \* counters for the bounds

appVars == <<active, pending, chunks>>
workerVars == <<commands, heardConn, told, heard>>
vars == <<transport, made, appVars, workerVars, origin, received, lost, opens, extras>>

Conns == 1 .. MaxConns
Listen == 0      \* the context of a listening server: not ready for I/O

\* Events, completed reads and transports; None is no transport.
EventType == [op : {"open", "close", "error", "bytes"}, conn : Conns \cup {Listen},
              ready : BOOLEAN, bytes : SUBSET Nat]
ReadType == [generation : Nat, bytes : SUBSET Nat]
TransportType == [kind : {"stream", "server", "failed"}, state : {"open", "error"},
                  conn : Conns \cup {None}, generation : Nat \ {0}, done : Seq(ReadType),
                  read : Nat, posted : Int, events : Seq(EventType)]

ASSUME NoneAssumption == None \notin TransportType

-----------------------------------------------------------------------------
(* Events, commands and the queues of them                                  *)

Event(op, conn, bytes) == [op |-> op, conn |-> conn, ready |-> conn # Listen, bytes |-> bytes]
Report(op, conn) == Event(op, conn, {})
Detached(e) == [e EXCEPT !.ready = FALSE]

BytesIn(q) == UNION {q[k].bytes : k \in DOMAIN q}
OnlyBytes(q) == Pick(q, {k \in DOMAIN q : q[k].op = "bytes"})
WithoutBytes(q) == Pick(q, {k \in DOMAIN q : q[k].op # "bytes"})
EventsOf(t) == IF t = None THEN <<>> ELSE t.events

Emit(t, events) == [t EXCEPT !.events = @ \o events]

-----------------------------------------------------------------------------
(* The user                                                                 *)

\* read: the generation whose read is outstanding, or 0; done: reads that the
\* system completed and whose handler has not run, without bytes for an error.
NewTransport(kind, conn, events) ==
    [kind |-> kind, state |-> "open", conn |-> conn, generation |-> 1, done |-> <<>>,
     read |-> IF conn = None THEN 0 ELSE 1, posted |-> 0, events |-> events]

\* openTransport: what was pulled or is still in the old transport is gone.
OpenTransport(kind, succeeds) ==
    /\ opens < MaxOpens /\ opens' = opens + 1
    /\ kind = "stream" => made < MaxConns
    /\ pending' = <<>> /\ chunks' = <<>> /\ active' = None
    /\ lost' = lost \cup BytesIn(chunks) \cup BytesIn(pending) \cup BytesIn(EventsOf(transport))
    /\ IF ~succeeds
       THEN /\ transport' = [NewTransport("failed", None,
                                           <<[Report("error", Listen) EXCEPT !.ready = kind = "stream"]>>)
                                EXCEPT !.state = "error"]
            /\ UNCHANGED made
       ELSE IF kind = "stream"
       THEN /\ made' = made + 1
            /\ transport' = NewTransport(kind, made', <<Report("open", made')>>)
       ELSE /\ transport' = NewTransport(kind, None, <<Report("open", Listen)>>)
            /\ UNCHANGED made
    /\ UNCHANGED <<workerVars, origin, received, extras>>

\* Fault: the bytes keep looking like those of a live connection.
KeepsLive(bytes) == bytes

\* detachPendingRealtimeBacklogFromConnection: pulled bytes stay, without their
\* connection; the other events are dropped.
DetachedBytes(bytes) == [k \in DOMAIN bytes |-> Detached(bytes[k])]

\* closeTransport.  The close events of the transport are lost with it.
CloseTransport(discard) ==
    /\ transport # None
    /\ transport' = None /\ active' = None /\ pending' = <<>>
    /\ chunks' = IF discard THEN <<>> ELSE DetachedBytes(chunks \o OnlyBytes(pending))
    /\ lost' = lost \cup BytesIn(EventsOf(transport))
                    \cup (IF discard THEN BytesIn(chunks) \cup BytesIn(pending) ELSE {})
    /\ UNCHANGED <<made, workerVars, origin, received, opens, extras>>

\* enqueueSend: a write is posted to the I/O thread.
Send ==
    /\ transport # None /\ extras < MaxExtras
    /\ transport.state = "open" /\ transport.conn # None
    /\ transport' = [transport EXCEPT !.posted = @ + 1]
    /\ extras' = extras + 1
    /\ UNCHANGED <<made, appVars, workerVars, origin, received, lost, opens>>

-----------------------------------------------------------------------------
(* Peers and the operating system                                           *)

ioUnchanged == <<appVars, workerVars, lost, opens, extras>>

\* Bytes arrive, or the connection ends: the outstanding read completes.
Arrive(count) ==
    /\ transport # None /\ transport.read # 0
    /\ Len(origin) + count <= MaxBytes
    /\ LET bytes == (Len(origin) + 1) .. (Len(origin) + count)
       IN  transport' = [transport EXCEPT !.read = 0,
                            !.done = Append(@, [generation |-> transport.read, bytes |-> bytes])]
    /\ origin' = origin \o [k \in 1 .. count |-> transport.conn]
    /\ UNCHANGED <<ioUnchanged, made, received>>

-----------------------------------------------------------------------------
(* The I/O thread                                                           *)

\* Fault: the handler does not look at the generation.
AnyRead(t, read) == TRUE

\* A read of a client that was taken over is ignored.
CurrentRead(t, read) == t.kind = "server" => read.generation = t.generation

\* The handler of async_read_some.
ReadDone ==
    /\ transport # None /\ transport.done # <<>>
    /\ LET read == Head(transport.done)
           t == [transport EXCEPT !.done = Tail(@)]
       IN  IF ~CurrentRead(transport, read) \/ transport.conn = None
           THEN transport' = t /\ UNCHANGED received
           ELSE IF read.bytes # {}
           THEN /\ transport' = [Emit(t, <<Event("bytes", t.conn, read.bytes)>>)
                                    EXCEPT !.read = read.generation]
                /\ received' = received \cup read.bytes
           ELSE /\ transport' = IF t.kind = "server"
                                THEN [Emit(t, <<Report("close", t.conn)>>) EXCEPT !.conn = None]
                                ELSE [Emit(t, <<Report("error", t.conn)>>) EXCEPT !.state = "error"]
                /\ UNCHANGED received
    /\ UNCHANGED <<ioUnchanged, made, origin>>

\* Fault: the new connection is reported before the old one is closed.
OpenThenClose(old, new) == <<Report("open", new), Report("close", old)>>

TakeOver(old, new) == <<Report("close", old), Report("open", new)>>

\* The handler of async_accept.  The move of the new socket into clientSocket
\* ends the outstanding read of the old one with an error.
Accept(reject) ==
    /\ transport # None /\ transport.kind = "server"
    /\ IF transport.conn # None /\ reject
       THEN /\ transport' = Emit(transport, <<Report("error", Listen)>>)
            /\ extras < MaxExtras /\ extras' = extras + 1
            /\ UNCHANGED made
       ELSE /\ made < MaxConns /\ made' = made + 1
            /\ UNCHANGED extras
            /\ LET generation == transport.generation + 1
                   aborted == IF transport.read = 0 THEN <<>>
                              ELSE <<[generation |-> transport.read, bytes |-> {}]>>
               IN  transport' = [Emit(transport, IF transport.conn = None
                                                 THEN <<Report("open", made')>>
                                                 ELSE TakeOver(transport.conn, made'))
                                    EXCEPT !.conn = made', !.generation = generation,
                                           !.read = generation, !.done = @ \o aborted]
    /\ UNCHANGED <<appVars, workerVars, lost, opens, origin, received>>

\* A posted write is executed on whatever connection there is now.
Write(ok) ==
    /\ transport # None /\ transport.posted > 0
    /\ LET t == [transport EXCEPT !.posted = @ - 1]
           own == IF t.conn = None THEN <<>> ELSE <<Report("error", t.conn)>>
       IN  transport' = IF ok THEN t ELSE [Emit(t, own) EXCEPT !.state = "error"]
    /\ UNCHANGED <<ioUnchanged, made, origin, received>>
-----------------------------------------------------------------------------
(* The application's pump                                                   *)

FirstOf(bytes, count) == {b \in bytes : Rank(bytes, b) < count}

FirstBytes(e, count) == [e EXCEPT !.bytes = FirstOf(@, count)]

\* Fault: an event of which a part was accepted is done with.
NothingLeft(e, count) == <<>>

\* What stays at the head of the queue when the worker took the first bytes.
Rest(e, count) ==
    IF count = Cardinality(e.bytes) THEN <<>>
    ELSE <<[e EXCEPT !.bytes = @ \ FirstOf(@, count)]>>

Lesser(a, b) == IF a < b THEN a ELSE b

\* tryPostTransportBytes: as much as the worker still takes.
Acceptable(e) ==
    Lesser(Lesser(Cardinality(e.bytes), PumpBytes),
           RxBudget - Lesser(RxBudget, Cardinality(BytesIn(commands))))

\* processPendingRxBytes, before anything else: detached bytes are posted without
\* asking, live ones as below.  (ScriptWorker has the wait of the blocking post.)
PumpChunk ==
    /\ chunks # <<>>
    /\ LET e == Head(chunks)
           foreign == e.ready /\ active # e.conn
           count == IF e.ready /\ ~foreign THEN Acceptable(e) ELSE Lesser(Cardinality(e.bytes), PumpBytes)
       IN  /\ count > 0
           /\ commands' = IF foreign THEN commands ELSE Append(commands, FirstBytes(e, count))
           /\ chunks' = Rest(e, count) \o Tail(chunks)
    /\ pending' = pending \o EventsOf(transport)
    /\ UNCHANGED active

\* Live bytes: dropped when they are of another connection than the active one.
PumpBytesEvent(e, rest) ==
    /\ e.op = "bytes"
    /\ IF active # e.conn
       THEN pending' = rest /\ UNCHANGED commands
       ELSE /\ Acceptable(e) > 0
            /\ commands' = Append(commands, FirstBytes(e, Acceptable(e)))
            /\ pending' = Rest(e, Acceptable(e)) \o rest
    /\ UNCHANGED <<active, chunks>>

\* Fault: a close leaves the connection active.
StaysActive(e) == IF e.op = "open" /\ e.ready THEN e.conn ELSE active

ActiveAfter(e) ==
    CASE e.op = "open" /\ e.ready -> e.conn
      [] e.op = "close" /\ active = e.conn -> None
      [] OTHER -> active

\* processTransportOpenEvent, processTransportCloseEvent,
\* processTransportErrorEvent: the context of a listener is only logged.
PumpReport(e, rest) ==
    /\ e.op # "bytes"
    /\ commands' = IF e.ready THEN Append(commands, e) ELSE commands
    /\ active' = ActiveAfter(e)
    /\ pending' = rest
    /\ UNCHANGED chunks

\* handleTransportEvents: the events are pulled, and the first is dealt with; a
\* pump that deals with several is several of these steps.
Pump ==
    /\ LET all == pending \o EventsOf(transport)
       IN  \/ PumpChunk
           \/ /\ chunks = <<>> /\ all # <<>>
              /\ PumpBytesEvent(Head(all), Tail(all)) \/ PumpReport(Head(all), Tail(all))
    /\ transport' = IF transport = None THEN None ELSE [transport EXCEPT !.events = <<>>]
    /\ UNCHANGED <<made, heardConn, told, heard, origin, received, lost, opens, extras>>
-----------------------------------------------------------------------------
(* The script worker, as far as it matters here                             *)

\* Bytes of another connection than the last one heard of are refused, a close
\* clears all bytes that are queued, whatever their connection.
Run ==
    /\ commands # <<>>
    /\ LET e == Head(commands)
           stale == e.op = "bytes" /\ e.ready /\ heardConn # None /\ heardConn # e.conn
       IN  /\ heard' = IF stale THEN heard ELSE heard \cup e.bytes
           /\ told' = CASE e.op = "open" -> e.conn
                        [] e.op = "close" -> None
                        [] OTHER -> told
           /\ heardConn' = CASE e.op = "open" \/ (e.op = "bytes" /\ e.ready /\ ~stale) -> e.conn
                             [] e.op = "close" /\ heardConn = e.conn -> None
                             [] OTHER -> heardConn
           /\ commands' = IF e.op = "close" THEN WithoutBytes(Tail(commands)) ELSE Tail(commands)
           /\ lost' = IF e.op = "close" THEN lost \cup BytesIn(Tail(commands)) ELSE lost
    /\ UNCHANGED <<transport, made, appVars, origin, received, opens, extras>>
-----------------------------------------------------------------------------
Init ==
    /\ transport = None /\ made = 0 /\ active = None
    /\ pending = <<>> /\ chunks = <<>>
    /\ commands = <<>> /\ heardConn = None /\ told = None /\ heard = {}
    /\ origin = <<>> /\ received = {} /\ lost = {}
    /\ opens = 0 /\ extras = 0

Next ==
    \/ \E kind \in Kinds, succeeds \in BOOLEAN : OpenTransport(kind, succeeds)
    \/ \E discard \in BOOLEAN : CloseTransport(discard)
    \/ Send
    \/ \E count \in 0 .. ReadSize : Arrive(count)
    \/ ReadDone
    \/ \E reject \in BOOLEAN : Accept(reject)
    \/ \E ok \in BOOLEAN : Write(ok)
    \/ Pump
    \/ Run

\* The application pumps in every frame and the worker thread runs its commands.
Fairness == WF_vars(Pump) /\ WF_vars(Run)

Spec == Init /\ [][Next]_vars /\ Fairness
-----------------------------------------------------------------------------
(* Properties                                                               *)

Before(A, B) == \A a \in A, b \in B : a < b

\* The chunks of a queue follow each other.
InOrder(q) == \A j, k \in DOMAIN q : j < k => Before(q[j].bytes, q[k].bytes)

\* Everything that is on its way from the I/O thread to the script, in its order.
Flight == commands \o chunks \o pending \o EventsOf(transport)

\* Each byte that the I/O thread reported is in one place, in the order in which
\* it was received: with the script, in the worker, in the application or in the
\* transport; only a close or an open throws bytes away.  In particular a chunk
\* of which the worker took a part is neither repeated nor lost, and the two
\* filters on the connection never refuse a byte (drainTransportEventQueues).
EachByteOnce ==
    /\ received \ lost = heard \cup BytesIn(Flight)
    /\ Before(heard, BytesIn(Flight)) /\ InOrder(Flight)

\* Bytes are reported for the connection on which they were sent, although a
\* client may take over while a read of the one before is completed (ReadDone).
BytesOfTheirOwn ==
    \A q \in {pending, chunks, commands, EventsOf(transport)} :
        \A k \in DOMAIN q : \A b \in q[k].bytes : origin[b] = q[k].conn

\* Of a live connection the script hears the opening, then bytes, then at most
\* one closing, and nothing of two connections mixed.
CallbacksNest ==
    [][\A e \in {commands[k] : k \in DOMAIN commands \cap {1}} :
          Run /\ e.ready /\ (e.op = "close" \/ (e.op = "bytes" /\ heard' # heard))
              => told = e.conn]_vars

\* When the application has dealt with all events it knows which connection the
\* transport has (processTransportOpenEvent, processTransportCloseEvent).
ActiveIsCurrent ==
    transport # None /\ pending \o EventsOf(transport) = <<>> => active = transport.conn

\* A byte received reaches the script unless a close or an open throws it away:
\* also the bytes that were pulled before a close (detachPendingRealtimeBacklog...).
BytesArrive ==
    \A b \in 1 .. MaxBytes :
        b \in received ~> b \in lost \cup heard

\* What the manual promises: a connection that is closed is closed for the script
\* too (on_close), once the worker has nothing left to do.
ClosingIsTold == transport = None /\ commands = <<>> => told = None
=============================================================================
