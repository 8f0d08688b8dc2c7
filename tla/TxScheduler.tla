---------------------------- MODULE TxScheduler ----------------------------
(***************************************************************************)
(* The half-duplex TX scheduler of the application: script requests come   *)
(* out of the worker in output batches, wait in one queue, are handed to   *)
(* the transport one at a time, wait for the script's request_done, time   *)
(* out, are retried or cancelled.  Three threads take part: the            *)
(* application thread, the script worker and the I/O thread of the         *)
(* transport; they share nothing but the three queues between them.        *)
(*                                                                         *)
(* An attempt is a request id with its attempt number.  request_done       *)
(* carries no id in the code: the attempt in a "done" record, like         *)
(* everything in the history variables, only records for which attempt     *)
(* the host accepted the call.                                             *)
(*                                                                         *)
(* A definition marked "Fault" is a plausible mistake in the definition    *)
(* after it; no action uses it.                                            *)
(***************************************************************************)
EXTENDS SeqPick

CONSTANTS
    None,
    Kinds,        \* kinds of request the script makes
    Overflow,     \* protocol.tx.overflow_policy
    MaxPending,   \* protocol.tx.max_pending
    MaxAttempts,  \* max_attempts of a guarded request
    DoneFrom,     \* callbacks in which the script calls request_done
    OneDone,      \* whether the script calls it at most once per attempt
    MayWriteLate, \* whether a write may exceed its timeout
    MayDiscard,   \* discard_backlog_on_disconnect, in responsive mode
    Empty,        \* ids of the requests made with an empty payload
    MaxRequests,  \* bound: requests made in a behaviour
    MaxBurst,     \* bound: requests made in one callback
    MaxCalls,     \* bound: ticks and controls under way at a time
    MaxRx,        \* bound: received chunks under way at a time
    MaxOpens,     \* bound: openings of the transport
    MaxDrops,     \* bound: losses of the peer
    MaxResets     \* bound: calls of reset_request_guard

AllKinds == {"send", "request", "guarded"}

ASSUME TxAssumption ==
    /\ Kinds \subseteq AllKinds
    /\ Overflow \in {"reject_new", "drop_newest", "drop_oldest_waiting"}
    /\ MaxPending \in Nat /\ MaxAttempts \in Nat \ {0}
    /\ DoneFrom \subseteq {"rx", "tx", "call", "close"}
    /\ {OneDone, MayWriteLate, MayDiscard} \subseteq BOOLEAN /\ Empty \subseteq Nat
    /\ {MaxRequests, MaxBurst, MaxCalls, MaxRx, MaxOpens, MaxDrops, MaxResets} \subseteq Nat

VARIABLES
    queue, write, half, halted,  \* pendingTxQueue_, activeWrite_, activeHalfDuplexRequest_,
                                 \* txRequestGuardHalted_
    step, batch,                 \* the application thread inside a handler
    pulled,                      \* pendingTransportEvents_
    link, posted, events,        \* the transport: its state, writes posted to its I/O
                                 \* thread, events it has not been asked for
    toHost, exec, fromHost,      \* the worker: commands, the command in execution, outputs
    awaiting,                    \* requestAwaitingCompletion_ of the host
    issued, wire, written, ended, doneFor, discarded, used  \* history and bounds

appVars == <<queue, write, half, halted, step, batch, pulled>>
ioVars == <<link, posted, events>>
hostVars == <<toHost, exec, fromHost, awaiting>>
history == <<issued, wire, written, ended, doneFor, discarded, used>>
vars == <<appVars, ioVars, hostVars, history>>

Ids == 1..MaxRequests

Attempt(r) == [id |-> r.id, attempt |-> r.attempt]

-----------------------------------------------------------------------------
(* What the application posts to the worker.                                *)

HostCommand(op, for, guard) == [op |-> op, for |-> for, guard |-> guard]

\* isGuardedTerminalFailure
IsGuardedTerminalFailure(r, state) ==
    /\ r.kind = "guarded"
    /\ \/ state \in {"failed", "rejected", "dropped"}
       \/ state = "timeout" /\ r.attempt >= MaxAttempts

GuardStateForEvent(r, state) ==
    IF r.kind # "guarded" THEN "none"
    ELSE IF state = "timeout" /\ r.attempt < MaxAttempts THEN "retrying"
    ELSE IF IsGuardedTerminalFailure(r, state) THEN "halted"
    ELSE "active"

TxEvent(r, state) == HostCommand("tx", Attempt(r), GuardStateForEvent(r, state))

AwaitCompletion(for) == HostCommand("await", for, "none")

Callback(op) == HostCommand(op, None, "none")

PostToHost(commands) == toHost' = toHost \o commands

\* finishTxRequest, except for the event it posts.
EndRequest(r, state) ==
    /\ halted' = (halted \/ IsGuardedTerminalFailure(r, state))
    /\ ended' = [ended EXCEPT ![r.id] = @ + 1]

ActiveCount ==
    Len(queue) + (IF write = None THEN 0 ELSE 1) + (IF half = None THEN 0 ELSE 1)

-----------------------------------------------------------------------------
(* Cancelling.                                                              *)

Canceled(q) == [i \in DOMAIN q |-> TxEvent(q[i], "canceled")]

\* cancelAllTxRequests, except for the events it posts.
CancelAll ==
    /\ queue' = <<>> /\ write' = None /\ half' = None
    /\ LET out == {queue[i].id : i \in DOMAIN queue} \cup
                  (IF write = None THEN {} ELSE {write.id}) \cup
                  (IF half = None THEN {} ELSE {half.id})
       IN  ended' = [r \in Ids |-> ended[r] + (IF r \in out THEN 1 ELSE 0)]

CancelCommands ==
    (IF write = None THEN <<>> ELSE <<TxEvent(write, "canceled")>>) \o
    (IF half = None THEN <<>>
     ELSE <<AwaitCompletion(None), AwaitCompletion(None), TxEvent(half, "canceled")>>) \o
    Canceled(queue)

-----------------------------------------------------------------------------
(* The transport.  Its I/O thread executes the posted writes in order.      *)

Event(op) == [op |-> op, for |-> None, state |-> "none"]

\* openTransport replaces the transport; events of the old one are gone.
OpenTransport(ok) ==
    /\ step = "idle" /\ used.opens < MaxOpens
    /\ CancelAll
    /\ PostToHost(CancelCommands)
    /\ link' = IF ok THEN "open" ELSE "closed"
    /\ posted' = <<>> /\ pulled' = <<>>
    /\ events' = <<Event("notice")>>
    /\ used' = [used EXCEPT !.opens = @ + 1]
    /\ UNCHANGED <<halted, step, batch, exec, fromHost, awaiting,
                   issued, wire, written, doneFor, discarded>>

\* closeTransport: received bytes that were pulled are kept, detached from the
\* connection, unless the backlog is discarded; posted writes and every other
\* event are lost.
CloseTransport ==
    /\ step = "idle" /\ link # "closed"
    /\ CancelAll
    /\ PostToHost(CancelCommands)
    /\ link' = "closed"
    /\ posted' = <<>> /\ events' = <<>>
    /\ \/ /\ pulled' = Pick(pulled, {i \in DOMAIN pulled : pulled[i].op = "rx"})
          /\ UNCHANGED step
       \/ /\ MayDiscard
          /\ pulled' = <<>>
          /\ step' = "clearing"
    /\ UNCHANGED <<halted, batch, exec, fromHost, awaiting,
                   issued, wire, written, doneFor, discarded, used>>

\* The posted writer: a failed write puts the transport into its error state;
\* a write that succeeds but took longer than its timeout is a timeout.  The
\* socket may still take it when its other direction has ended.
Write(state) ==
    /\ posted # <<>>
    /\ state \in {"sent", "rejected"} \cup (IF MayWriteLate THEN {"timeout"} ELSE {})
    /\ posted' = Tail(posted)
    /\ link' = IF state = "rejected" THEN "error" ELSE link
    /\ events' = events \o (IF state = "rejected" /\ link # "lost" THEN <<Event("notice")>> ELSE <<>>)
                        \o <<[op |-> "tx", for |-> Attempt(Head(posted)), state |-> state]>>
    /\ written' = IF state = "rejected" THEN written ELSE written \cup {Attempt(Head(posted))}
    /\ UNCHANGED <<appVars, hostVars, issued, wire, ended, doneFor, discarded, used>>

Count(q, op) == Cardinality({i \in DOMAIN q : q[i].op = op})

\* Bound: what a chunk or a call has under way, the outputs included.
UnderWay(op) ==
    Count(events, op) + Count(pulled, op) + Count(toHost, op) + Len(fromHost)
    + (IF exec # None /\ exec.op = op THEN 1 ELSE 0)

\* The device may go on for ever.
Receive ==
    /\ link = "open" /\ UnderWay("rx") < MaxRx
    /\ events' = Append(events, Event("rx"))
    /\ UNCHANGED <<appVars, link, posted, hostVars, history>>

\* A read of a TCP client or a serial port fails: no close event follows, and
\* so nothing is cancelled.
ReadFails ==
    /\ link = "open"
    /\ link' = "error"
    /\ events' = Append(events, Event("notice"))
    /\ UNCHANGED <<appVars, posted, hostVars, history>>

\* A TCP server loses its client: the listener stays open, the context is gone.
\* A transport in its error state stays there.
PeerLost ==
    /\ link \in {"open", "error"} /\ used.drops < MaxDrops
    /\ link' = IF link = "open" THEN "lost" ELSE link
    /\ events' = Append(events, Event("close"))
    /\ used' = [used EXCEPT !.drops = @ + 1]
    /\ UNCHANGED <<appVars, posted, hostVars, issued, wire, written, ended, doneFor, discarded>>

\* The next client is accepted.
PeerAccepted ==
    /\ link = "lost"
    /\ link' = "open"
    /\ events' = Append(events, Event("notice"))
    /\ UNCHANGED <<appVars, posted, hostVars, history>>

-----------------------------------------------------------------------------
(* The application thread: transport events.                                *)

Pull ==
    /\ step = "idle" /\ events # <<>>
    /\ pulled' = pulled \o events
    /\ events' = <<>>
    /\ UNCHANGED <<queue, write, half, halted, step, batch, link, posted, hostVars, history>>

NextEvent(op) ==
    /\ step = "idle" /\ pulled # <<>> /\ Head(pulled).op = op
    /\ pulled' = Tail(pulled)

\* Open and error events, and received bytes, cause a callback and nothing else.
PassEvent(op) ==
    /\ NextEvent(op) /\ op \in {"rx", "notice"}
    /\ PostToHost(<<Callback(IF op = "rx" THEN "rx" ELSE "call")>>)
    /\ UNCHANGED <<queue, write, half, halted, step, batch, ioVars, exec, fromHost, awaiting,
                   history>>

ProcessClose ==
    /\ NextEvent("close")
    /\ CancelAll
    /\ PostToHost(<<Callback("close")>> \o CancelCommands)
    /\ UNCHANGED <<halted, step, batch, ioVars, exec, fromHost, awaiting,
                   issued, wire, written, doneFor, discarded, used>>

\* Fault: any write result is taken for that of the active write.
TakesAnyResult(event) == write # None

\* The result of a cancelled write is ignored.
IsActiveWrite(event) == write # None /\ write.id = event.for.id

\* processTransportTxEvent: a request that was sent starts to wait for its
\* answer before the script hears of it.
ProcessSent ==
    LET event == Head(pulled)
    IN  /\ NextEvent("tx") /\ IsActiveWrite(event)
        /\ event.state = "sent" /\ write.kind # "send"
        /\ write' = None
        /\ half' = write
        /\ PostToHost(<<AwaitCompletion(Attempt(write)), TxEvent(write, "sent")>>)
        /\ UNCHANGED <<queue, halted, step, batch, ioVars, exec, fromHost, awaiting, history>>

ProcessWriteResult ==
    LET event == Head(pulled)
    IN  /\ NextEvent("tx") /\ IsActiveWrite(event)
        /\ event.state # "sent" \/ write.kind = "send"
        /\ write' = None
        /\ EndRequest(write, event.state)
        /\ PostToHost(<<TxEvent(write, event.state)>>)
        /\ step' = "drive"
        /\ UNCHANGED <<queue, half, batch, ioVars, exec, fromHost, awaiting,
                       issued, wire, written, doneFor, discarded, used>>

IgnoreResult ==
    /\ NextEvent("tx") /\ ~IsActiveWrite(Head(pulled))
    /\ UNCHANGED <<queue, write, half, halted, step, batch, ioVars, hostVars, history>>

-----------------------------------------------------------------------------
(* The application thread: one output batch.  Guard resets come first, then *)
(* the requests, then at most one request_done, then the scheduler.         *)

BeginBatch ==
    LET b == Head(fromHost)
    IN  /\ step = "idle" /\ fromHost # <<>>
        /\ batch' = b
        /\ fromHost' = Tail(fromHost)
        /\ halted' = (halted /\ ~b.reset)
        /\ PostToHost(IF b.reset THEN <<Callback("tx")>> ELSE <<>>)
        /\ step' = "apply"
        /\ UNCHANGED <<queue, write, half, pulled, ioVars, exec, awaiting, history>>

\* Fault: one request too many fits.
HasRoomOffByOne == ActiveCount <= MaxPending

HasRoom == ActiveCount < MaxPending

\* enqueueTxRequest
EnqueueTxRequest ==
    LET r == Head(batch.requests)
        refused == r.kind = "guarded" /\ halted
        evicts == ~HasRoom /\ Overflow = "drop_oldest_waiting" /\ queue # <<>>
    IN  /\ step = "apply" /\ batch.requests # <<>>
        /\ batch' = [batch EXCEPT !.requests = Tail(@)]
        /\ \/ /\ refused
              /\ EndRequest(r, "rejected")
              /\ PostToHost(<<TxEvent(r, "rejected")>>)
              /\ UNCHANGED queue
           \/ /\ ~refused /\ HasRoom
              /\ queue' = Append(queue, r)
              /\ UNCHANGED <<halted, ended, toHost>>
           \/ /\ ~refused /\ evicts
              /\ EndRequest(Head(queue), "dropped")
              /\ PostToHost(<<TxEvent(Head(queue), "dropped")>>)
              /\ queue' = Append(Tail(queue), r)
           \/ /\ ~refused /\ ~HasRoom /\ ~evicts
              /\ LET state == IF Overflow = "drop_newest" THEN "dropped" ELSE "rejected"
                 IN  EndRequest(r, state) /\ PostToHost(<<TxEvent(r, state)>>)
              /\ UNCHANGED queue
        /\ UNCHANGED <<write, half, step, pulled, ioVars, exec, fromHost, awaiting,
                       issued, wire, written, doneFor, discarded, used>>

\* The first request_done of the batch completes whatever request waits.
ApplyDone ==
    /\ step = "apply" /\ batch.requests = <<>>
    /\ IF batch.done # None /\ half # None
       THEN LET state == IF batch.done.ok THEN "completed" ELSE "failed"
            IN  /\ half' = None
                /\ EndRequest(half, state)
                /\ PostToHost(<<AwaitCompletion(None), TxEvent(half, state)>>)
       ELSE UNCHANGED <<half, halted, ended, toHost>>
    /\ batch' = None
    /\ step' = "drive"
    /\ UNCHANGED <<queue, write, pulled, ioVars, exec, fromHost, awaiting,
                   issued, wire, written, doneFor, discarded, used>>

-----------------------------------------------------------------------------
(* The application thread: the scheduler and the deadline.                  *)

\* Fault: only the write in progress holds the next request back.
SendsWhileWaiting == write = None /\ queue # <<>>

MaySend == write = None /\ half = None /\ queue # <<>>

\* Fault: the guard is only checked when a request is queued.
GuardUnchecked == link # "open" \/ Head(queue).id \in Empty

\* enqueueSend refuses when the transport is not open or has no peer, and a
\* request without bytes.
HeadRejected ==
    \/ link # "open" \/ Head(queue).id \in Empty
    \/ Head(queue).kind = "guarded" /\ halted

\* driveTxScheduler, one round of its loop.
Reject ==
    /\ step = "drive" /\ MaySend /\ HeadRejected
    /\ queue' = Tail(queue)
    /\ EndRequest(Head(queue), "rejected")
    /\ PostToHost(<<TxEvent(Head(queue), "rejected")>>)
    /\ UNCHANGED <<write, half, step, batch, pulled, ioVars, exec, fromHost, awaiting,
                   issued, wire, written, doneFor, discarded, used>>

HandOver ==
    /\ step = "drive" /\ MaySend /\ ~HeadRejected
    /\ queue' = Tail(queue)
    /\ write' = Head(queue)
    /\ posted' = Append(posted, Head(queue))
    /\ wire' = Append(wire, Head(queue))
    /\ UNCHANGED <<half, halted, step, batch, pulled, link, events, hostVars,
                   issued, written, ended, doneFor, discarded, used>>

Driven ==
    /\ step = "drive" /\ ~MaySend
    /\ step' = "idle"
    /\ UNCHANGED <<queue, write, half, halted, batch, pulled, ioVars, hostVars, history>>

\* Fault: bytes in the hand of the worker are not looked at.
SeesOnlyQueues ==
    /\ pulled = <<>> /\ fromHost = <<>>
    /\ \A i \in DOMAIN toHost : toHost[i].op # "rx"

\* Fault: a deadline waits for every command of the worker, ticks included.
WaitsForWorker == pulled = <<>> /\ fromHost = <<>> /\ exec = None /\ toHost = <<>>

\* No pulled event, no received bytes queued or in execution, no output: there
\* can be no answer the application has not looked at.
NoAnswerInFlight ==
    /\ pulled = <<>> /\ fromHost = <<>>
    /\ exec # None => exec.op # "rx"
    /\ \A i \in DOMAIN toHost : toHost[i].op # "rx"

\* Fault: the retry is put at the end of the queue.
RetryLast(r) == Append(queue, r)

RetryQueue(r) == <<r>> \o queue

\* Fault: the host is not told that nobody waits any more.
ForgetsHost(r) == <<TxEvent(r, "timeout")>>

TimeoutCommands(r) == <<AwaitCompletion(None), TxEvent(r, "timeout")>>

\* Fault: one attempt too many.
RetriesOnceMore(r) == r.kind = "guarded" /\ r.attempt <= MaxAttempts

MayRetry(r) == r.kind = "guarded" /\ r.attempt < MaxAttempts

\* processRequestTimeouts, once the deadline has passed.
RequestTimesOut ==
    /\ step = "idle" /\ half # None
    /\ NoAnswerInFlight
    /\ half' = None
    /\ PostToHost(TimeoutCommands(half))
    /\ IF MayRetry(half)
       THEN /\ queue' = RetryQueue([half EXCEPT !.attempt = @ + 1])
            /\ UNCHANGED <<halted, ended>>
       ELSE EndRequest(half, "timeout") /\ UNCHANGED queue
    /\ step' = "drive"
    /\ UNCHANGED <<write, batch, pulled, ioVars, exec, fromHost, awaiting,
                   issued, wire, written, doneFor, discarded, used>>

\* Ticks, controls and other commands that run a callback; they never end.
PostCall ==
    /\ step = "idle" /\ UnderWay("call") < MaxCalls
    /\ PostToHost(<<Callback("call")>>)
    /\ UNCHANGED <<appVars, ioVars, exec, fromHost, awaiting, history>>

QueuedIds(q) == {q[i].id : i \in DOMAIN q}

UnappliedIds == UNION {QueuedIds(fromHost[i].requests) : i \in DOMAIN fromHost}

\* clearPendingRealtimeOutputs: the application waits until the worker has run
\* all that was posted; what was published, before or meanwhile, is dropped.
Cleared ==
    /\ step = "clearing" /\ toHost = <<>> /\ exec = None
    /\ fromHost' = <<>>
    /\ discarded' = discarded \cup UnappliedIds
    /\ step' = "idle"
    /\ UNCHANGED <<queue, write, half, halted, batch, pulled, ioVars, toHost, exec, awaiting,
                   issued, wire, written, ended, doneFor, used>>

-----------------------------------------------------------------------------
(* The worker.                                                              *)

Take ==
    /\ exec = None /\ toHost # <<>>
    /\ exec' = Head(toHost)
    /\ toHost' = Tail(toHost)
    /\ UNCHANGED <<appVars, ioVars, fromHost, awaiting, history>>

RunAwait ==
    /\ exec # None /\ exec.op = "await"
    /\ awaiting' = exec.for
    /\ exec' = None
    /\ UNCHANGED <<appVars, ioVars, toHost, fromHost, history>>

\* The script may call request_done when the host awaits a completion.
MayCallDone ==
    /\ exec.op \in DoneFrom /\ awaiting # None
    /\ OneDone => awaiting \notin doneFor

Requests(kinds) ==
    [i \in DOMAIN kinds |-> [id |-> issued + i, kind |-> kinds[i], attempt |-> 1]]

\* A callback: what it asks of the host is published as one batch.  A callback
\* on bytes always has transport statistics to publish; a close clears the
\* received bytes that are queued behind it.
RunCallback(kinds, reset, done) ==
    /\ exec # None /\ exec.op # "await"
    /\ issued + Len(kinds) <= MaxRequests
    /\ reset => used.resets < MaxResets
    /\ done # None => MayCallDone /\ done.for = awaiting
    /\ fromHost' = IF kinds # <<>> \/ reset \/ done # None \/ exec.op = "rx"
                   THEN Append(fromHost, [reset |-> reset, requests |-> Requests(kinds),
                                          done |-> done])
                   ELSE fromHost
    /\ issued' = issued + Len(kinds)
    /\ doneFor' = IF done = None THEN doneFor ELSE doneFor \cup {done.for}
    /\ used' = [used EXCEPT !.resets = @ + (IF reset THEN 1 ELSE 0)]
    /\ toHost' = IF exec.op = "close"
                 THEN Pick(toHost, {i \in DOMAIN toHost : toHost[i].op # "rx"})
                 ELSE toHost
    /\ exec' = None
    /\ UNCHANGED <<appVars, ioVars, awaiting, wire, written, ended, discarded>>

-----------------------------------------------------------------------------
Init ==
    /\ queue = <<>> /\ write = None /\ half = None /\ halted = FALSE
    /\ step = "idle" /\ batch = None /\ pulled = <<>>
    /\ link = "closed" /\ posted = <<>> /\ events = <<>>
    /\ toHost = <<>> /\ exec = None /\ fromHost = <<>> /\ awaiting = None
    /\ issued = 0 /\ wire = <<>> /\ written = {} /\ doneFor = {}
    /\ ended = [r \in Ids |-> 0]
    /\ discarded = {}
    /\ used = [opens |-> 0, drops |-> 0, resets |-> 0]

\* What the user and the device may do.
Environment ==
    \/ \E ok \in BOOLEAN : OpenTransport(ok)
    \/ CloseTransport \/ Receive \/ ReadFails \/ PeerLost \/ PeerAccepted \/ PostCall

IoThread == \E state \in {"sent", "timeout", "rejected"} : Write(state)

\* What a round of pumpOnce gets done, in any order and cut short anywhere, as
\* its event and output budgets do.
ProcessEvent ==
    \/ \E op \in {"rx", "notice"} : PassEvent(op)
    \/ ProcessClose \/ ProcessSent \/ ProcessWriteResult \/ IgnoreResult

Handler == EnqueueTxRequest \/ ApplyDone \/ Reject \/ HandOver \/ Driven \/ Cleared

Bursts == UNION {[1..n -> Kinds] : n \in 0..MaxBurst}

Dones == {None} \cup (IF awaiting = None THEN {} ELSE [for : {awaiting}, ok : BOOLEAN])

Worker ==
    \/ Take \/ RunAwait
    \/ \E kinds \in Bursts, reset \in BOOLEAN, done \in Dones : RunCallback(kinds, reset, done)

\* Nothing is in progress anywhere.
Quiet ==
    /\ ActiveCount = 0 /\ step = "idle"
    /\ pulled = <<>> /\ events = <<>> /\ posted = <<>>
    /\ toHost = <<>> /\ exec = None /\ fromHost = <<>>
    /\ UNCHANGED vars

Next ==
    \/ Environment \/ IoThread \/ Worker
    \/ Pull \/ ProcessEvent \/ BeginBatch \/ Handler \/ RequestTimesOut
    \/ Quiet

Spec == Init /\ [][Next]_vars

\* pumpOnce visits each of its stages every round, the worker and the I/O
\* thread run, a posted write returns.
Fairness ==
    /\ WF_vars(IoThread) /\ WF_vars(Worker)
    /\ WF_vars(Pull) /\ WF_vars(ProcessEvent) /\ WF_vars(BeginBatch)
    /\ WF_vars(Handler) /\ WF_vars(RequestTimesOut)

FairSpec == Spec /\ Fairness

-----------------------------------------------------------------------------
(* Properties.                                                              *)

Request == [id : Ids, kind : Kinds, attempt : 1..MaxAttempts]

AttemptId == [id : Ids, attempt : 1..MaxAttempts]

HostCommandType ==
    [op : {"await", "tx", "rx", "call", "close"}, for : AttemptId \cup {None},
     guard : {"none", "active", "retrying", "halted"}]

EventType ==
    [op : {"notice", "rx", "close", "tx"}, for : AttemptId \cup {None},
     state : {"none", "sent", "timeout", "rejected"}]

Done == [for : AttemptId, ok : BOOLEAN]

Batch == [reset : BOOLEAN, requests : Seq(Request), done : Done \cup {None}]

\* None is nothing of these.
ASSUME NoneAssumption == None \notin Request \cup AttemptId \cup HostCommandType \cup Done \cup Batch

AppType ==
    /\ queue \in Seq(Request) /\ write \in Request \cup {None} /\ half \in Request \cup {None}
    /\ halted \in BOOLEAN /\ step \in {"idle", "apply", "drive", "clearing"} /\ batch \in Batch \cup {None}
    /\ pulled \in Seq(EventType)

IoType ==
    /\ link \in {"closed", "open", "lost", "error"} /\ posted \in Seq(Request)
    /\ events \in Seq(EventType)

HostType ==
    /\ toHost \in Seq(HostCommandType) /\ exec \in HostCommandType \cup {None}
    /\ fromHost \in Seq(Batch) /\ awaiting \in AttemptId \cup {None}

HistoryType ==
    /\ issued \in 0..MaxRequests /\ wire \in Seq(Request)
    /\ written \subseteq AttemptId /\ doneFor \subseteq AttemptId
    /\ ended \in [Ids -> Nat]
    /\ discarded \subseteq Ids
    /\ used \in [opens : Nat, drops : Nat, resets : Nat]

\* Every variable of the scheduler, of the transport and of the worker keeps
\* its type (application_transport.cc:1734).
TypeOK == AppType /\ IoType /\ HostType /\ HistoryType

\* The queue and the request in progress together never exceed
\* protocol.tx.max_pending, a retry put back in front included.
QueueBound == ActiveCount <= MaxPending

\* No request is written while another waits for its answer: the link is used
\* half-duplex (application_transport.cc:1951).
OneAtATime == write = None \/ half = None

\* Only a request whose bytes the transport has written waits for an answer:
\* the late result of a cancelled write never promotes another request.
WaitsOnlyForWritten == half # None => Attempt(half) \in written

\* Once the worker has run every command, the host accepts request_done for
\* exactly the attempt that waits.
HostAgreesWhoWaits ==
    exec = None /\ (\A i \in DOMAIN toHost : toHost[i].op # "await") =>
        awaiting = IF half = None THEN None ELSE Attempt(half)

\* A guarded request is never handed to the transport while the guard is
\* halted, whether it was queued before or after the failure.
HaltedGuardHoldsBack ==
    [][wire' # wire /\ halted => wire'[Len(wire')].kind # "guarded"]_vars

\* The request that request_done completes is the one that waited when the
\* script called it.
DoneCompletesCurrent ==
    [][ApplyDone /\ batch.done # None /\ half # None => batch.done.for = Attempt(half)]_vars

\* An attempt reported to the script as "retrying" is back in the queue.
RetryingMeansRequeued ==
    [][\A i \in DOMAIN toHost' \ DOMAIN toHost :
           toHost'[i].guard = "retrying" =>
               \E j \in DOMAIN queue' : queue'[j].id = toHost'[i].for.id]_vars

\* Requests the script has made and nobody works on.
PendingIds ==
    QueuedIds(queue) \cup UnappliedIds
    \cup (IF batch = None THEN {} ELSE QueuedIds(batch.requests))

\* The scheduler implements the life of requests: each ends at most once, they
\* are sent in the order they were made, one at a time, a retry goes before
\* every later request, and only a request that was never sent is discarded.
Life == INSTANCE RequestLife WITH
    made <- issued, pending <- PendingIds,
    active <- IF write # None THEN {write.id} ELSE IF half # None THEN {half.id} ELSE {},
    sent <- wire, ended <- ended, forgotten <- discarded

ImplementsRequestLife == Life!Spec

\* Every request the script makes ends, or is discarded with the outputs of a
\* connection that was closed, whatever the device does.  It does not hold:
\* processRequestTimeouts looks at a deadline only when no received byte and no
\* output is under way (application_transport.cc:1913), and a device that goes on
\* sending may never leave it such a moment.
EndsInAnyTraffic == \A r \in Ids : issued >= r ~> ended[r] > 0 \/ r \in discarded

\* From some moment on the device sends nothing and the worker publishes nothing;
\* ticks and controls may go on.
FallsSilent == <>[][~Receive /\ Len(fromHost') <= Len(fromHost)]_vars

\* Every request the script makes ends, or is discarded, if the device and the
\* script ever fall silent: ticks alone never hold a deadline up.
EveryRequestEnds == FallsSilent => EndsInAnyTraffic
=============================================================================
