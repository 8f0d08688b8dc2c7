------------------------- MODULE TxSchedulerProofs -------------------------
(***************************************************************************)
(* Theorems about the TX scheduler, for every number of requests, bound    *)
(* of the queue, overflow policy and number of attempts: first its types,  *)
(* the requests pending and its guard, then the way of a request - the     *)
(* requests stand in a line in the order in which they were made, a result *)
(* belongs to the write that is active, and the host hears in the end who  *)
(* waits.                                                                  *)
(***************************************************************************)
EXTENDS TxScheduler, SeqPickProofs

-----------------------------------------------------------------------------
(* Types of what the application posts.                                     *)

LEMMA TxEventType ==
    ASSUME NEW r \in Request, NEW state
    PROVE  TxEvent(r, state) \in HostCommandType
BY DEF TxEvent, HostCommand, HostCommandType, Attempt, AttemptId, Request, GuardStateForEvent

LEMMA AwaitType ==
    ASSUME NEW for \in AttemptId \cup {None}
    PROVE  AwaitCompletion(for) \in HostCommandType
BY DEF AwaitCompletion, HostCommand, HostCommandType

LEMMA CallbackType ==
    ASSUME NEW op \in {"await", "tx", "rx", "call", "close"}
    PROVE  Callback(op) \in HostCommandType
BY DEF Callback, HostCommand, HostCommandType

LEMMA AttemptType ==
    ASSUME NEW r \in Request
    PROVE  Attempt(r) \in AttemptId
BY DEF Attempt, AttemptId, Request

\* The sequences that are posted are built from at most five parts.
LEMMA SmallSeqs ==
    ASSUME NEW S
    PROVE  /\ <<>> \in Seq(S)
           /\ \A a \in S : <<a>> \in Seq(S)
           /\ \A a, b \in S : <<a, b>> \in Seq(S)
           /\ \A a, b, c \in S : <<a, b, c>> \in Seq(S)
OBVIOUS

LEMMA PostType ==
    ASSUME toHost \in Seq(HostCommandType), NEW c \in Seq(HostCommandType), PostToHost(c)
    PROVE  toHost' \in Seq(HostCommandType)
BY ConcatProperties DEF PostToHost

LEMMA EndType ==
    ASSUME NEW r \in Request, NEW state, EndRequest(r, state),
           halted \in BOOLEAN, ended \in [Ids -> Nat]
    PROVE  halted' \in BOOLEAN /\ ended' \in [Ids -> Nat]
<1>1. r.id \in Ids
  BY DEF Request
<1>2. ended' \in [Ids -> Nat]
  BY <1>1 DEF EndRequest
<1>3. IsGuardedTerminalFailure(r, state) \in BOOLEAN
  BY DEF IsGuardedTerminalFailure
<1>4. halted' \in BOOLEAN
  BY <1>3, Zenon DEF EndRequest
<1> QED
  BY <1>2, <1>4

LEMMA CancelType ==
    ASSUME TypeOK, CancelAll
    PROVE  /\ queue' \in Seq(Request) /\ write' = None /\ half' = None /\ queue' = <<>>
           /\ ended' \in [Ids -> Nat]
           /\ CancelCommands \in Seq(HostCommandType)
<1>1. queue \in Seq(Request) /\ write \in Request \cup {None} /\ half \in Request \cup {None}
      /\ ended \in [Ids -> Nat]
  BY DEF TypeOK, AppType, HistoryType
<1>2. queue' = <<>> /\ write' = None /\ half' = None
  BY DEF CancelAll
<1>3. ended' \in [Ids -> Nat]
  BY <1>1 DEF CancelAll
<1>4. Canceled(queue) \in Seq(HostCommandType)
  <2>1. \A i \in 1..Len(queue) : TxEvent(queue[i], "canceled") \in HostCommandType
    BY <1>1, ElementOfSeq, TxEventType
  <2>2. DOMAIN queue = 1..Len(queue) /\ Len(queue) \in Nat
    BY <1>1, LenProperties
  <2>3. Canceled(queue) \in [1..Len(queue) -> HostCommandType]
    BY <2>1, <2>2 DEF Canceled
  <2> QED
    BY <2>2, <2>3, SeqDef
<1> DEFINE A == IF write = None THEN <<>> ELSE <<TxEvent(write, "canceled")>>
           B == IF half = None THEN <<>>
                ELSE <<AwaitCompletion(None), AwaitCompletion(None), TxEvent(half, "canceled")>>
<1>5. A \in Seq(HostCommandType)
  <2>1. write # None => TxEvent(write, "canceled") \in HostCommandType
    BY <1>1, TxEventType
  <2> QED
    BY <2>1, SmallSeqs
<1>6. B \in Seq(HostCommandType)
  <2>1. half # None => TxEvent(half, "canceled") \in HostCommandType
    BY <1>1, TxEventType
  <2>2. AwaitCompletion(None) \in HostCommandType
    BY AwaitType
  <2> QED
    BY <2>1, <2>2, SmallSeqs
<1>7. A \o B \in Seq(HostCommandType)
  BY <1>5, <1>6, ConcatProperties
<1>8. (A \o B) \o Canceled(queue) \in Seq(HostCommandType)
  BY <1>4, <1>7, ConcatProperties
<1>9. CancelCommands = (A \o B) \o Canceled(queue)
  BY DEF CancelCommands
<1> QED
  BY <1>1, <1>2, <1>3, <1>8, <1>9, SmallSeqs

-----------------------------------------------------------------------------
(* The inductive invariant.  QueueBound alone is not inductive: handing a   *)
(* request over moves it from the queue to the write slot, which keeps the  *)
(* count only because no other request is there; a result moves it on to    *)
(* the half-duplex slot, which must be empty.                               *)

BatchInHand == step = "apply" => batch \in Batch

IInv == TypeOK /\ BatchInHand /\ OneAtATime /\ QueueBound

USE TxAssumption

LEMMA InitIInv == Init => IInv
<1> SUFFICES ASSUME Init PROVE IInv
  OBVIOUS
<1>1. AppType /\ IoType /\ HostType
  BY SmallSeqs DEF Init, AppType, IoType, HostType
<1>2. HistoryType
  BY SmallSeqs DEF Init, HistoryType, Ids
<1>3. BatchInHand /\ OneAtATime
  BY DEF Init, BatchInHand, OneAtATime
<1>4. QueueBound
  BY DEF Init, QueueBound, ActiveCount
<1> QED
  BY <1>1, <1>2, <1>3, <1>4 DEF IInv, TypeOK


\* The four parts of TypeOK of which a step leaves every variable alone.
LEMMA Frame ==
    /\ AppType /\ UNCHANGED appVars => AppType'
    /\ IoType /\ UNCHANGED ioVars => IoType'
    /\ HostType /\ UNCHANGED hostVars => HostType'
    /\ HistoryType /\ UNCHANGED history => HistoryType'
BY DEF AppType, IoType, HostType, HistoryType, appVars, ioVars, hostVars, history

\* The bounds' counters.
LEMMA UsedType ==
    ASSUME used \in [opens : Nat, drops : Nat, resets : Nat],
           NEW n \in {0, 1},
           \/ used' = used
           \/ used' = [used EXCEPT !.opens = @ + 1] \/ used' = [used EXCEPT !.drops = @ + 1]
           \/ used' = [used EXCEPT !.resets = @ + n]
    PROVE  used' \in [opens : Nat, drops : Nat, resets : Nat]
OBVIOUS

\* A step that moves no request and no batch keeps the rest of the invariant.
LEMMA StillIInv ==
    ASSUME IInv, TypeOK', UNCHANGED <<queue, write, half, step, batch>>
    PROVE  IInv'
BY DEF IInv, BatchInHand, OneAtATime, QueueBound, ActiveCount

\* After everything was cancelled the rest of the invariant holds.
LEMMA CancelIInv ==
    ASSUME IInv, CancelAll, TypeOK', step' # "apply"
    PROVE  IInv'
<1>1. queue' = <<>> /\ write' = None /\ half' = None
  BY DEF CancelAll
<1> QED
  BY <1>1 DEF IInv, BatchInHand, OneAtATime, QueueBound, ActiveCount

LEMMA OpenIInv ==
    ASSUME IInv, NEW ok \in BOOLEAN, OpenTransport(ok)
    PROVE  IInv'
<1> USE DEF IInv, TypeOK
<1>1. /\ queue' \in Seq(Request) /\ write' = None /\ half' = None
      /\ ended' \in [Ids -> Nat] /\ CancelCommands \in Seq(HostCommandType)
  BY CancelType DEF OpenTransport
<1>2. AppType'
  BY <1>1, SmallSeqs DEF OpenTransport, AppType
<1>3. IoType'
  <2>1. Event("notice") \in EventType
    BY DEF Event, EventType
  <2> QED
    BY <2>1, SmallSeqs DEF OpenTransport, IoType
<1>4. HostType'
  BY <1>1, PostType DEF OpenTransport, HostType
<1>5. HistoryType'
  <2>1. used' \in [opens : Nat, drops : Nat, resets : Nat]
    BY UsedType DEF OpenTransport, HistoryType
  <2> QED
    BY <1>1, <2>1 DEF OpenTransport, HistoryType
<1> QED
  BY <1>2, <1>3, <1>4, <1>5, CancelIInv DEF OpenTransport

LEMMA CloseIInv ==
    ASSUME IInv, CloseTransport
    PROVE  IInv'
<1> USE DEF IInv, TypeOK
<1>1. /\ queue' \in Seq(Request) /\ write' = None /\ half' = None
      /\ ended' \in [Ids -> Nat] /\ CancelCommands \in Seq(HostCommandType)
  BY CancelType DEF CloseTransport
<1>2. AppType' /\ step' # "apply"
  <2>1. pulled' \in Seq(EventType)
    <3>1. pulled \in Seq(EventType)
      BY DEF AppType
    <3>2. \/ pulled' = Pick(pulled, {i \in DOMAIN pulled : pulled[i].op = "rx"})
          \/ pulled' = <<>>
      BY DEF CloseTransport
    <3>3. Pick(pulled, {i \in DOMAIN pulled : pulled[i].op = "rx"}) \in Seq(EventType)
      BY ONLY <3>1, PickProperties
    <3>4. <<>> \in Seq(EventType)
      BY ONLY SmallSeqs
    <3> QED
      BY ONLY <3>2, <3>3, <3>4
  <2>2. step' \in {"idle", "clearing"}
    BY DEF CloseTransport
  <2>3. UNCHANGED <<halted, batch>>
    BY DEF CloseTransport
  <2>4. halted \in BOOLEAN /\ batch \in Batch \cup {None}
    BY DEF AppType
  <2> QED
    BY <1>1, <2>1, <2>2, <2>3, <2>4 DEF AppType
<1>3. IoType'
  BY SmallSeqs DEF CloseTransport, IoType
<1>4. HostType'
  BY <1>1, PostType DEF CloseTransport, HostType
<1>5. HistoryType'
  BY <1>1 DEF CloseTransport, HistoryType
<1> QED
  BY <1>2, <1>3, <1>4, <1>5, CancelIInv DEF CloseTransport

LEMMA OtherEnvironmentIInv ==
    ASSUME IInv, Receive \/ ReadFails \/ PeerLost \/ PeerAccepted \/ PostCall
    PROVE  IInv'
<1> USE DEF IInv, TypeOK
<1>1. UNCHANGED appVars /\ AppType'
  BY Frame DEF Receive, ReadFails, PeerLost, PeerAccepted, PostCall
<1>2. IoType'
  <2>1. \A op \in {"rx", "close", "notice"} : Event(op) \in EventType
    BY DEF Event, EventType
  <2>2. \/ \E op \in {"rx", "close", "notice"} : events' = Append(events, Event(op))
        \/ events' = events
    BY DEF Receive, ReadFails, PeerLost, PeerAccepted, PostCall, ioVars
  <2>3. events' \in Seq(EventType)
    <3>1. events \in Seq(EventType)
      BY DEF IoType
    <3>2. \A op \in {"rx", "close", "notice"} : Append(events, Event(op)) \in Seq(EventType)
      BY <2>1, <3>1, AppendProperties
    <3> QED
      BY <2>2, <3>1, <3>2
  <2> QED
    BY <2>3 DEF Receive, ReadFails, PeerLost, PeerAccepted, PostCall, IoType, ioVars
<1>3. HostType'
  <2>1. <<Callback("call")>> \in Seq(HostCommandType)
    BY CallbackType, SmallSeqs
  <2> QED
    BY <2>1, PostType, Frame
       DEF Receive, ReadFails, PeerLost, PeerAccepted, PostCall, HostType, hostVars
<1>4. HistoryType'
  <2>1. CASE UNCHANGED history
    BY <2>1, Frame
  <2>2. CASE PeerLost
    <3>1. used' \in [opens : Nat, drops : Nat, resets : Nat]
      BY <2>2, UsedType DEF PeerLost, HistoryType
    <3> QED
      BY <2>2, <3>1 DEF PeerLost, HistoryType
  <2> QED
    BY <2>1, <2>2 DEF Receive, ReadFails, PeerAccepted, PostCall
<1> QED
  BY <1>1, <1>2, <1>3, <1>4, StillIInv DEF appVars

LEMMA WriteIInv ==
    ASSUME IInv, NEW state \in {"sent", "timeout", "rejected"}, Write(state)
    PROVE  IInv'
<1> USE DEF IInv, TypeOK
<1> DEFINE e == [op |-> "tx", for |-> Attempt(Head(posted)), state |-> state]
           n == IF state = "rejected" /\ link # "lost" THEN <<Event("notice")>> ELSE <<>>
<1>1. Head(posted) \in Request /\ Tail(posted) \in Seq(Request)
  BY HeadTailProperties DEF Write, IoType
<1>2. Attempt(Head(posted)) \in AttemptId
  BY <1>1, AttemptType
<1>3. n \in Seq(EventType) /\ <<e>> \in Seq(EventType)
  <2>1. e \in EventType
    BY <1>2 DEF EventType
  <2>2. Event("notice") \in EventType
    BY DEF Event, EventType
  <2> QED
    BY <2>1, <2>2, SmallSeqs
<1>4. events' \in Seq(EventType)
  <2>1. events' = (events \o n) \o <<e>>
    BY DEF Write
  <2> HIDE DEF e, n
  <2> QED
    BY <1>3, <2>1, ConcatProperties DEF IoType
<1>5. IoType'
  BY <1>1, <1>4 DEF Write, IoType
<1>6. UNCHANGED appVars /\ AppType' /\ HostType'
  BY Frame DEF Write
<1>7. HistoryType'
  BY <1>2 DEF Write, HistoryType
<1> QED
  BY <1>5, <1>6, <1>7, StillIInv DEF appVars

-----------------------------------------------------------------------------
(* Transport events.                                                        *)

LEMMA PullIInv ==
    ASSUME IInv, Pull
    PROVE  IInv'
<1> USE DEF IInv, TypeOK
<1>1. AppType' /\ IoType'
  BY ConcatProperties, SmallSeqs DEF Pull, AppType, IoType
<1>2. HostType' /\ HistoryType'
  BY Frame DEF Pull
<1> QED
  BY <1>1, <1>2, StillIInv DEF Pull

\* The event taken from the pulled ones, and what remains of them.
LEMMA NextEventType ==
    ASSUME AppType, NEW op, NextEvent(op)
    PROVE  Head(pulled) \in EventType /\ pulled' \in Seq(EventType)
BY HeadTailProperties DEF NextEvent, AppType

LEMMA PassEventIInv ==
    ASSUME IInv, NEW op \in {"rx", "notice"}, PassEvent(op)
    PROVE  IInv'
<1> USE DEF IInv, TypeOK
<1>1. AppType'
  BY NextEventType DEF PassEvent, AppType
<1>2. IoType' /\ HistoryType'
  BY Frame DEF PassEvent
<1>3. HostType'
  <2> DEFINE c == Callback(IF op = "rx" THEN "rx" ELSE "call")
  <2>1. <<c>> \in Seq(HostCommandType)
    BY CallbackType, SmallSeqs
  <2>2. PostToHost(<<c>>)
    BY DEF PassEvent
  <2> HIDE DEF c
  <2> QED
    BY <2>1, <2>2, PostType DEF PassEvent, HostType
<1> QED
  BY <1>1, <1>2, <1>3, StillIInv DEF PassEvent

LEMMA ProcessCloseIInv ==
    ASSUME IInv, ProcessClose
    PROVE  IInv'
<1> USE DEF IInv, TypeOK
<1>1. /\ queue' \in Seq(Request) /\ write' = None /\ half' = None
      /\ ended' \in [Ids -> Nat] /\ CancelCommands \in Seq(HostCommandType)
  BY CancelType DEF ProcessClose
<1>2. AppType'
  BY <1>1, NextEventType DEF ProcessClose, AppType
<1>3. IoType'
  BY Frame DEF ProcessClose
<1>4. HostType'
  <2>1. <<Callback("close")>> \in Seq(HostCommandType)
    BY CallbackType, SmallSeqs
  <2>2. <<Callback("close")>> \o CancelCommands \in Seq(HostCommandType)
    BY <1>1, <2>1, ConcatProperties
  <2> QED
    BY <2>2, PostType DEF ProcessClose, HostType
<1>5. HistoryType'
  BY <1>1 DEF ProcessClose, HistoryType
<1> QED
  BY <1>2, <1>3, <1>4, <1>5, CancelIInv DEF ProcessClose, NextEvent

LEMMA ProcessSentIInv ==
    ASSUME IInv, ProcessSent
    PROVE  IInv'
<1> USE DEF IInv, TypeOK
<1>1. write \in Request /\ write # None /\ half = None
  BY DEF ProcessSent, IsActiveWrite, AppType, OneAtATime
<1>2. AppType'
  BY <1>1, NextEventType DEF ProcessSent, AppType
<1>3. IoType' /\ HistoryType'
  BY Frame DEF ProcessSent
<1>4. HostType'
  <2> DEFINE c == <<AwaitCompletion(Attempt(write)), TxEvent(write, "sent")>>
  <2>1. c \in Seq(HostCommandType)
    BY <1>1, AttemptType, AwaitType, TxEventType, SmallSeqs
  <2>2. PostToHost(c)
    BY DEF ProcessSent
  <2> HIDE DEF c
  <2> QED
    BY <2>1, <2>2, PostType DEF ProcessSent, HostType
<1>5. BatchInHand' /\ OneAtATime' /\ QueueBound'
  BY <1>1 DEF ProcessSent, BatchInHand, OneAtATime, QueueBound, ActiveCount
<1> QED
  BY <1>2, <1>3, <1>4, <1>5

LEMMA ProcessWriteResultIInv ==
    ASSUME IInv, ProcessWriteResult
    PROVE  IInv'
<1> USE DEF IInv, TypeOK
<1> DEFINE state == Head(pulled).state
<1>1. write \in Request /\ write # None /\ half = None
  BY DEF ProcessWriteResult, IsActiveWrite, AppType, OneAtATime
<1>2. halted' \in BOOLEAN /\ ended' \in [Ids -> Nat]
  <2>1. EndRequest(write, state)
    BY DEF ProcessWriteResult
  <2> HIDE DEF state
  <2> QED
    BY <1>1, <2>1, EndType DEF AppType, HistoryType
<1>3. AppType'
  BY <1>1, <1>2, NextEventType DEF ProcessWriteResult, AppType
<1>4. IoType'
  BY Frame DEF ProcessWriteResult
<1>5. HostType'
  <2>1. <<TxEvent(write, state)>> \in Seq(HostCommandType)
    BY <1>1, TxEventType, SmallSeqs
  <2>2. PostToHost(<<TxEvent(write, state)>>)
    BY DEF ProcessWriteResult
  <2> HIDE DEF state
  <2> QED
    BY <2>1, <2>2, PostType DEF ProcessWriteResult, HostType
<1>6. HistoryType'
  BY <1>2 DEF ProcessWriteResult, HistoryType
<1>7. BatchInHand' /\ OneAtATime' /\ QueueBound'
  BY <1>1 DEF ProcessWriteResult, BatchInHand, OneAtATime, QueueBound, ActiveCount, AppType
<1> QED
  BY <1>3, <1>4, <1>5, <1>6, <1>7

LEMMA IgnoreResultIInv ==
    ASSUME IInv, IgnoreResult
    PROVE  IInv'
<1> USE DEF IInv, TypeOK
<1>1. AppType'
  BY NextEventType DEF IgnoreResult, AppType
<1>2. IoType' /\ HostType' /\ HistoryType'
  BY Frame DEF IgnoreResult
<1> QED
  BY <1>1, <1>2, StillIInv DEF IgnoreResult

-----------------------------------------------------------------------------
(* Output batches and the scheduler.                                        *)

LEMMA BeginBatchIInv ==
    ASSUME IInv, BeginBatch
    PROVE  IInv'
<1> USE DEF IInv, TypeOK
<1>1. batch' \in Batch /\ fromHost' \in Seq(Batch)
  BY HeadTailProperties DEF BeginBatch, HostType
<1>2. AppType'
  <2>1. batch'.reset \in BOOLEAN
    BY <1>1 DEF Batch
  <2>2. halted' \in BOOLEAN
    BY <2>1, Zenon DEF BeginBatch, AppType
  <2> QED
    BY <1>1, <2>2 DEF BeginBatch, AppType
<1>3. IoType' /\ HistoryType'
  BY Frame DEF BeginBatch
<1>4. HostType'
  <2> DEFINE c == IF Head(fromHost).reset THEN <<Callback("tx")>> ELSE <<>>
  <2>1. c \in Seq(HostCommandType)
    BY CallbackType, SmallSeqs
  <2>2. PostToHost(c)
    BY DEF BeginBatch
  <2> HIDE DEF c
  <2> QED
    BY <1>1, <2>1, <2>2, PostType DEF BeginBatch, HostType
<1>5. BatchInHand'
  BY <1>1 DEF BatchInHand
<1>6. OneAtATime' /\ QueueBound'
  BY DEF BeginBatch, OneAtATime, QueueBound, ActiveCount
<1> QED
  BY <1>2, <1>3, <1>4, <1>5, <1>6

\* A step that leaves the request in progress changes the count as it changes
\* the length of the queue.
LEMMA CountQueue ==
    ASSUME Len(queue) \in Nat, Len(queue') \in Nat, UNCHANGED <<write, half>>
    PROVE  ActiveCount \in Nat /\ ActiveCount' = ActiveCount + (Len(queue') - Len(queue))
<1> DEFINE w == IF write = None THEN 0 ELSE 1
           h == IF half = None THEN 0 ELSE 1
<1>1. w \in Nat /\ h \in Nat
  OBVIOUS
<1>2. ActiveCount = Len(queue) + w + h /\ ActiveCount' = Len(queue') + w + h
  BY Zenon DEF ActiveCount
<1> HIDE DEF w, h
<1> QED
  BY <1>1, <1>2

\* The request at the front of the batch, of which a request is ended or
\* queued: either keeps the types.
LEMMA EnqueueIInv ==
    ASSUME IInv, EnqueueTxRequest
    PROVE  IInv'
<1> USE DEF IInv, TypeOK
<1> DEFINE r == Head(batch.requests)
<1>1. batch \in Batch
  BY DEF EnqueueTxRequest, BatchInHand
<1>2. r \in Request /\ Tail(batch.requests) \in Seq(Request)
  <2>1. batch.requests \in Seq(Request)
    BY <1>1 DEF Batch
  <2> QED
    BY <2>1, HeadTailProperties DEF EnqueueTxRequest
<1>3. batch' \in Batch
  BY <1>1, <1>2 DEF EnqueueTxRequest, Batch
<1>4. queue # <<>> => Head(queue) \in Request /\ Tail(queue) \in Seq(Request)
                      /\ Len(Tail(queue)) = Len(queue) - 1
  BY HeadTailProperties DEF AppType
<1>5. \/ HasRoom /\ queue' = Append(queue, r) /\ UNCHANGED <<halted, ended, toHost>>
      \/ /\ \/ queue' = queue
            \/ queue # <<>> /\ queue' = Append(Tail(queue), r)
         /\ \E x \in Request, state \in {"rejected", "dropped"} :
               EndRequest(x, state) /\ PostToHost(<<TxEvent(x, state)>>)
  <2> HIDE DEF IInv, TypeOK
  <2> DEFINE refused == r.kind = "guarded" /\ halted
             evicts == ~HasRoom /\ Overflow = "drop_oldest_waiting" /\ queue # <<>>
             new == IF Overflow = "drop_newest" THEN "dropped" ELSE "rejected"
  <2>1. \/ EndRequest(r, "rejected") /\ PostToHost(<<TxEvent(r, "rejected")>>) /\ UNCHANGED queue
        \/ HasRoom /\ queue' = Append(queue, r) /\ UNCHANGED <<halted, ended, toHost>>
        \/ /\ queue # <<>> /\ queue' = Append(Tail(queue), r)
           /\ EndRequest(Head(queue), "dropped") /\ PostToHost(<<TxEvent(Head(queue), "dropped")>>)
        \/ EndRequest(r, new) /\ PostToHost(<<TxEvent(r, new)>>) /\ UNCHANGED queue
    BY Zenon DEF EnqueueTxRequest
  <2>2. new \in {"rejected", "dropped"}
    OBVIOUS
  <2> HIDE DEF r, new
  <2> QED
    BY <1>2, <1>4, <2>1, <2>2, Zenon
<1>6. /\ queue' \in Seq(Request)
      /\ Len(queue') = Len(queue) \/ (HasRoom /\ Len(queue') = Len(queue) + 1)
  <2>1. queue \in Seq(Request) /\ Len(queue) \in Nat
    BY LenProperties DEF AppType
  <2>2. Append(queue, r) \in Seq(Request) /\ Len(Append(queue, r)) = Len(queue) + 1
    BY <1>2, <2>1, AppendProperties
  <2>3. queue # <<>> => /\ Append(Tail(queue), r) \in Seq(Request)
                        /\ Len(Append(Tail(queue), r)) = Len(queue)
    BY <1>2, <1>4, <2>1, AppendProperties
  <2> HIDE DEF r, IInv, TypeOK
  <2> QED
    BY <1>5, <2>1, <2>2, <2>3, Zenon
<1>7. halted' \in BOOLEAN /\ ended' \in [Ids -> Nat] /\ toHost' \in Seq(HostCommandType)
  <2>1. CASE UNCHANGED <<halted, ended, toHost>>
    BY <2>1 DEF AppType, HostType, HistoryType
  <2>2. ASSUME NEW x \in Request, NEW state \in {"rejected", "dropped"},
               EndRequest(x, state), PostToHost(<<TxEvent(x, state)>>)
        PROVE  halted' \in BOOLEAN /\ ended' \in [Ids -> Nat] /\ toHost' \in Seq(HostCommandType)
    <3>1. <<TxEvent(x, state)>> \in Seq(HostCommandType)
      BY TxEventType, SmallSeqs
    <3> QED
      BY <2>2, <3>1, EndType, PostType DEF AppType, HostType, HistoryType
  <2> QED
    BY <1>5, <2>1, <2>2
<1>8. AppType' /\ IoType' /\ HostType' /\ HistoryType'
  BY <1>3, <1>6, <1>7, Frame DEF EnqueueTxRequest, AppType, HostType, HistoryType
<1>9. BatchInHand' /\ OneAtATime'
  BY <1>3 DEF EnqueueTxRequest, BatchInHand, OneAtATime
<1>10. QueueBound'
  <2>1. /\ Len(queue) \in Nat /\ Len(queue') \in Nat
        /\ ActiveCount \in Nat /\ ActiveCount' = ActiveCount + (Len(queue') - Len(queue))
    BY <1>6, LenProperties, CountQueue DEF AppType, EnqueueTxRequest
  <2> HIDE DEF IInv, TypeOK, r
  <2> QED
    BY <1>6, <2>1 DEF IInv, QueueBound, HasRoom
<1> QED
  BY <1>8, <1>9, <1>10

\* ApplyDone either completes the request that waits or changes nothing of it.
LEMMA ApplyDoneIInv ==
    ASSUME IInv, ApplyDone
    PROVE  IInv'
<1> USE DEF IInv, TypeOK
<1> DEFINE state == IF batch.done.ok THEN "completed" ELSE "failed"
<1>1. \/ /\ half # None /\ half' = None /\ EndRequest(half, state)
         /\ PostToHost(<<AwaitCompletion(None), TxEvent(half, state)>>)
      \/ UNCHANGED <<half, halted, ended, toHost>>
  BY Zenon DEF ApplyDone
<1> HIDE DEF state
<1>2. /\ half' \in {half, None} /\ halted' \in BOOLEAN /\ ended' \in [Ids -> Nat]
      /\ toHost' \in Seq(HostCommandType)
  <2>1. CASE UNCHANGED <<half, halted, ended, toHost>>
    BY <2>1 DEF AppType, HostType, HistoryType
  <2>2. CASE /\ half # None /\ half' = None /\ EndRequest(half, state)
             /\ PostToHost(<<AwaitCompletion(None), TxEvent(half, state)>>)
    <3>1. half \in Request
      BY <2>2 DEF AppType
    <3>2. <<AwaitCompletion(None), TxEvent(half, state)>> \in Seq(HostCommandType)
      BY <3>1, AwaitType, TxEventType, SmallSeqs
    <3> QED
      BY <2>2, <3>1, <3>2, EndType, PostType DEF AppType, HostType, HistoryType
  <2> QED
    BY <1>1, <2>1, <2>2
<1>3. AppType' /\ IoType' /\ HostType' /\ HistoryType'
  BY <1>2, Frame DEF ApplyDone, AppType, HostType, HistoryType
<1>4. BatchInHand' /\ OneAtATime'
  BY <1>2 DEF ApplyDone, BatchInHand, OneAtATime
<1>5. QueueBound'
  <2>1. UNCHANGED <<queue, write>> /\ Len(queue) \in Nat
    BY LenProperties DEF ApplyDone, AppType
  <2>2. CASE half' = half
    BY <2>1, <2>2 DEF QueueBound, ActiveCount
  <2>3. CASE half' = None /\ half # None
    <3>1. ActiveCount' = Len(queue) + (IF write = None THEN 0 ELSE 1) + 0
      BY <2>1, <2>3, Zenon DEF ActiveCount
    <3>2. ActiveCount = Len(queue) + (IF write = None THEN 0 ELSE 1) + 1
      BY <2>3, Zenon DEF ActiveCount
    <3> QED
      BY <2>1, <3>1, <3>2 DEF QueueBound
  <2> QED
    BY <1>2, <2>2, <2>3
<1> QED
  BY <1>3, <1>4, <1>5

LEMMA RejectIInv ==
    ASSUME IInv, Reject
    PROVE  IInv'
<1> USE DEF IInv, TypeOK
<1>1. /\ Head(queue) \in Request /\ Tail(queue) \in Seq(Request)
      /\ Len(queue) \in Nat /\ Len(Tail(queue)) = Len(queue) - 1
  BY HeadTailProperties DEF Reject, MaySend, AppType
<1>2. halted' \in BOOLEAN /\ ended' \in [Ids -> Nat]
  BY <1>1, EndType DEF Reject, AppType, HistoryType
<1>3. toHost' \in Seq(HostCommandType)
  BY <1>1, TxEventType, SmallSeqs, PostType DEF Reject, HostType
<1>4. AppType' /\ IoType' /\ HostType' /\ HistoryType'
  BY <1>1, <1>2, <1>3, Frame DEF Reject, AppType, HostType, HistoryType
<1>5. BatchInHand' /\ OneAtATime'
  BY DEF Reject, BatchInHand, OneAtATime
<1>6. QueueBound'
  <2>1. Len(queue) \in Nat /\ Len(queue') \in Nat /\ Len(queue') - Len(queue) = 0 - 1
    BY <1>1, <1>4, LenProperties DEF Reject
  <2> QED
    BY <2>1, CountQueue DEF Reject, QueueBound
<1> QED
  BY <1>4, <1>5, <1>6

LEMMA HandOverIInv ==
    ASSUME IInv, HandOver
    PROVE  IInv'
<1> USE DEF IInv, TypeOK
<1>1. /\ Head(queue) \in Request /\ Tail(queue) \in Seq(Request)
      /\ Len(queue) \in Nat /\ Len(Tail(queue)) = Len(queue) - 1
  BY HeadTailProperties DEF HandOver, MaySend, AppType
<1>2. AppType' /\ HostType'
  BY <1>1, Frame DEF HandOver, AppType
<1>3. IoType' /\ HistoryType'
  BY <1>1, AppendProperties DEF HandOver, IoType, HistoryType
<1>4. BatchInHand' /\ OneAtATime' /\ QueueBound'
  BY <1>1 DEF HandOver, MaySend, BatchInHand, OneAtATime, QueueBound, ActiveCount
<1> QED
  BY <1>2, <1>3, <1>4

LEMMA DrivenIInv ==
    ASSUME IInv, Driven
    PROVE  IInv'
<1> USE DEF IInv, TypeOK
<1>1. AppType' /\ IoType' /\ HostType' /\ HistoryType'
  BY Frame DEF Driven, AppType
<1>2. BatchInHand' /\ OneAtATime' /\ QueueBound'
  BY DEF Driven, BatchInHand, OneAtATime, QueueBound, ActiveCount
<1> QED
  BY <1>1, <1>2

LEMMA ClearedIInv ==
    ASSUME IInv, Cleared
    PROVE  IInv'
<1> USE DEF IInv, TypeOK
<1>1. AppType' /\ IoType'
  BY Frame DEF Cleared, AppType
<1>2. HostType'
  BY SmallSeqs DEF Cleared, HostType
<1>3. UnappliedIds \subseteq Ids
  <2>1. ASSUME NEW i \in DOMAIN fromHost, NEW j \in DOMAIN fromHost[i].requests
        PROVE  fromHost[i].requests[j].id \in Ids
    <3>1. fromHost[i] \in Batch
      BY ElementOfSeq, LenProperties DEF HostType
    <3>2. fromHost[i].requests \in Seq(Request)
      BY <3>1 DEF Batch
    <3>3. fromHost[i].requests[j] \in Request
      BY <3>2, ElementOfSeq, LenProperties
    <3> QED
      BY <3>3 DEF Request
  <2> QED
    BY <2>1 DEF UnappliedIds, QueuedIds
<1>4. HistoryType'
  BY <1>3 DEF Cleared, HistoryType
<1>5. BatchInHand' /\ OneAtATime' /\ QueueBound'
  BY DEF Cleared, BatchInHand, OneAtATime, QueueBound, ActiveCount
<1> QED
  BY <1>1, <1>2, <1>4, <1>5

LEMMA RequestTimesOutIInv ==
    ASSUME IInv, RequestTimesOut
    PROVE  IInv'
<1> USE DEF IInv, TypeOK
<1>1. half \in Request /\ half # None /\ half' = None /\ write = None /\ write' = None
  BY DEF RequestTimesOut, AppType, OneAtATime
<1>2. toHost' \in Seq(HostCommandType)
  <2>1. TimeoutCommands(half) \in Seq(HostCommandType)
    BY <1>1, AwaitType, TxEventType, SmallSeqs DEF TimeoutCommands
  <2> QED
    BY <2>1, PostType DEF RequestTimesOut, HostType
<1>3. /\ queue' \in Seq(Request) /\ halted' \in BOOLEAN /\ ended' \in [Ids -> Nat]
      /\ Len(queue') \in {Len(queue), Len(queue) + 1}
  <2>1. CASE MayRetry(half)
    <3> DEFINE r == [half EXCEPT !.attempt = @ + 1]
    <3>1. r \in Request
      BY <1>1, <2>1 DEF MayRetry, Request
    <3>2. queue' = <<r>> \o queue /\ UNCHANGED <<halted, ended>>
      BY <2>1 DEF RequestTimesOut, RetryQueue
    <3> HIDE DEF r
    <3>3. <<r>> \o queue \in Seq(Request) /\ Len(<<r>> \o queue) = 1 + Len(queue)
      BY <3>1, SmallSeqs, ConcatProperties DEF AppType
    <3> QED
      BY <3>2, <3>3, LenProperties DEF AppType, HistoryType
  <2>2. CASE ~MayRetry(half)
    BY <1>1, <2>2, EndType DEF RequestTimesOut, AppType, HistoryType
  <2> QED
    BY <2>1, <2>2
<1>4. AppType' /\ IoType' /\ HostType' /\ HistoryType'
  BY <1>1, <1>2, <1>3, Frame DEF RequestTimesOut, AppType, HostType, HistoryType
<1>5. BatchInHand' /\ OneAtATime'
  BY <1>1 DEF RequestTimesOut, BatchInHand, OneAtATime
<1>6. QueueBound'
  <2>1. Len(queue) \in Nat
    BY LenProperties DEF AppType
  <2> QED
    BY <1>1, <1>3, <2>1 DEF QueueBound, ActiveCount
<1> QED
  BY <1>4, <1>5, <1>6

-----------------------------------------------------------------------------
(* The worker.                                                              *)

LEMMA TakeIInv ==
    ASSUME IInv, Take
    PROVE  IInv'
<1> USE DEF IInv, TypeOK
<1>1. UNCHANGED appVars /\ AppType' /\ IoType' /\ HistoryType'
  BY Frame DEF Take
<1>2. HostType'
  BY HeadTailProperties DEF Take, HostType
<1> QED
  BY <1>1, <1>2, StillIInv DEF appVars

LEMMA RunAwaitIInv ==
    ASSUME IInv, RunAwait
    PROVE  IInv'
<1> USE DEF IInv, TypeOK
<1>1. UNCHANGED appVars /\ AppType' /\ IoType' /\ HistoryType'
  BY Frame DEF RunAwait
<1>2. HostType'
  BY DEF RunAwait, HostType, HostCommandType
<1> QED
  BY <1>1, <1>2, StillIInv DEF appVars

\* The requests of a callback get the ids after those that were issued.
LEMMA RequestsType ==
    ASSUME NEW kinds \in Seq(Kinds), issued \in 0..MaxRequests,
           issued + Len(kinds) <= MaxRequests
    PROVE  Requests(kinds) \in Seq(Request)
<1>1. Len(kinds) \in Nat /\ DOMAIN kinds = 1..Len(kinds)
  BY LenProperties
<1>2. MaxRequests \in Nat /\ MaxAttempts \in Nat \ {0}
  BY TxAssumption
<1>3. ASSUME NEW i \in 1..Len(kinds)
      PROVE  [id |-> issued + i, kind |-> kinds[i], attempt |-> 1] \in Request
  <2>1. issued + i \in Ids
    BY <1>1, <1>2 DEF Ids
  <2>2. kinds[i] \in Kinds
    BY ElementOfSeq
  <2> QED
    BY <1>2, <2>1, <2>2 DEF Request
<1>4. Requests(kinds) \in [1..Len(kinds) -> Request]
  BY <1>1, <1>3 DEF Requests
<1> QED
  BY <1>1, <1>4, SeqDef

LEMMA RunCallbackIInv ==
    ASSUME IInv, NEW kinds \in Bursts, NEW reset \in BOOLEAN, NEW done \in Dones,
           RunCallback(kinds, reset, done)
    PROVE  IInv'
<1> USE DEF IInv, TypeOK
<1>1. UNCHANGED appVars /\ AppType' /\ IoType'
  BY Frame DEF RunCallback
<1>2. kinds \in Seq(Kinds)
  BY SeqDef DEF Bursts
<1>3. done \in Done \cup {None}
  BY DEF Dones, Done, HostType
<1>4. Requests(kinds) \in Seq(Request)
  BY <1>2, RequestsType DEF RunCallback, HistoryType
<1>5. HostType'
  <2>1. [reset |-> reset, requests |-> Requests(kinds), done |-> done] \in Batch
    BY <1>3, <1>4 DEF Batch
  <2>2. fromHost' \in Seq(Batch)
    BY <2>1, AppendProperties DEF RunCallback, HostType
  <2>3. toHost' \in Seq(HostCommandType)
    BY PickProperties DEF RunCallback, HostType
  <2> QED
    BY <2>2, <2>3 DEF RunCallback, HostType
<1>6. HistoryType'
  <2>1. issued' \in 0..MaxRequests
    <3> HIDE DEF IInv, TypeOK
    <3>1. Len(kinds) \in Nat
      BY <1>2, LenProperties
    <3>2. issued \in Nat /\ MaxRequests \in Nat
      BY TxAssumption DEF IInv, TypeOK, HistoryType, TxAssumption
    <3>3. issued' = issued + Len(kinds) /\ issued + Len(kinds) <= MaxRequests
      BY DEF RunCallback
    <3> HIDE DEF RunCallback
    <3> QED
      BY <3>1, <3>2, <3>3
  <2>2. doneFor' \subseteq AttemptId
    BY <1>3 DEF RunCallback, HistoryType, Done
  <2>3. used' \in [opens : Nat, drops : Nat, resets : Nat]
    <3> DEFINE n == IF reset THEN 1 ELSE 0
    <3>1. n \in {0, 1}
      OBVIOUS
    <3>2. used' = [used EXCEPT !.resets = @ + n]
      BY DEF RunCallback
    <3> HIDE DEF n
    <3> QED
      BY <3>1, <3>2, UsedType DEF HistoryType
  <2> QED
    BY <2>1, <2>2, <2>3 DEF RunCallback, HistoryType
<1> QED
  BY <1>1, <1>5, <1>6, StillIInv DEF appVars

-----------------------------------------------------------------------------
(* The theorems.                                                            *)

LEMMA NextIInv ==
    ASSUME IInv, [Next]_vars
    PROVE  IInv'
<1>1. CASE Environment
  BY <1>1, OpenIInv, CloseIInv, OtherEnvironmentIInv DEF Environment
<1>2. CASE IoThread
  BY <1>2, WriteIInv DEF IoThread
<1>3. CASE Worker
  BY <1>3, TakeIInv, RunAwaitIInv, RunCallbackIInv DEF Worker
<1>4. CASE Pull
  BY <1>4, PullIInv
<1>5. CASE ProcessEvent
  BY <1>5, PassEventIInv, ProcessCloseIInv, ProcessSentIInv, ProcessWriteResultIInv,
     IgnoreResultIInv DEF ProcessEvent
<1>6. CASE BeginBatch
  BY <1>6, BeginBatchIInv
<1>7. CASE Handler
  BY <1>7, EnqueueIInv, ApplyDoneIInv, RejectIInv, HandOverIInv, DrivenIInv, ClearedIInv
     DEF Handler
<1>8. CASE RequestTimesOut
  BY <1>8, RequestTimesOutIInv
<1>9. CASE UNCHANGED vars
  <2>1. AppType' /\ IoType' /\ HostType' /\ HistoryType'
    BY <1>9, Frame DEF vars, IInv, TypeOK
  <2> QED
    BY <1>9, <2>1, StillIInv DEF vars, appVars, TypeOK
<1> QED
  BY <1>1, <1>2, <1>3, <1>4, <1>5, <1>6, <1>7, <1>8, <1>9 DEF Next, Quiet

LEMMA SpecIInv == Spec => []IInv
BY InitIInv, NextIInv, PTL DEF Spec

\* Every variable of the scheduler, the transport and the worker keeps its type:
\* in particular no request is made up, and no attempt exceeds max_attempts.
THEOREM TypeCorrect == Spec => []TypeOK
BY SpecIInv, PTL DEF IInv

\* The bound of enqueueTxRequest covers the requests in progress as well, and
\* the retry that processRequestTimeouts puts back in front does not exceed it.
THEOREM QueueBounded == Spec => []QueueBound
BY SpecIInv, PTL DEF IInv

\* The transport never has a write of the scheduler while a request waits for
\* its answer: activeWrite_ and activeHalfDuplexRequest_ exclude each other.
THEOREM HalfDuplex == Spec => []OneAtATime
BY SpecIInv, PTL DEF IInv

\* Only driveTxScheduler hands a request to the transport, and it refuses a
\* guarded one while the guard is halted.
LEMMA HoldsBackStep ==
    ASSUME IInv, Next, wire' # wire, halted
    PROVE  wire'[Len(wire')].kind # "guarded"
<1> USE DEF appVars, ioVars, hostVars, history
<1>1. HandOver
  <2>1. ~Environment /\ ~IoThread /\ ~Worker
    BY DEF Environment, IoThread, Worker, OpenTransport, CloseTransport, Receive, ReadFails,
           PeerLost, PeerAccepted, PostCall, Write, Take, RunAwait, RunCallback
  <2>2. ~Pull /\ ~ProcessEvent /\ ~BeginBatch /\ ~RequestTimesOut /\ ~Quiet
    BY DEF Pull, ProcessEvent, PassEvent, ProcessClose, ProcessSent, ProcessWriteResult,
           IgnoreResult, BeginBatch, RequestTimesOut, Quiet, vars
  <2>3. ~EnqueueTxRequest /\ ~ApplyDone /\ ~Reject /\ ~Driven /\ ~Cleared
    BY DEF EnqueueTxRequest, ApplyDone, Reject, Driven, Cleared
  <2> QED
    BY <2>1, <2>2, <2>3 DEF Next, Handler
<1>2. Head(queue).kind # "guarded"
  BY <1>1 DEF HandOver, HeadRejected
<1>3. wire'[Len(wire')] = Head(queue)
  BY <1>1, HeadTailProperties, AppendProperties
     DEF HandOver, MaySend, IInv, TypeOK, AppType, HistoryType
<1> QED
  BY <1>2, <1>3

\* While the guard is halted no guarded request reaches the transport, even one
\* queued before the failure that halted it.
THEOREM GuardHoldsBack == Spec => HaltedGuardHoldsBack
<1>1. IInv /\ [Next]_vars => [wire' # wire /\ halted => wire'[Len(wire')].kind # "guarded"]_vars
  BY HoldsBackStep DEF vars, history
<1> QED
  BY <1>1, SpecIInv, PTL DEF Spec, HaltedGuardHoldsBack
-----------------------------------------------------------------------------
(* What is in a sequence, and what its elements are to those behind them.   *)

Items(q) == {q[i] : i \in 1 .. Len(q)}
Ordered(q, R) == \A i, j \in 1 .. Len(q) : i < j => <<q[i], q[j]>> \in R

LEMMA EmptyItems == ASSUME NEW R PROVE Items(<<>>) = {} /\ Ordered(<<>>, R)
BY DEF Items, Ordered

LEMMA OneItem ==
    ASSUME NEW x, NEW R
    PROVE  Items(<<x>>) = {x} /\ Ordered(<<x>>, R)
<1>1. Len(<<x>>) = 1 /\ <<x>>[1] = x
  OBVIOUS
<1>2. \A i, j \in 1 .. 1 : i = 1 /\ ~(i < j)
  OBVIOUS
<1> QED
  BY <1>1, <1>2 DEF Items, Ordered

LEMMA ConcatItems ==
    ASSUME NEW S, NEW q \in Seq(S), NEW c \in Seq(S), NEW R
    PROVE  /\ Items(q \o c) = Items(q) \cup Items(c)
           /\ Ordered(q, R) /\ Ordered(c, R) /\ (\A x \in Items(q), y \in Items(c) : <<x, y>> \in R)
                 => Ordered(q \o c, R)
<1> DEFINE d == q \o c
           n == Len(q)
<1>1. /\ n \in Nat /\ Len(c) \in Nat /\ Len(d) = n + Len(c)
      /\ \A i \in 1 .. Len(d) : d[i] = IF i <= n THEN q[i] ELSE c[i - n]
  BY ConcatProperties, LenProperties
<1> HIDE DEF d, n
<1>2. \A i \in 1 .. Len(d) :
         \/ i \in 1 .. n /\ d[i] = q[i]
         \/ i > n /\ i - n \in 1 .. Len(c) /\ d[i] = c[i - n]
  BY <1>1
<1>3. \A i \in 1 .. n : i \in 1 .. Len(d) /\ d[i] = q[i] /\ q[i] \in Items(q)
  BY <1>1 DEF Items, n
<1>4. \A i \in 1 .. Len(c) : i + n \in 1 .. Len(d) /\ d[i + n] = c[i] /\ c[i] \in Items(c)
  <2> SUFFICES ASSUME NEW i \in 1 .. Len(c)
               PROVE  i + n \in 1 .. Len(d) /\ d[i + n] = c[i] /\ c[i] \in Items(c)
    OBVIOUS
  <2>1. i + n \in 1 .. Len(d) /\ ~(i + n <= n) /\ (i + n) - n = i
    BY <1>1
  <2> QED
    BY <1>1, <2>1 DEF Items
<1>5. ASSUME NEW x PROVE x \in Items(d) <=> x \in Items(q) \cup Items(c)
  <2>1. x \in Items(d) => x \in Items(q) \cup Items(c)
    BY <1>2, <1>3 DEF Items
  <2>2. x \in Items(q) => x \in Items(d)
    BY <1>3 DEF Items, n
  <2>3. x \in Items(c) => x \in Items(d)
    <3> HAVE x \in Items(c)
    <3>1. PICK i \in 1 .. Len(c) : x = c[i]
      BY DEF Items
    <3>2. i + n \in 1 .. Len(d) /\ d[i + n] = x
      BY <1>4, <3>1
    <3> QED
      BY <3>2 DEF Items
  <2> QED
    BY <2>1, <2>2, <2>3
<1>6. ASSUME Ordered(q, R), Ordered(c, R), \A x \in Items(q), y \in Items(c) : <<x, y>> \in R,
             NEW i \in 1 .. Len(d), NEW j \in 1 .. Len(d), i < j
      PROVE  <<d[i], d[j]>> \in R
  <2>0. i \in Nat /\ j \in Nat /\ i >= 1 /\ j >= 1
    BY <1>1
  <2>1. CASE i \in 1 .. n /\ j \in 1 .. n
    BY <1>3, <1>6, <2>1 DEF Ordered, n
  <2>2. CASE i \in 1 .. n /\ j > n
    <3>1. j - n \in 1 .. Len(c) /\ d[j] = c[j - n]
      BY <1>1, <1>2, <2>2
    <3>2. d[j] \in Items(c)
      BY <3>1 DEF Items
    <3> QED
      BY <1>3, <1>6, <2>2, <3>2
  <2>3. CASE i > n /\ j > n
    <3>1. /\ i - n \in 1 .. Len(c) /\ d[i] = c[i - n]
          /\ j - n \in 1 .. Len(c) /\ d[j] = c[j - n]
      <4>1. i \notin 1 .. n /\ j \notin 1 .. n
        BY <1>1, <2>3
      <4> QED
        BY <1>2, <4>1
    <3>2. i - n < j - n
      BY <1>1, <1>6, <2>0
    <3> QED
      BY <1>6, <3>1, <3>2 DEF Ordered
  <2>4. ~(i > n /\ ~(j > n))
    BY <1>1, <1>6, <2>0
  <2>5. (i \in 1 .. n \/ i > n) /\ (j \in 1 .. n \/ j > n)
    BY <1>1, <2>0
  <2> QED
    BY <2>1, <2>2, <2>3, <2>4, <2>5
<1>7. Items(d) = Items(q) \cup Items(c)
  BY <1>5
<1>8. Ordered(q, R) /\ Ordered(c, R) /\ (\A x \in Items(q), y \in Items(c) : <<x, y>> \in R)
         => Ordered(d, R)
  BY <1>6 DEF Ordered
<1> QED
  BY <1>7, <1>8 DEF d

LEMMA AppendItems ==
    ASSUME NEW S, NEW q \in Seq(S), NEW x \in S, NEW R
    PROVE  /\ Append(q, x) \in Seq(S) /\ Items(Append(q, x)) = Items(q) \cup {x}
           /\ Ordered(q, R) /\ (\A y \in Items(q) : <<y, x>> \in R) => Ordered(Append(q, x), R)
<1>1. Append(q, x) = q \o <<x>> /\ <<x>> \in Seq(S) /\ Append(q, x) \in Seq(S)
  BY AppendIsConcat, AppendProperties
<1>2. Items(<<x>>) = {x} /\ Ordered(<<x>>, R)
  BY OneItem
<1> DEFINE c == <<x>>
<1> HIDE DEF c
<1>3. /\ Items(q \o c) = Items(q) \cup Items(c)
      /\ Ordered(q, R) /\ Ordered(c, R) /\ (\A y \in Items(q), z \in Items(c) : <<y, z>> \in R)
            => Ordered(q \o c, R)
  BY <1>1, ConcatItems DEF c
<1> QED
  BY <1>1, <1>2, <1>3 DEF c

LEMMA HeadItems ==
    ASSUME NEW S, NEW q \in Seq(S), q # <<>>, NEW R
    PROVE  /\ Head(q) \in S /\ Tail(q) \in Seq(S) /\ Items(q) = {Head(q)} \cup Items(Tail(q))
           /\ Ordered(q, R) => Ordered(Tail(q), R) /\ \A x \in Items(Tail(q)) : <<Head(q), x>> \in R
<1> DEFINE t == Tail(q)
<1>1. /\ Head(q) \in S /\ t \in Seq(S) /\ Len(q) \in Nat \ {0}
      /\ Len(t) = Len(q) - 1 /\ Len(t) \in Nat
      /\ \A i \in 1 .. Len(t) : t[i] = q[i + 1]
      /\ Head(q) = q[1]
  BY HeadTailProperties, EmptySeq, LenProperties
<1> HIDE DEF t
<1>2. \A i \in 1 .. Len(t) : i + 1 \in 1 .. Len(q) /\ t[i] = q[i + 1] /\ 1 < i + 1
  BY <1>1
<1>3. \A i \in 1 .. Len(q) : i = 1 \/ (i - 1 \in 1 .. Len(t) /\ q[i] = t[i - 1])
  <2> SUFFICES ASSUME NEW i \in 1 .. Len(q), i # 1
               PROVE  i - 1 \in 1 .. Len(t) /\ q[i] = t[i - 1]
    OBVIOUS
  <2>1. i - 1 \in 1 .. Len(t) /\ (i - 1) + 1 = i
    BY <1>1
  <2> QED
    BY <1>1, <2>1
<1>4. 1 \in 1 .. Len(q)
  BY <1>1
<1>5. ASSUME NEW x PROVE x \in Items(q) <=> x \in {Head(q)} \cup Items(t)
  <2>1. x \in Items(q) => x \in {Head(q)} \cup Items(t)
    BY <1>1, <1>3 DEF Items
  <2>2. Head(q) \in Items(q)
    BY <1>1, <1>4 DEF Items
  <2>3. x \in Items(t) => x \in Items(q)
    BY <1>2 DEF Items
  <2> QED
    BY <2>1, <2>2, <2>3
<1>6. ASSUME Ordered(q, R) PROVE Ordered(t, R) /\ \A x \in Items(t) : <<Head(q), x>> \in R
  <2>1. ASSUME NEW i \in 1 .. Len(t), NEW j \in 1 .. Len(t), i < j PROVE <<t[i], t[j]>> \in R
    <3>1. i + 1 < j + 1
      BY <2>1
    <3> QED
      BY <1>2, <1>6, <2>1, <3>1 DEF Ordered
  <2>2. \A i \in 1 .. Len(t) : <<Head(q), t[i]>> \in R
    BY <1>1, <1>2, <1>4, <1>6 DEF Ordered
  <2> QED
    BY <2>1, <2>2 DEF Ordered, Items
<1> QED
  BY <1>1, <1>5, <1>6 DEF t

-----------------------------------------------------------------------------
(* Requests, events and batches.                                            *)

Before(A, B) == \A a \in A, b \in B : a < b
IdOf(r) == IF r = None THEN {} ELSE {r.id}

Sooner == {p \in Request \X Request : p[1].id < p[2].id}
Unlike == {p \in Request \X Request : p[1].id # p[2].id}
Apart == {p \in EventType \X EventType : p[1].op = "tx" /\ p[2].op = "tx" => p[1].for.id # p[2].for.id}
InTurn == {p \in Batch \X Batch : Before(QueuedIds(p[1].requests), QueuedIds(p[2].requests))}

Reports(q) == {e \in Items(q) : e.op = "tx"}
About(E) == {e.for.id : e \in E}
Carried(f) == UNION {QueuedIds(b.requests) : b \in Items(f)}

LEMMA Ids_Items ==
    ASSUME NEW q \in Seq(Request)
    PROVE  Items(q) \subseteq Request /\ QueuedIds(q) = {r.id : r \in Items(q)}
<1>1. DOMAIN q = 1 .. Len(q)
  BY LenProperties
<1>2. \A i \in 1 .. Len(q) : q[i] \in Request
  BY ElementOfSeq
<1> QED
  BY <1>1, <1>2 DEF QueuedIds, Items

LEMMA NoRequests ==
    /\ <<>> \in Seq(Request) /\ QueuedIds(<<>>) = {} /\ Items(<<>>) = {}
    /\ Ordered(<<>>, Sooner) /\ Ordered(<<>>, Unlike)
<1>1. QueuedIds(<<>>) = {}
  BY DEF QueuedIds
<1> QED
  BY <1>1, EmptyItems, SmallSeqs

\* A request at the end.
LEMMA IdsAppend ==
    ASSUME NEW q \in Seq(Request), NEW r \in Request
    PROVE  /\ Append(q, r) \in Seq(Request) /\ Items(Append(q, r)) = Items(q) \cup {r}
           /\ QueuedIds(Append(q, r)) = QueuedIds(q) \cup {r.id}
           /\ Ordered(q, Sooner) /\ Before(QueuedIds(q), {r.id}) => Ordered(Append(q, r), Sooner)
           /\ Ordered(q, Unlike) /\ r.id \notin QueuedIds(q) => Ordered(Append(q, r), Unlike)
<1>1. \A R : /\ Append(q, r) \in Seq(Request) /\ Items(Append(q, r)) = Items(q) \cup {r}
             /\ Ordered(q, R) /\ (\A x \in Items(q) : <<x, r>> \in R) => Ordered(Append(q, r), R)
  BY AppendItems
<1>2. /\ QueuedIds(q) = {x.id : x \in Items(q)} /\ Items(q) \subseteq Request
      /\ QueuedIds(Append(q, r)) = {x.id : x \in Items(Append(q, r))}
  BY <1>1, Ids_Items
<1>3. Before(QueuedIds(q), {r.id}) => \A x \in Items(q) : <<x, r>> \in Sooner
  BY <1>2 DEF Before, Sooner
<1>4. r.id \notin QueuedIds(q) => \A x \in Items(q) : <<x, r>> \in Unlike
  BY <1>2 DEF Unlike
<1> QED
  BY <1>1, <1>2, <1>3, <1>4

\* The request in front, and those behind it.
LEMMA IdsHead ==
    ASSUME NEW q \in Seq(Request), q # <<>>
    PROVE  /\ Head(q) \in Request /\ Tail(q) \in Seq(Request) /\ Items(q) = {Head(q)} \cup Items(Tail(q))
           /\ QueuedIds(q) = {Head(q).id} \cup QueuedIds(Tail(q))
           /\ Ordered(q, Sooner) => Ordered(Tail(q), Sooner) /\ Before({Head(q).id}, QueuedIds(Tail(q)))
           /\ Ordered(q, Unlike) => Ordered(Tail(q), Unlike) /\ Head(q).id \notin QueuedIds(Tail(q))
<1> DEFINE h == Head(q)
           t == Tail(q)
<1>1. /\ h \in Request /\ t \in Seq(Request) /\ Items(q) = {h} \cup Items(t)
      /\ Ordered(q, Sooner) => Ordered(t, Sooner) /\ \A x \in Items(t) : <<h, x>> \in Sooner
  BY HeadItems
<1>2. Ordered(q, Unlike) => Ordered(t, Unlike) /\ \A x \in Items(t) : <<h, x>> \in Unlike
  BY HeadItems
<1>3. /\ QueuedIds(q) = {x.id : x \in Items(q)} /\ Items(t) \subseteq Request
      /\ QueuedIds(t) = {x.id : x \in Items(t)}
  BY <1>1, Ids_Items
<1> HIDE DEF h, t
<1>4. Ordered(q, Sooner) => Before({h.id}, QueuedIds(t))
  <2>1. \A x : <<h, x>> \in Sooner => h.id < x.id
    BY DEF Sooner
  <2> QED
    BY <1>1, <1>3, <2>1 DEF Before
<1>5. ASSUME Ordered(q, Unlike) PROVE h.id \notin QueuedIds(t)
  <2>1. \A x : <<h, x>> \in Unlike => h.id # x.id
    BY DEF Unlike
  <2>2. \A x \in Items(t) : h.id # x.id
    BY <1>2, <1>5, <2>1
  <2> QED
    BY <1>3, <2>2
<1> QED
  BY <1>1, <1>2, <1>3, <1>4, <1>5 DEF h, t

\* A request put back in front.
LEMMA IdsFront ==
    ASSUME NEW q \in Seq(Request), NEW r \in Request
    PROVE  /\ <<r>> \o q \in Seq(Request) /\ Items(<<r>> \o q) = {r} \cup Items(q)
           /\ QueuedIds(<<r>> \o q) = {r.id} \cup QueuedIds(q)
           /\ Ordered(q, Sooner) /\ Before({r.id}, QueuedIds(q)) => Ordered(<<r>> \o q, Sooner)
<1> DEFINE c == <<r>>
<1>1. c \in Seq(Request) /\ Items(c) = {r} /\ Ordered(c, Sooner)
  BY OneItem, SmallSeqs
<1> HIDE DEF c
<1>2. /\ c \o q \in Seq(Request) /\ Items(c \o q) = Items(c) \cup Items(q)
      /\ Ordered(c, Sooner) /\ Ordered(q, Sooner) /\ (\A x \in Items(c), y \in Items(q) : <<x, y>> \in Sooner)
            => Ordered(c \o q, Sooner)
  BY <1>1, ConcatItems, ConcatProperties
<1>3. /\ QueuedIds(q) = {x.id : x \in Items(q)} /\ Items(q) \subseteq Request
      /\ QueuedIds(c \o q) = {x.id : x \in Items(c \o q)}
  BY <1>2, Ids_Items
<1>4. Before({r.id}, QueuedIds(q)) => \A x \in Items(c), y \in Items(q) : <<x, y>> \in Sooner
  BY <1>1, <1>3 DEF Before, Sooner
<1> QED
  BY <1>1, <1>2, <1>3, <1>4 DEF c

LEMMA EventItems ==
    ASSUME NEW q \in Seq(EventType)
    PROVE  Items(q) \subseteq EventType
<1>1. \A i \in 1 .. Len(q) : q[i] \in EventType
  BY ElementOfSeq
<1> QED
  BY <1>1 DEF Items

LEMMA NoEvents == Items(<<>>) = {} /\ Reports(<<>>) = {} /\ Ordered(<<>>, Apart)
BY EmptyItems DEF Reports

\* Events after others.
LEMMA EventsConcat ==
    ASSUME NEW q \in Seq(EventType), NEW c \in Seq(EventType)
    PROVE  /\ Items(q \o c) = Items(q) \cup Items(c)
           /\ Reports(q \o c) = Reports(q) \cup Reports(c)
           /\ Ordered(q, Apart) /\ Ordered(c, Apart) /\ About(Reports(q)) \cap About(Reports(c)) = {}
                 => Ordered(q \o c, Apart)
<1>1. /\ Items(q \o c) = Items(q) \cup Items(c)
      /\ Ordered(q, Apart) /\ Ordered(c, Apart) /\ (\A x \in Items(q), y \in Items(c) : <<x, y>> \in Apart)
            => Ordered(q \o c, Apart)
  BY ConcatItems
<1>2. Items(q) \subseteq EventType /\ Items(c) \subseteq EventType
  BY EventItems
<1>3. ASSUME About(Reports(q)) \cap About(Reports(c)) = {}, NEW x \in Items(q), NEW y \in Items(c)
      PROVE  <<x, y>> \in Apart
  <2>1. ASSUME x.op = "tx", y.op = "tx" PROVE x.for.id # y.for.id
    <3>1. x.for.id \in About(Reports(q)) /\ y.for.id \in About(Reports(c))
      BY <2>1 DEF About, Reports
    <3> QED
      BY <1>3, <3>1
  <2> QED
    BY <1>2, <2>1 DEF Apart
<1> QED
  BY <1>1, <1>3 DEF Reports

\* An event at the end.
LEMMA EventsAppend ==
    ASSUME NEW q \in Seq(EventType), NEW e \in EventType
    PROVE  /\ Items(Append(q, e)) = Items(q) \cup {e}
           /\ Reports(Append(q, e)) = Reports(q) \cup (IF e.op = "tx" THEN {e} ELSE {})
           /\ Ordered(q, Apart) /\ (e.op = "tx" => e.for.id \notin About(Reports(q)))
                 => Ordered(Append(q, e), Apart)
<1>1. /\ Items(Append(q, e)) = Items(q) \cup {e}
      /\ Ordered(q, Apart) /\ (\A x \in Items(q) : <<x, e>> \in Apart) => Ordered(Append(q, e), Apart)
  BY AppendItems
<1>2. Items(q) \subseteq EventType
  BY EventItems
<1>3. ASSUME e.op = "tx" => e.for.id \notin About(Reports(q)), NEW x \in Items(q)
      PROVE  <<x, e>> \in Apart
  <2>1. x.op = "tx" => x.for.id \in About(Reports(q))
    BY DEF About, Reports
  <2> QED
    BY <1>2, <1>3, <2>1 DEF Apart
<1> QED
  BY <1>1, <1>3 DEF Reports

\* The event in front, and those behind it.
LEMMA EventsHead ==
    ASSUME NEW q \in Seq(EventType), q # <<>>
    PROVE  /\ Head(q) \in EventType /\ Items(q) = {Head(q)} \cup Items(Tail(q))
           /\ Reports(q) = Reports(Tail(q)) \cup (IF Head(q).op = "tx" THEN {Head(q)} ELSE {})
           /\ Ordered(q, Apart) => /\ Ordered(Tail(q), Apart)
                                   /\ Head(q).op = "tx" => Head(q).for.id \notin About(Reports(Tail(q)))
<1>1. /\ Head(q) \in EventType /\ Items(q) = {Head(q)} \cup Items(Tail(q))
      /\ Ordered(q, Apart) => /\ Ordered(Tail(q), Apart)
                              /\ \A x \in Items(Tail(q)) : <<Head(q), x>> \in Apart
  BY HeadItems
<1>2. ASSUME Ordered(q, Apart), Head(q).op = "tx" PROVE Head(q).for.id \notin About(Reports(Tail(q)))
  <2>1. \A x \in Reports(Tail(q)) : x.for.id # Head(q).for.id
    BY <1>1, <1>2 DEF Reports, Apart
  <2> QED
    BY <2>1 DEF About
<1> QED
  BY <1>1, <1>2 DEF Reports

\* The received bytes among events.
LEMMA EventsReceived ==
    ASSUME NEW q \in Seq(EventType)
    PROVE  LET p == Pick(q, {i \in DOMAIN q : q[i].op = "rx"})
           IN  Reports(p) = {} /\ Ordered(p, Apart) /\ p \in Seq(EventType) /\ Items(p) \subseteq Items(q)
<1> DEFINE S == {i \in DOMAIN q : q[i].op = "rx"}
           p == Pick(q, S)
<1>1. /\ p \in Seq(EventType) /\ Len(p) = Cardinality(S)
      /\ \A i \in 1 .. Cardinality(S) : p[i] = q[Nth(S, i)] /\ Nth(S, i) \in S
  BY PickProperties
<1>2. DOMAIN q = 1 .. Len(q)
  BY LenProperties
<1> HIDE DEF p
<1>3. \A i \in 1 .. Len(p) : p[i].op = "rx" /\ p[i] \in Items(q)
  BY <1>1, <1>2 DEF Items
<1>4. Reports(p) = {} /\ Items(p) \subseteq Items(q)
  BY <1>3 DEF Reports, Items
<1>5. \A i \in 1 .. Len(p) : p[i] \in EventType
  BY <1>1, ElementOfSeq
<1>6. Ordered(p, Apart)
  BY <1>3, <1>5 DEF Ordered, Apart
<1> QED
  BY <1>1, <1>4, <1>6 DEF p

LEMMA BatchItems ==
    ASSUME NEW f \in Seq(Batch)
    PROVE  Items(f) \subseteq Batch
<1>1. \A i \in 1 .. Len(f) : f[i] \in Batch
  BY ElementOfSeq
<1> QED
  BY <1>1 DEF Items

LEMMA BatchesAppend ==
    ASSUME NEW f \in Seq(Batch), NEW b \in Batch
    PROVE  /\ Items(Append(f, b)) = Items(f) \cup {b}
           /\ Carried(Append(f, b)) = Carried(f) \cup QueuedIds(b.requests)
           /\ Ordered(f, InTurn) /\ Before(Carried(f), QueuedIds(b.requests))
                 => Ordered(Append(f, b), InTurn)
<1>1. /\ Items(Append(f, b)) = Items(f) \cup {b}
      /\ Ordered(f, InTurn) /\ (\A x \in Items(f) : <<x, b>> \in InTurn) => Ordered(Append(f, b), InTurn)
  BY AppendItems
<1>2. Items(f) \subseteq Batch
  BY BatchItems
<1>3. ASSUME Before(Carried(f), QueuedIds(b.requests)), NEW x \in Items(f)
      PROVE  <<x, b>> \in InTurn
  BY <1>2, <1>3 DEF InTurn, Before, Carried
<1> QED
  BY <1>1, <1>3 DEF Carried

LEMMA BatchesHead ==
    ASSUME NEW f \in Seq(Batch), f # <<>>
    PROVE  /\ Head(f) \in Batch /\ Tail(f) \in Seq(Batch) /\ Items(f) = {Head(f)} \cup Items(Tail(f))
           /\ Carried(f) = QueuedIds(Head(f).requests) \cup Carried(Tail(f))
           /\ Ordered(f, InTurn) => /\ Ordered(Tail(f), InTurn)
                                    /\ Before(QueuedIds(Head(f).requests), Carried(Tail(f)))
<1>1. /\ Head(f) \in Batch /\ Tail(f) \in Seq(Batch) /\ Items(f) = {Head(f)} \cup Items(Tail(f))
      /\ Ordered(f, InTurn) => /\ Ordered(Tail(f), InTurn)
                               /\ \A x \in Items(Tail(f)) : <<Head(f), x>> \in InTurn
  BY HeadItems
<1>2. ASSUME Ordered(f, InTurn) PROVE Before(QueuedIds(Head(f).requests), Carried(Tail(f)))
  <2>1. \A x, y : <<x, y>> \in InTurn => Before(QueuedIds(x.requests), QueuedIds(y.requests))
    BY DEF InTurn
  <2>2. \A y \in Items(Tail(f)) : Before(QueuedIds(Head(f).requests), QueuedIds(y.requests))
    BY <1>1, <1>2, <2>1
  <2> QED
    BY <2>2 DEF Before, Carried
<1> QED
  BY <1>1, <1>2 DEF Carried

\* The requests of a callback are numbered on from those that were made.
\* What comes before a set is not in it.
LEMMA NotBoth ==
    ASSUME NEW A, NEW B, Before(A, B), NEW x \in Nat, x \in A
    PROVE  x \notin B
  BY DEF Before

LEMMA NewRequests ==
    ASSUME NEW kinds \in Seq(Kinds), issued \in 0 .. MaxRequests, issued + Len(kinds) <= MaxRequests
    PROVE  /\ Requests(kinds) \in Seq(Request) /\ Len(kinds) \in Nat
           /\ QueuedIds(Requests(kinds)) = (issued + 1) .. (issued + Len(kinds))
           /\ Ordered(Requests(kinds), Sooner)
<1> DEFINE q == Requests(kinds)
           n == Len(kinds)
<1>1. n \in Nat /\ DOMAIN kinds = 1 .. n /\ issued \in Nat /\ q \in Seq(Request)
  BY LenProperties, RequestsType, TxAssumption
<1>2. DOMAIN q = 1 .. n /\ Len(q) = n /\ \A i \in 1 .. n : q[i].id = issued + i
  BY <1>1, LenProperties DEF Requests
<1>3. \A i \in 1 .. n : q[i] \in Request
  BY <1>1, <1>2, ElementOfSeq
<1> HIDE DEF q, n
<1>4. ASSUME NEW x PROVE x \in QueuedIds(q) <=> x \in (issued + 1) .. (issued + n)
  <2>1. x \in QueuedIds(q) <=> \E i \in 1 .. n : x = issued + i
    BY <1>2 DEF QueuedIds
  <2>2. (\E i \in 1 .. n : x = issued + i) => x \in (issued + 1) .. (issued + n)
    BY <1>1
  <2>3. ASSUME x \in (issued + 1) .. (issued + n) PROVE \E i \in 1 .. n : x = issued + i
    <3>1. x - issued \in 1 .. n /\ x = issued + (x - issued)
      BY <1>1, <2>3
    <3> QED
      BY <3>1
  <2> QED
    BY <2>1, <2>2, <2>3
<1>5. ASSUME NEW i \in 1 .. Len(q), NEW j \in 1 .. Len(q), i < j
      PROVE  <<q[i], q[j]>> \in Sooner
  <2>1. q[i] \in Request /\ q[j] \in Request /\ q[i].id < q[j].id
    BY <1>1, <1>2, <1>3, <1>5
  <2> QED
    BY <2>1 DEF Sooner
<1> QED
  BY <1>1, <1>4, <1>5 DEF Ordered, q, n

-----------------------------------------------------------------------------
(* The inductive invariant.  That requests are sent in order needs to know  *)
(* of every request where it stands; that only written requests wait, that  *)
(* a request is at most once on its way through the transport.              *)

\* Where a request can be: in progress, queued, in the batch in hand, in a batch on its way.
Active == IdOf(write) \cup IdOf(half)
Queued == QueuedIds(queue)
Held == IF batch = None THEN <<>> ELSE batch.requests

\* Each request is in one place only, before all that were made later.
InLine ==
    /\ Ordered(queue, Sooner) /\ Ordered(Held, Sooner)
    /\ Ordered(fromHost, InTurn) /\ \A b \in Items(fromHost) : Ordered(b.requests, Sooner)
    /\ Before(Active, Queued)
    /\ Before(Active \cup Queued, QueuedIds(Held))
    /\ Before(Active \cup Queued \cup QueuedIds(Held), Carried(fromHost))
    /\ Active \cup PendingIds \subseteq 1 .. issued
    /\ step # "apply" => batch = None

\* What was sent of a request are earlier attempts, or the one in progress.
Attempts ==
    \A w \in Items(wire) :
        /\ w.id \in 1 .. issued /\ w.id \notin QueuedIds(Held) \cup Carried(fromHost)
        /\ write # None /\ w.id = write.id => w.attempt <= write.attempt
        /\ half # None /\ w.id = half.id => w.attempt <= half.attempt
        /\ \A r \in Items(queue) : r.id = w.id => w.attempt < r.attempt

\* A request that somebody will work on has not ended.
Unended == \A r \in Ids : r > issued \/ r \in PendingIds \cup Active => ended[r] = 0

\* What was handed to the transport and has not come back.
Underway == About(Reports(pulled)) \cup About(Reports(events)) \cup QueuedIds(posted)

\* It is there once, and is no request that waits for its answer or to be sent.
Piped ==
    /\ Ordered(pulled, Apart) /\ Ordered(events, Apart) /\ Ordered(posted, Unlike)
    /\ About(Reports(pulled)) \cap About(Reports(events)) = {}
    /\ (About(Reports(pulled)) \cup About(Reports(events))) \cap QueuedIds(posted) = {}
    /\ Underway \cap (IdOf(half) \cup PendingIds) = {}
    /\ Underway \subseteq 1 .. issued

\* A result with the id of the active write is its result, a write that was not rejected has been
\* made, and only a write that may be late is too late.
Answers ==
    /\ \A e \in Reports(pulled) \cup Reports(events) :
          /\ e.state # "rejected" => e.for \in written
          /\ e.state = "timeout" => MayWriteLate
          /\ write # None /\ e.for.id = write.id => e.for = Attempt(write)
    /\ \A r \in Items(posted) : write # None /\ r.id = write.id => Attempt(r) = Attempt(write)
    /\ half # None => Attempt(half) \in written

LineInv == IInv /\ InLine /\ Attempts /\ Unended

-----------------------------------------------------------------------------
(* Moves of RequestLife.                                                    *)

LEMMA PendingParts ==
    /\ TypeOK => UnappliedIds = Carried(fromHost)
    /\ TypeOK => PendingIds = Queued \cup QueuedIds(Held) \cup Carried(fromHost)
    /\ TypeOK' => PendingIds' = Queued' \cup QueuedIds(Held)' \cup Carried(fromHost)'
<1>1. ASSUME NEW f \in Seq(Batch)
      PROVE  UNION {QueuedIds(f[i].requests) : i \in DOMAIN f} = Carried(f)
  <2>1. DOMAIN f = 1 .. Len(f)
    BY LenProperties
  <2> QED
    BY <2>1 DEF Carried, Items
<1>2. QueuedIds(<<>>) = {}
  BY NoRequests
<1>3. /\ (IF batch = None THEN {} ELSE QueuedIds(batch.requests)) = QueuedIds(Held)
      /\ (IF batch' = None THEN {} ELSE QueuedIds(batch'.requests)) = QueuedIds(Held)'
  BY <1>2, Zenon DEF Held
<1>4. TypeOK => UnappliedIds = Carried(fromHost)
  BY <1>1 DEF UnappliedIds, TypeOK, HostType
<1>5. TypeOK' => UnappliedIds' = Carried(fromHost)'
  BY <1>1 DEF UnappliedIds, TypeOK, HostType
<1>6. TypeOK => PendingIds = Queued \cup QueuedIds(Held) \cup Carried(fromHost)
  BY <1>3, <1>4 DEF PendingIds, Queued
<1>7. TypeOK' => PendingIds' = Queued' \cup QueuedIds(Held)' \cup Carried(fromHost)'
  BY <1>3, <1>5 DEF PendingIds, Queued
<1> QED
  BY <1>4, <1>6, <1>7

\* The request in progress, as RequestLife is given it.
InProgress == IF write # None THEN {write.id} ELSE IF half # None THEN {half.id} ELSE {}

LEMMA InProgressIsActive ==
    /\ OneAtATime => InProgress = Active
    /\ OneAtATime' => InProgress' = Active'
BY DEF OneAtATime, Active, IdOf, InProgress

LEMMA MoveNone ==
    ASSUME OneAtATime, OneAtATime', PendingIds' = PendingIds, Active' = Active,
           UNCHANGED <<issued, wire, ended, discarded>>
    PROVE  UNCHANGED Life!life
BY InProgressIsActive DEF InProgress, Life!life

LEMMA MoveMake ==
    ASSUME OneAtATime, OneAtATime', issued' \in (issued + 1) .. MaxRequests,
           PendingIds' = PendingIds \cup ((issued + 1) .. issued'), Active' = Active,
           UNCHANGED <<wire, ended, discarded>>
    PROVE  Life!Next
BY InProgressIsActive DEF InProgress, Life!Next, Life!Make

LEMMA MoveSend ==
    ASSUME OneAtATime, OneAtATime', wire \in Seq(Request), NEW r \in Request, r.id \in PendingIds,
           \A p \in PendingIds : r.id <= p,
           \A w \in Items(wire) : w.id = r.id => w.attempt < r.attempt,
           Active = {}, Active' = {r.id}, PendingIds' = PendingIds \ {r.id}, wire' = Append(wire, r),
           UNCHANGED <<issued, ended, discarded>>
    PROVE  Life!Next
<1>1. /\ r \in [id : {r.id}, kind : {"send", "request", "guarded"}, attempt : 1 .. MaxAttempts]
  BY TxAssumption DEF Request, AllKinds, TxAssumption
<1>2. \A i \in Life!TimesSent(r.id) : wire[i].attempt < r.attempt
  <2>1. DOMAIN wire = 1 .. Len(wire)
    BY LenProperties
  <2> QED
    BY <2>1 DEF Life!TimesSent, Items
<1>3. Life!Send
  BY <1>1, <1>2, InProgressIsActive DEF InProgress, Life!Send
<1> QED
  BY <1>3 DEF Life!Next

LEMMA MoveRepeat ==
    ASSUME OneAtATime, OneAtATime', Active # {}, PendingIds' = PendingIds \cup Active, Active' = {},
           UNCHANGED <<issued, wire, ended, discarded>>
    PROVE  Life!Next
BY InProgressIsActive DEF InProgress, Life!Next, Life!Repeat

LEMMA MoveEnd ==
    ASSUME OneAtATime, OneAtATime', NEW S, S \subseteq PendingIds \cup Active,
           \A r \in S : ended[r] = 0,
           ended' = [r \in 1 .. MaxRequests |-> IF r \in S THEN 1 ELSE ended[r]],
           PendingIds' = PendingIds \ S, Active' = Active \ S,
           UNCHANGED <<issued, wire, discarded>>
    PROVE  Life!Next
<1>1. Life!End(S)
  BY InProgressIsActive DEF InProgress, Life!End
<1> QED
  BY <1>1, InProgressIsActive DEF InProgress, Life!Next

LEMMA MoveForget ==
    ASSUME OneAtATime, OneAtATime', wire \in Seq(Request), NEW S, S \subseteq PendingIds,
           \A r \in S : ended[r] = 0, \A w \in Items(wire) : w.id \notin S,
           discarded' = discarded \cup S, PendingIds' = PendingIds \ S, Active' = Active,
           UNCHANGED <<issued, wire, ended>>
    PROVE  Life!Next
<1>1. \A r \in S : Life!TimesSent(r) = {}
  <2>1. DOMAIN wire = 1 .. Len(wire)
    BY LenProperties
  <2> QED
    BY <2>1 DEF Life!TimesSent, Items
<1>2. Life!Forget(S)
  BY <1>1, InProgressIsActive DEF InProgress, Life!Forget
<1> QED
  BY <1>2 DEF Life!Next

\* The request that finishTxRequest ends had not ended.
LEMMA EndsOne ==
    ASSUME TypeOK, Unended, NEW r \in Request, NEW state, EndRequest(r, state),
           r.id \in PendingIds \cup Active
    PROVE  /\ ended' = [x \in 1 .. MaxRequests |-> IF x \in {r.id} THEN 1 ELSE ended[x]]
           /\ \A x \in {r.id} : ended[x] = 0
<1>1. r.id \in Ids /\ ended \in [Ids -> Nat]
  BY DEF Request, TypeOK, HistoryType
<1>2. ended[r.id] = 0
  BY <1>1 DEF Unended
<1>3. ended' = [ended EXCEPT ![r.id] = 1]
  <2>1. ended' = [ended EXCEPT ![r.id] = ended[r.id] + 1]
    BY DEF EndRequest
  <2>2. ended[r.id] + 1 = 1
    BY <1>2
  <2> QED
    BY <2>1, <2>2, Zenon
<1>4. ended' = [x \in Ids |-> IF x \in {r.id} THEN 1 ELSE ended[x]]
  BY <1>1, <1>2, <1>3
<1> QED
  BY <1>2, <1>4 DEF Ids

-----------------------------------------------------------------------------
(* Every step keeps the line, and is a move of RequestLife or none.         *)

\* Nobody comes to be worked on again but the request that waits, and new ones.
Onward == PendingIds' \subseteq PendingIds \cup IdOf(half) \cup ((issued + 1) .. issued')

LineStep == InLine' /\ Attempts' /\ Unended' /\ Onward /\ [Life!Next]_(Life!life)

LEMMA PartTypes ==
    ASSUME TypeOK, BatchInHand, InLine
    PROVE  /\ Held \in Seq(Request) /\ Active \subseteq Nat /\ PendingIds \subseteq Nat
           /\ Active \subseteq Ids /\ PendingIds \subseteq Ids
           /\ issued \in Nat /\ issued <= MaxRequests /\ MaxRequests \in Nat
           /\ batch \in Batch \cup {None} /\ (step = "apply" => batch \in Batch)
<1>1. issued \in Nat /\ issued <= MaxRequests /\ MaxRequests \in Nat
  BY TxAssumption DEF TypeOK, HistoryType
<1>2. batch \in Batch \cup {None} /\ (step = "apply" => batch \in Batch)
  BY DEF TypeOK, AppType, BatchInHand
<1>3. Held \in Seq(Request)
  <2>1. batch \in Batch => batch.requests \in Seq(Request)
    BY DEF Batch
  <2> QED
    BY <1>2, <2>1, SmallSeqs DEF Held
<1>4. Active \cup PendingIds \subseteq 1 .. issued
  BY DEF InLine
<1>5. \A x \in 1 .. issued : x \in Nat /\ x \in Ids
  BY <1>1 DEF Ids
<1> QED
  BY <1>1, <1>2, <1>3, <1>4, <1>5

\* Steps that move no request.
LEMMA FrameLine ==
    ASSUME LineInv, IInv',
           UNCHANGED <<queue, write, half, batch, fromHost, issued, wire, ended, discarded>>,
           step' = step \/ batch = None
    PROVE  LineStep
<1>1. /\ Queued' = Queued /\ Held' = Held /\ Active' = Active /\ PendingIds' = PendingIds
      /\ QueuedIds(Held)' = QueuedIds(Held) /\ Carried(fromHost)' = Carried(fromHost)
  BY DEF Queued, Held, Active, PendingIds, UnappliedIds
<1>2. InLine'
  BY <1>1 DEF LineInv, InLine
<1>3. Attempts' /\ Unended'
  BY <1>1 DEF LineInv, Attempts, Unended
<1>4. UNCHANGED Life!life
  BY <1>1, MoveNone DEF LineInv, IInv
<1> QED
  BY <1>1, <1>2, <1>3, <1>4 DEF LineStep, Onward

\* Requests end that somebody would have worked on.
LEMMA EndLine ==
    ASSUME LineInv, IInv', NEW S, S \subseteq PendingIds \cup Active,
           ended' = [r \in Ids |-> IF r \in S THEN 1 ELSE ended[r]],
           PendingIds' = PendingIds \ S, Active' = Active \ S, UNCHANGED <<issued, wire, discarded>>
    PROVE  Unended' /\ Life!Next
<1>1. /\ issued \in Nat /\ Active \subseteq Ids /\ PendingIds \subseteq Ids /\ S \subseteq Ids
      /\ ended \in [Ids -> Nat]
  BY PartTypes DEF LineInv, IInv, TypeOK, HistoryType
<1>2. \A r \in S : r \in Ids /\ ~(r > issued)
  <2>1. Active \cup PendingIds \subseteq 1 .. issued
    BY DEF LineInv, InLine
  <2> QED
    BY <1>1, <2>1
<1>3. \A r \in S : ended[r] = 0
  BY <1>2 DEF LineInv, Unended
<1>4. Unended'
  BY <1>1, <1>2 DEF LineInv, Unended
<1>5. Life!Next
  BY <1>3, MoveEnd DEF LineInv, IInv, Ids
<1> QED
  BY <1>4, <1>5

\* Everything that is in progress or queued is cancelled.
LEMMA CancelLine ==
    ASSUME LineInv, IInv', CancelAll, UNCHANGED <<batch, fromHost, issued, wire, discarded>>,
           step' = step \/ batch = None
    PROVE  LineStep
<1> DEFINE S == Active \cup Queued
<1>1. queue' = <<>> /\ write' = None /\ half' = None
  BY DEF CancelAll
<1>2. /\ Queued' = {} /\ Active' = {} /\ Held' = Held /\ QueuedIds(Held)' = QueuedIds(Held)
      /\ Carried(fromHost)' = Carried(fromHost)
  BY <1>1, NoRequests DEF Queued, Held, Active, IdOf
<1>3. /\ PendingIds = Queued \cup QueuedIds(Held) \cup Carried(fromHost)
      /\ PendingIds' = QueuedIds(Held) \cup Carried(fromHost)
  BY <1>2, PendingParts DEF LineInv, IInv
<1>4. /\ Before(Active \cup Queued, QueuedIds(Held))
      /\ Before(Active \cup Queued \cup QueuedIds(Held), Carried(fromHost))
      /\ Active \cup PendingIds \subseteq 1 .. issued
  BY DEF LineInv, InLine
<1>5. /\ issued \in Nat /\ Active \subseteq Nat /\ PendingIds \subseteq Nat /\ S \subseteq Ids
      /\ ended \in [Ids -> Nat]
  BY <1>3, PartTypes DEF LineInv, IInv, TypeOK, HistoryType
<1>6. PendingIds' = PendingIds \ S /\ Active' = Active \ S
  <2>1. \A x \in S : x \notin QueuedIds(Held) /\ x \notin Carried(fromHost)
    BY <1>3, <1>4, <1>5 DEF Before
  <2> QED
    BY <1>2, <1>3, <2>1
<1>7. \A r \in S : ended[r] = 0
  BY <1>3, <1>5 DEF LineInv, Unended
<1>8. ended' = [r \in Ids |-> IF r \in S THEN 1 ELSE ended[r]]
  <2>1. /\ QueuedIds(queue) = Queued
        /\ (IF write = None THEN {} ELSE {write.id}) = IdOf(write)
        /\ (IF half = None THEN {} ELSE {half.id}) = IdOf(half)
    BY DEF Queued, IdOf
  <2>2. {queue[i].id : i \in DOMAIN queue} \cup (IF write = None THEN {} ELSE {write.id})
            \cup (IF half = None THEN {} ELSE {half.id}) = S
    BY <2>1, Zenon DEF Active, QueuedIds
  <2>3. ended' = [r \in Ids |-> ended[r] + (IF r \in S THEN 1 ELSE 0)]
    <3> HIDE DEF S
    <3> QED
      BY <2>2 DEF CancelAll
  <2> HIDE DEF S
  <2> QED
    BY <1>5, <1>7, <2>3
<1>9. InLine'
  <2>1. /\ Ordered(queue, Sooner)' /\ Ordered(Held, Sooner)'
        /\ Ordered(fromHost, InTurn)' /\ \A b \in Items(fromHost)' : Ordered(b.requests, Sooner)
    BY <1>1, <1>2, NoRequests DEF LineInv, InLine
  <2>2. step' # "apply" => batch' = None
    BY DEF LineInv, InLine
  <2>3. Before(QueuedIds(Held), Carried(fromHost))
    BY <1>4 DEF Before
  <2> QED
    BY <1>2, <1>3, <1>4, <2>1, <2>2, <2>3 DEF InLine, Before
<1>10. Attempts'
  BY <1>1, <1>2, NoRequests DEF LineInv, Attempts
<1>11. Unended' /\ Life!Next
  <2>1. S \subseteq PendingIds \cup Active
    BY <1>3
  <2> HIDE DEF S
  <2> QED
    BY <1>6, <1>8, <2>1, EndLine
<1>12. Onward
  BY <1>6 DEF Onward
<1> QED
  BY <1>9, <1>10, <1>11, <1>12 DEF LineStep

LEMMA ProcessSentLine ==
    ASSUME LineInv, IInv', ProcessSent
    PROVE  LineStep
<1>1. write # None /\ half = None /\ write' = None /\ half' = write
      /\ UNCHANGED <<queue, step, batch, fromHost, issued, wire, ended, discarded>>
  BY DEF ProcessSent, IsActiveWrite, LineInv, IInv, OneAtATime, history, hostVars
<1>2. /\ Queued' = Queued /\ Held' = Held /\ Active' = Active /\ PendingIds' = PendingIds
      /\ QueuedIds(Held)' = QueuedIds(Held) /\ Carried(fromHost)' = Carried(fromHost)
  BY <1>1 DEF Queued, Held, Active, PendingIds, UnappliedIds, IdOf
<1>3. InLine'
  BY <1>1, <1>2 DEF LineInv, InLine
<1>4. Attempts'
  BY <1>1, <1>2 DEF LineInv, Attempts
<1>5. Unended'
  BY <1>1, <1>2 DEF LineInv, Unended
<1>6. UNCHANGED Life!life
  BY <1>1, <1>2, MoveNone DEF LineInv, IInv
<1> QED
  BY <1>2, <1>3, <1>4, <1>5, <1>6 DEF LineStep, Onward

\* The request in progress ends: its write has failed or asked for nothing, request_done or the last
\* deadline ended it.
LEMMA ProgressEnds ==
    ASSUME LineInv, IInv', NEW r \in Request, NEW state, EndRequest(r, state), Active = {r.id},
           write' = None, half' = None, QueuedIds(Held)' = QueuedIds(Held),
           Ordered(Held, Sooner)', step' # "apply" => batch' = None,
           UNCHANGED <<queue, fromHost, issued, wire, discarded>>
    PROVE  LineStep
<1>1. /\ Queued' = Queued /\ Active' = {} /\ Carried(fromHost)' = Carried(fromHost)
      /\ PendingIds' = PendingIds
  BY PendingParts DEF Queued, Active, IdOf, LineInv, IInv
<1>2. r.id \notin PendingIds
  <2>1. PendingIds = Queued \cup QueuedIds(Held) \cup Carried(fromHost)
    BY PendingParts DEF LineInv, IInv
  <2>2. r.id \in Nat
    BY PartTypes DEF LineInv, IInv
  <2>3. /\ Before(Active, Queued) /\ Before(Active \cup Queued, QueuedIds(Held))
        /\ Before(Active \cup Queued \cup QueuedIds(Held), Carried(fromHost))
    BY DEF LineInv, InLine
  <2>4. r.id \notin Queued /\ r.id \notin QueuedIds(Held) /\ r.id \notin Carried(fromHost)
    BY <2>2, <2>3 DEF Before
  <2> QED
    BY <2>1, <2>4
<1>3. ended' = [x \in Ids |-> IF x \in {r.id} THEN 1 ELSE ended[x]]
  BY EndsOne DEF LineInv, IInv, Ids
<1>4. Unended' /\ Life!Next
  BY <1>1, <1>2, <1>3, EndLine
<1>5. InLine'
  BY <1>1 DEF LineInv, InLine, Before
<1>6. Attempts'
  BY <1>1 DEF LineInv, Attempts
<1> QED
  BY <1>1, <1>4, <1>5, <1>6 DEF LineStep, Onward

LEMMA ProcessWriteResultLine ==
    ASSUME LineInv, IInv', ProcessWriteResult
    PROVE  LineStep
<1> DEFINE state == Head(pulled).state
<1>1. /\ write # None /\ half = None /\ write' = None /\ half' = None /\ step' = "drive" /\ step = "idle"
      /\ EndRequest(write, state) /\ write \in Request
      /\ UNCHANGED <<queue, batch, fromHost, issued, wire, discarded>>
  BY DEF ProcessWriteResult, NextEvent, IsActiveWrite, LineInv, IInv, OneAtATime, TypeOK, AppType
<1> HIDE DEF state
<1>2. Active = {write.id} /\ batch = None
  BY <1>1 DEF Active, IdOf, LineInv, InLine
<1>3. Held' = Held /\ QueuedIds(Held)' = QueuedIds(Held) /\ Ordered(Held, Sooner)'
  BY <1>1 DEF Held, LineInv, InLine
<1> QED
  BY <1>1, <1>2, <1>3, ProgressEnds

\* The batch in hand is the one that was in front.
LEMMA BeginBatchLine ==
    ASSUME LineInv, IInv', BeginBatch
    PROVE  LineStep
<1> DEFINE h == Head(fromHost)
<1>1. /\ fromHost # <<>> /\ fromHost' = Tail(fromHost) /\ batch' = h /\ batch = None
      /\ UNCHANGED <<queue, write, half, issued, wire, ended, discarded>> /\ step' = "apply" /\ step = "idle"
  BY DEF BeginBatch, LineInv, InLine, history
<1>2. /\ h \in Batch /\ Items(fromHost) = {h} \cup Items(Tail(fromHost))
      /\ Carried(fromHost) = QueuedIds(h.requests) \cup Carried(Tail(fromHost))
      /\ Ordered(Tail(fromHost), InTurn) /\ Before(QueuedIds(h.requests), Carried(Tail(fromHost)))
  BY <1>1, BatchesHead DEF LineInv, IInv, TypeOK, HostType, InLine
<1>3. /\ Held = <<>> /\ QueuedIds(Held) = {} /\ QueuedIds(Held)' = QueuedIds(h.requests)
      /\ Ordered(Held, Sooner)'
  <2>1. Held' = h.requests
    BY <1>1, <1>2, NoneAssumption DEF Held
  <2>2. Held = <<>>
    BY <1>1 DEF Held
  <2> HIDE DEF h
  <2>3. Ordered(h.requests, Sooner)
    BY <1>2 DEF LineInv, InLine
  <2> QED
    BY <2>1, <2>2, <2>3, NoRequests
<1> HIDE DEF h
<1>4. Queued' = Queued /\ Active' = Active
  BY <1>1 DEF Queued, Active
<1>5. Carried(fromHost)' = Carried(Tail(fromHost))
  BY <1>1
<1>6. PendingIds' = PendingIds
  BY <1>2, <1>3, <1>4, <1>5, PendingParts DEF LineInv, IInv
<1>7. InLine'
  <2>1. Before(Active \cup Queued \cup QueuedIds(Held), Carried(fromHost)) /\ Before(Active, Queued)
        /\ Active \cup PendingIds \subseteq 1 .. issued /\ Ordered(queue, Sooner)
    BY DEF LineInv, InLine
  <2>2. /\ Before(Active \cup Queued, QueuedIds(Held)')
        /\ Before(Active \cup Queued \cup QueuedIds(Held)', Carried(Tail(fromHost)))
    BY <1>2, <1>3, <2>1 DEF Before
  <2>3. Ordered(fromHost, InTurn)' /\ \A b \in Items(fromHost)' : Ordered(b.requests, Sooner)
    BY <1>1, <1>2 DEF LineInv, InLine
  <2> QED
    BY <1>1, <1>3, <1>4, <1>5, <1>6, <2>1, <2>2, <2>3 DEF InLine
<1>8. Attempts'
  <2>1. QueuedIds(Held)' \cup Carried(fromHost)' = Carried(fromHost)
    BY <1>2, <1>3, <1>5
  <2> QED
    BY <1>1, <2>1 DEF LineInv, Attempts
<1>9. Unended'
  BY <1>1, <1>4, <1>6 DEF LineInv, Unended
<1>10. UNCHANGED Life!life
  BY <1>1, <1>4, <1>6, MoveNone DEF LineInv, IInv
<1> QED
  BY <1>6, <1>7, <1>8, <1>9, <1>10 DEF LineStep, Onward

\* The request in front of the batch is queued or ends; to make room, that in front of the queue ends.
LEMMA EnqueueLine ==
    ASSUME LineInv, IInv', EnqueueTxRequest
    PROVE  LineStep
<1> DEFINE r == Head(batch.requests)
           h == Head(queue)
           t == Tail(batch.requests)
           u == Tail(queue)
<1>1. /\ batch \in Batch /\ batch # None /\ batch.requests # <<>> /\ batch.requests \in Seq(Request)
      /\ Held = batch.requests /\ batch'.requests = t /\ step = "apply" /\ step' = step
      /\ UNCHANGED <<write, half, fromHost, issued, wire, discarded>> /\ queue \in Seq(Request)
  <2>1. batch \in Batch /\ step = "apply" /\ batch # None /\ queue \in Seq(Request)
    BY NoneAssumption DEF EnqueueTxRequest, LineInv, IInv, BatchInHand, TypeOK, AppType
  <2> QED
    BY <2>1 DEF EnqueueTxRequest, Held, Batch
<1>2. batch' # None /\ Held' = t
  <2>1. batch' \in Batch
    BY <1>1 DEF LineInv, IInv, BatchInHand
  <2> QED
    BY <1>1, <2>1, NoneAssumption DEF Held
<1>3. \/ \E state : EndRequest(r, state) /\ queue' = queue
      \/ queue' = Append(queue, r) /\ ended' = ended
      \/ queue # <<>> /\ EndRequest(h, "dropped") /\ queue' = Append(u, r)
  <2> HIDE DEF r, h, u
  <2> QED
    BY Zenon DEF EnqueueTxRequest, r, h, u
<1>4. /\ r \in Request /\ t \in Seq(Request)
      /\ QueuedIds(Held) = {r.id} \cup QueuedIds(t)
      /\ Ordered(t, Sooner) /\ Before({r.id}, QueuedIds(t))
  BY <1>1, IdsHead DEF LineInv, InLine
<1>5. queue # <<>> => /\ h \in Request /\ u \in Seq(Request) /\ Items(queue) = {h} \cup Items(u)
                      /\ Queued = {h.id} \cup QueuedIds(u)
                      /\ Ordered(u, Sooner) /\ Before({h.id}, QueuedIds(u))
  BY <1>1, IdsHead DEF LineInv, InLine, Queued
<1> HIDE DEF r, h, t, u
<1>6. /\ QueuedIds(Held)' = QueuedIds(t) /\ Ordered(Held, Sooner)' /\ Active' = Active
      /\ Carried(fromHost)' = Carried(fromHost)
  BY <1>1, <1>2, <1>4 DEF Active
<1>7. PendingIds = Queued \cup QueuedIds(Held) \cup Carried(fromHost)
      /\ PendingIds' = Queued' \cup QueuedIds(t) \cup Carried(fromHost)
  BY <1>6, PendingParts DEF LineInv, IInv
<1>8. /\ Before(Active, Queued) /\ Before(Active \cup Queued, QueuedIds(Held))
      /\ Before(Active \cup Queued \cup QueuedIds(Held), Carried(fromHost))
      /\ Active \cup PendingIds \subseteq 1 .. issued /\ Ordered(queue, Sooner)
      /\ Active \subseteq Nat /\ PendingIds \subseteq Nat
  BY PartTypes DEF LineInv, IInv, InLine
<1>9. /\ r.id \notin QueuedIds(t) /\ r.id \notin Queued /\ r.id \notin Carried(fromHost)
      /\ r.id \notin Active /\ r.id \in PendingIds
  <2>1. r.id \in PendingIds
    BY <1>4, <1>7
  <2>2. r.id \notin QueuedIds(t) /\ r.id \notin Queued
    <3>1. r.id \in Nat /\ r.id \in QueuedIds(Held)
      BY <1>4, <1>8, <2>1
    <3>2. r.id \notin QueuedIds(t)
      BY <1>4, <3>1, NotBoth, Zenon
    <3>3. r.id \notin Active \cup Queued
      BY <1>8, <3>1, NotBoth, Zenon
    <3> QED
      BY <3>2, <3>3
  <2>3. r.id \notin Carried(fromHost) /\ r.id \notin Active
    <3>1. r.id \in Nat /\ r.id \in QueuedIds(Held)
      BY <1>4, <1>8, <2>1
    <3>2. r.id \notin Carried(fromHost)
      BY <1>8, <3>1, NotBoth
    <3>3. r.id \notin Active \cup Queued
      BY <1>8, <3>1, NotBoth, Zenon
    <3> QED
      BY <3>2, <3>3
  <2> QED
    BY <2>1, <2>2, <2>3
<1>10. ASSUME Queued' \subseteq Queued \cup {r.id}, Ordered(queue, Sooner)',
              Items(queue)' \subseteq Items(queue) \cup {r}
       PROVE  InLine' /\ Attempts'
  <2>1. /\ Before(Active, Queued') /\ Before(Active \cup Queued', QueuedIds(t))
        /\ Before(Active \cup Queued' \cup QueuedIds(t), Carried(fromHost))
        /\ Active \cup PendingIds' \subseteq 1 .. issued
    BY <1>4, <1>7, <1>8, <1>10 DEF Before
  <2>2. InLine'
    BY <1>1, <1>6, <1>10, <2>1 DEF InLine, LineInv
  <2>3. QueuedIds(Held)' \cup Carried(fromHost)' \subseteq QueuedIds(Held) \cup Carried(fromHost)
    BY <1>4, <1>6
  <2>4. \A w \in Items(wire) : w.id # r.id
    BY <1>4 DEF LineInv, Attempts
  <2>5. Attempts'
    BY <1>1, <1>10, <2>3, <2>4 DEF LineInv, Attempts
  <2> QED
    BY <2>2, <2>5
<1>11. ASSUME NEW state, EndRequest(r, state), queue' = queue PROVE LineStep
  <2>1. Queued' = Queued /\ Items(queue)' = Items(queue) /\ Ordered(queue, Sooner)'
    BY <1>8, <1>11 DEF Queued
  <2>2. PendingIds' = PendingIds \ {r.id} /\ Active' = Active \ {r.id}
    BY <1>4, <1>6, <1>7, <1>9, <2>1
  <2>3. ended' = [x \in Ids |-> IF x \in {r.id} THEN 1 ELSE ended[x]]
    BY <1>4, <1>9, <1>11, EndsOne DEF LineInv, IInv, Ids
  <2>4. Unended' /\ Life!Next
    BY <1>1, <1>9, <2>2, <2>3, EndLine
  <2> QED
    BY <1>10, <2>1, <2>2, <2>4 DEF LineStep, Onward
<1>12. ASSUME queue' = Append(queue, r), ended' = ended PROVE LineStep
  <2>1. /\ Queued' = Queued \cup {r.id} /\ Items(queue)' = Items(queue) \cup {r}
        /\ Ordered(queue, Sooner)'
    <3>1. Before(Queued, {r.id})
      BY <1>4, <1>8 DEF Before
    <3> QED
      BY <1>1, <1>4, <1>8, <1>12, <3>1, IdsAppend DEF Queued
  <2>2. PendingIds' = PendingIds
    BY <1>4, <1>7, <2>1
  <2>3. Unended' /\ UNCHANGED Life!life
    BY <1>1, <1>6, <1>12, <2>2, MoveNone DEF LineInv, IInv, Unended
  <2> QED
    BY <1>10, <2>1, <2>2, <2>3 DEF LineStep, Onward
<1>13. ASSUME queue # <<>>, EndRequest(h, "dropped"), queue' = Append(u, r) PROVE LineStep
  <2>1. /\ Queued' = QueuedIds(u) \cup {r.id} /\ Items(queue)' = Items(u) \cup {r}
        /\ Ordered(queue, Sooner)'
    <3>1. Before(QueuedIds(u), {r.id})
      BY <1>4, <1>5, <1>8, <1>13 DEF Before
    <3> QED
      BY <1>4, <1>5, <1>13, <3>1, IdsAppend DEF Queued
  <2>2. /\ h.id \notin QueuedIds(u) /\ h.id # r.id /\ h.id \notin QueuedIds(t)
        /\ h.id \notin Carried(fromHost) /\ h.id \notin Active /\ h.id \in PendingIds
    <3>1. h.id \notin QueuedIds(u) /\ h.id # r.id
      <4>1. h.id \in Nat /\ h.id \in Queued /\ Before({h.id}, QueuedIds(u)) /\ r.id \notin Queued
        BY <1>5, <1>7, <1>8, <1>9, <1>13
      <4>2. h.id \notin QueuedIds(u)
        BY <4>1, NotBoth
      <4> QED
        BY <4>1, <4>2
    <3>2. h.id \notin QueuedIds(t) /\ h.id \notin Carried(fromHost)
      <4>1. h.id \in Queued
        BY <1>5, <1>13
      <4>2. h.id \in Nat
        BY <1>7, <1>8, <4>1
      <4>3. h.id \notin QueuedIds(Held)
        <5>1. h.id \in Active \cup Queued
          BY <4>1
        <5> QED
          BY <1>8, <4>2, <5>1, NotBoth, Zenon
      <4>4. h.id \notin Carried(fromHost)
        <5>1. h.id \in Active \cup Queued \cup QueuedIds(Held)
          BY <4>1
        <5> QED
          BY <1>8, <4>2, <5>1, NotBoth, Zenon
      <4>5. QueuedIds(t) \subseteq QueuedIds(Held)
        BY <1>4
      <4> QED
        BY <4>3, <4>4, <4>5
    <3>3. h.id \notin Active /\ h.id \in PendingIds
      BY <1>4, <1>5, <1>7, <1>8, <1>13 DEF Before
    <3> QED
      BY <3>1, <3>2, <3>3
  <2>3. PendingIds' = PendingIds \ {h.id} /\ Active' = Active \ {h.id}
    BY <1>4, <1>5, <1>6, <1>7, <1>13, <2>1, <2>2
  <2>4. ended' = [x \in Ids |-> IF x \in {h.id} THEN 1 ELSE ended[x]]
    BY <1>5, <1>13, <2>2, EndsOne DEF LineInv, IInv, Ids
  <2>5. Unended' /\ Life!Next
    BY <1>1, <2>2, <2>3, <2>4, EndLine
  <2>6. Queued' \subseteq Queued \cup {r.id} /\ Items(queue)' \subseteq Items(queue) \cup {r}
    BY <1>5, <1>13, <2>1
  <2> QED
    BY <1>10, <2>1, <2>3, <2>5, <2>6 DEF LineStep, Onward
<1> QED
  BY <1>3, <1>11, <1>12, <1>13

LEMMA ApplyDoneLine ==
    ASSUME LineInv, IInv', ApplyDone
    PROVE  LineStep
<1> DEFINE state == IF batch.done.ok THEN "completed" ELSE "failed"
<1>1. /\ batch # None /\ batch.requests = <<>> /\ batch' = None
      /\ UNCHANGED <<queue, write, fromHost, issued, wire, discarded>>
      /\ \/ half # None /\ half' = None /\ EndRequest(half, state)
         \/ UNCHANGED <<half, ended>>
  <2>1. batch # None
    BY NoneAssumption DEF ApplyDone, LineInv, IInv, BatchInHand
  <2>2. \/ half # None /\ half' = None /\ EndRequest(half, state)
        \/ UNCHANGED <<half, ended>>
    BY Zenon DEF ApplyDone
  <2> QED
    BY <2>1, <2>2 DEF ApplyDone
<1> HIDE DEF state
<1>2. /\ Held = <<>> /\ Held' = <<>> /\ QueuedIds(Held)' = {} /\ QueuedIds(Held) = {}
      /\ Ordered(Held, Sooner)'
  BY <1>1, NoRequests DEF Held
<1>3. CASE half # None /\ half' = None /\ EndRequest(half, state)
  <2>1. half \in Request /\ write = None /\ Active = {half.id}
    BY <1>3 DEF LineInv, IInv, TypeOK, AppType, OneAtATime, Active, IdOf
  <2> QED
    BY <1>1, <1>2, <1>3, <2>1, ProgressEnds
<1>4. CASE UNCHANGED <<half, ended>>
  <2>1. /\ Queued' = Queued /\ Active' = Active /\ Carried(fromHost)' = Carried(fromHost)
        /\ PendingIds' = PendingIds
    BY <1>1, <1>2, <1>4, PendingParts DEF Queued, Active, LineInv, IInv
  <2>2. InLine'
    BY <1>1, <1>2, <2>1 DEF LineInv, InLine
  <2>3. Attempts' /\ Unended'
    BY <1>1, <1>2, <1>4, <2>1 DEF LineInv, Attempts, Unended
  <2>4. UNCHANGED Life!life
    BY <1>1, <1>4, <2>1, MoveNone DEF LineInv, IInv
  <2> QED
    BY <2>1, <2>2, <2>3, <2>4 DEF LineStep, Onward
<1> QED
  BY <1>1, <1>3, <1>4

LEMMA AttemptNumber == \A r \in Request : r.attempt \in Int
BY DEF Request

\* The request in front of the queue, and where the others are.
LEMMA FrontOfQueue ==
    ASSUME LineInv, queue # <<>>
    PROVE  LET h == Head(queue)
               u == Tail(queue)
           IN  /\ h \in Request /\ u \in Seq(Request) /\ Items(queue) = {h} \cup Items(u)
               /\ Queued = {h.id} \cup QueuedIds(u)
               /\ Ordered(u, Sooner) /\ Before({h.id}, QueuedIds(u))
               /\ \A x \in PendingIds : h.id <= x
               /\ PendingIds = {h.id} \cup QueuedIds(u) \cup QueuedIds(Held) \cup Carried(fromHost)
               /\ h.id \in PendingIds /\ h.id \notin Active /\ h.id \notin QueuedIds(u)
               /\ h.id \notin QueuedIds(Held) /\ h.id \notin Carried(fromHost)
<1> DEFINE h == Head(queue)
           u == Tail(queue)
<1>1. queue \in Seq(Request)
  BY DEF LineInv, IInv, TypeOK, AppType
<1>2. /\ h \in Request /\ u \in Seq(Request) /\ Items(queue) = {h} \cup Items(u)
      /\ Queued = {h.id} \cup QueuedIds(u)
      /\ Ordered(u, Sooner) /\ Before({h.id}, QueuedIds(u))
  BY <1>1, IdsHead DEF LineInv, InLine, Queued
<1> HIDE DEF h, u
<1>3. PendingIds = {h.id} \cup QueuedIds(u) \cup QueuedIds(Held) \cup Carried(fromHost)
  BY <1>2, PendingParts DEF LineInv, IInv
<1>4. PendingIds \subseteq Nat /\ Active \subseteq Nat
  BY PartTypes DEF LineInv, IInv
<1>5. /\ Before(Active, Queued) /\ Before(Active \cup Queued, QueuedIds(Held))
      /\ Before(Active \cup Queued \cup QueuedIds(Held), Carried(fromHost))
  BY DEF LineInv, InLine
<1>6. /\ \A x \in QueuedIds(u) \cup QueuedIds(Held) \cup Carried(fromHost) : h.id < x
      /\ \A x \in Active : x < h.id
  BY <1>2, <1>5 DEF Before
<1>7. h.id \in Nat
  BY <1>3, <1>4
<1> QED
  BY <1>2, <1>3, <1>4, <1>6, <1>7 DEF h, u

LEMMA RejectLine ==
    ASSUME LineInv, IInv', Reject
    PROVE  LineStep
<1> DEFINE h == Head(queue)
           u == Tail(queue)
<1>1. /\ queue # <<>> /\ queue' = u /\ EndRequest(h, "rejected") /\ step' = step
      /\ UNCHANGED <<write, half, batch, fromHost, issued, wire, discarded>>
  BY DEF Reject, MaySend
<1>2. /\ h \in Request /\ u \in Seq(Request) /\ Items(queue) = {h} \cup Items(u)
      /\ Queued = {h.id} \cup QueuedIds(u) /\ Ordered(u, Sooner)
      /\ PendingIds = {h.id} \cup QueuedIds(u) \cup QueuedIds(Held) \cup Carried(fromHost)
      /\ h.id \in PendingIds /\ h.id \notin Active /\ h.id \notin QueuedIds(u)
      /\ h.id \notin QueuedIds(Held) /\ h.id \notin Carried(fromHost)
  BY <1>1, FrontOfQueue
<1> HIDE DEF h, u
<1>3. /\ Queued' = QueuedIds(u) /\ Active' = Active /\ Held' = Held /\ QueuedIds(Held)' = QueuedIds(Held)
      /\ Carried(fromHost)' = Carried(fromHost)
  BY <1>1 DEF Queued, Active, Held
<1>4. PendingIds' = PendingIds \ {h.id} /\ Active' = Active \ {h.id}
  BY <1>2, <1>3, PendingParts DEF LineInv, IInv
<1>5. ended' = [x \in Ids |-> IF x \in {h.id} THEN 1 ELSE ended[x]]
  BY <1>1, <1>2, EndsOne DEF LineInv, IInv, Ids
<1>6. Unended' /\ Life!Next
  BY <1>1, <1>2, <1>4, <1>5, EndLine
<1>7. InLine'
  BY <1>1, <1>2, <1>3, <1>4 DEF LineInv, InLine, Before
<1>8. Attempts'
  BY <1>1, <1>2, <1>3 DEF LineInv, Attempts
<1> QED
  BY <1>4, <1>6, <1>7, <1>8 DEF LineStep, Onward

\* The request in front of the queue is sent.
LEMMA HandOverLine ==
    ASSUME LineInv, IInv', HandOver
    PROVE  LineStep
<1> DEFINE h == Head(queue)
           u == Tail(queue)
<1>1. /\ queue # <<>> /\ queue' = u /\ write = None /\ half = None /\ write' = h /\ half' = None
      /\ wire' = Append(wire, h) /\ step' = step /\ wire \in Seq(Request)
      /\ UNCHANGED <<batch, fromHost, issued, ended, discarded>>
  BY DEF HandOver, MaySend, hostVars, LineInv, IInv, TypeOK, HistoryType
<1>2. /\ h \in Request /\ u \in Seq(Request) /\ Items(queue) = {h} \cup Items(u)
      /\ Queued = {h.id} \cup QueuedIds(u) /\ Ordered(u, Sooner) /\ Before({h.id}, QueuedIds(u))
      /\ \A x \in PendingIds : h.id <= x
      /\ PendingIds = {h.id} \cup QueuedIds(u) \cup QueuedIds(Held) \cup Carried(fromHost)
      /\ h.id \in PendingIds /\ h.id \notin Active /\ h.id \notin QueuedIds(u)
      /\ h.id \notin QueuedIds(Held) /\ h.id \notin Carried(fromHost)
  BY <1>1, FrontOfQueue
<1>3. Items(wire)' = Items(wire) \cup {h}
  BY <1>1, <1>2, IdsAppend
<1> HIDE DEF h, u
<1>4. h # None
  BY <1>2, NoneAssumption
<1>5. /\ Queued' = QueuedIds(u) /\ Active = {} /\ Active' = {h.id} /\ Held' = Held
      /\ QueuedIds(Held)' = QueuedIds(Held) /\ Carried(fromHost)' = Carried(fromHost)
  BY <1>1, <1>4 DEF Queued, Active, Held, IdOf
<1>6. PendingIds' = PendingIds \ {h.id}
  BY <1>2, <1>5, PendingParts DEF LineInv, IInv
<1>7. \A w \in Items(wire) : w.id = h.id => w.attempt < h.attempt
  BY <1>2 DEF LineInv, Attempts
<1>8. Life!Next
  BY <1>1, <1>2, <1>5, <1>6, <1>7, MoveSend DEF LineInv, IInv
<1>9. Unended'
  BY <1>1, <1>2, <1>5, <1>6 DEF LineInv, Unended
<1>10. InLine'
  <2>1. /\ Before(Active \cup Queued, QueuedIds(Held))
        /\ Before(Active \cup Queued \cup QueuedIds(Held), Carried(fromHost))
        /\ Active \cup PendingIds \subseteq 1 .. issued
    BY DEF LineInv, InLine
  <2>2. /\ Before({h.id} \cup QueuedIds(u), QueuedIds(Held))
        /\ Before({h.id} \cup QueuedIds(u) \cup QueuedIds(Held), Carried(fromHost))
        /\ {h.id} \cup PendingIds' \subseteq 1 .. issued
    BY <1>2, <1>6, <2>1 DEF Before
  <2> QED
    BY <1>1, <1>2, <1>5, <2>2 DEF LineInv, InLine
<1>11. Attempts'
  <2>1. h.id \in 1 .. issued
    BY <1>2 DEF LineInv, InLine
  <2>2. \A r \in Items(u) : r.id # h.id
    BY <1>2, Ids_Items
  <2>3. h.attempt <= h.attempt
    BY <1>2 DEF Request
  <2>4. \A w \in Items(wire) : w.id = h.id => w.attempt <= h.attempt
    <3>1. \A w \in Items(wire) : w.attempt \in Int
      BY <1>1, Ids_Items, AttemptNumber
    <3> QED
      BY <1>2, <1>7, <3>1 DEF Request
  <2> QED
    BY <1>1, <1>2, <1>3, <1>5, <2>1, <2>2, <2>3, <2>4 DEF LineInv, Attempts
<1> QED
  BY <1>6, <1>8, <1>9, <1>10, <1>11 DEF LineStep, Onward

\* The request that waited goes back in front of the queue, or ends.
LEMMA RequestTimesOutLine ==
    ASSUME LineInv, IInv', RequestTimesOut
    PROVE  LineStep
<1>1. /\ half # None /\ half \in Request /\ half' = None /\ write = None /\ write' = None
      /\ step = "idle" /\ batch = None /\ UNCHANGED <<batch, fromHost, issued, wire, discarded>>
      /\ queue \in Seq(Request) /\ wire \in Seq(Request)
  BY DEF RequestTimesOut, LineInv, IInv, TypeOK, AppType, HistoryType, OneAtATime, InLine
<1>2. /\ Active = {half.id} /\ Active' = {} /\ Held' = Held /\ QueuedIds(Held)' = QueuedIds(Held)
      /\ Carried(fromHost)' = Carried(fromHost) /\ Ordered(Held, Sooner)'
  BY <1>1 DEF Active, IdOf, Held, LineInv, InLine
<1>3. CASE MayRetry(half)
  <2> DEFINE r == [half EXCEPT !.attempt = @ + 1]
  <2>1. queue' = <<r>> \o queue /\ ended' = ended /\ r.id = half.id /\ r.attempt = half.attempt + 1
    BY <1>1, <1>3 DEF RequestTimesOut, RetryQueue, Request
  <2>2. r \in Request
    <3>1. half.attempt \in 1 .. MaxAttempts /\ half.attempt < MaxAttempts /\ MaxAttempts \in Nat
      BY <1>1, <1>3, TxAssumption DEF MayRetry, Request
    <3>2. half.attempt + 1 \in 1 .. MaxAttempts
      BY <3>1
    <3> QED
      BY <1>1, <3>2 DEF Request
  <2> HIDE DEF r
  <2>3. Before(Active, Queued) /\ Ordered(queue, Sooner)
    BY DEF LineInv, InLine
  <2>4. /\ Items(queue)' = {r} \cup Items(queue) /\ Queued' = {r.id} \cup Queued
        /\ Ordered(queue, Sooner)'
    BY <1>1, <1>2, <2>1, <2>2, <2>3, IdsFront DEF Queued
  <2>5. PendingIds' = PendingIds \cup Active
    BY <1>2, <2>1, <2>4, PendingParts DEF LineInv, IInv
  <2>6. InLine'
    BY <1>1, <1>2, <2>1, <2>4, <2>5 DEF LineInv, InLine, Before
  <2>7. Attempts'
    <3>1. \A w \in Items(wire) : w.id = r.id => w.attempt < r.attempt
      <4>1. \A w \in Items(wire) : w.id = half.id => w.attempt <= half.attempt
        BY <1>1 DEF LineInv, Attempts
      <4>2. \A w \in Items(wire) : w.attempt \in Int
        BY <1>1, Ids_Items, AttemptNumber
      <4>3. half.attempt \in Int
        BY <1>1 DEF Request
      <4> QED
        BY <2>1, <4>1, <4>2, <4>3
    <3> QED
      BY <1>1, <1>2, <2>4, <3>1 DEF LineInv, Attempts
  <2>8. Unended'
    BY <1>1, <1>2, <2>1, <2>5 DEF LineInv, Unended
  <2>9. Life!Next
    BY <1>1, <1>2, <2>1, <2>5, MoveRepeat DEF LineInv, IInv
  <2>10. Onward
    BY <1>1, <1>2, <2>5 DEF Onward, IdOf
  <2> QED
    BY <2>6, <2>7, <2>8, <2>9, <2>10 DEF LineStep
<1>4. CASE ~MayRetry(half)
  <2>1. EndRequest(half, "timeout") /\ queue' = queue
    BY <1>4 DEF RequestTimesOut
  <2> QED
    BY <1>1, <1>2, <2>1, ProgressEnds
<1> QED
  BY <1>3, <1>4

\* The requests of a callback go to the end of the line.
LEMMA RunCallbackLine ==
    ASSUME LineInv, IInv', NEW kinds \in Bursts, NEW reset \in BOOLEAN, NEW done \in Dones,
           RunCallback(kinds, reset, done)
    PROVE  LineStep
<1> DEFINE b == [reset |-> reset, requests |-> Requests(kinds), done |-> done]
           N == (issued + 1) .. (issued + Len(kinds))
<1>1. /\ UNCHANGED <<queue, write, half, batch, step, wire, ended, discarded>>
      /\ issued' = issued + Len(kinds) /\ issued + Len(kinds) <= MaxRequests
      /\ \/ fromHost' = Append(fromHost, b)
         \/ kinds = <<>> /\ fromHost' = fromHost
  BY DEF RunCallback, appVars
<1>2. kinds \in Seq(Kinds)
  BY SeqDef DEF Bursts
<1>3. issued \in 0 .. MaxRequests /\ issued \in Nat /\ MaxRequests \in Nat /\ fromHost \in Seq(Batch)
  BY TxAssumption DEF LineInv, IInv, TypeOK, HistoryType, HostType
<1>4. /\ Requests(kinds) \in Seq(Request) /\ Len(kinds) \in Nat /\ QueuedIds(Requests(kinds)) = N
      /\ Ordered(Requests(kinds), Sooner)
  BY <1>1, <1>2, <1>3, NewRequests
<1>5. b \in Batch
  BY <1>4 DEF Batch, Dones, Done, LineInv, IInv, TypeOK, HostType
<1>6. b.requests = Requests(kinds)
  OBVIOUS
<1> HIDE DEF b, N
<1>7. /\ Queued' = Queued /\ Active' = Active /\ Held' = Held /\ QueuedIds(Held)' = QueuedIds(Held)
  BY <1>1 DEF Queued, Active, Held
<1>8. /\ PendingIds = Queued \cup QueuedIds(Held) \cup Carried(fromHost)
      /\ PendingIds' = Queued \cup QueuedIds(Held) \cup Carried(fromHost)'
  BY <1>7, PendingParts DEF LineInv, IInv
<1>9. Active \cup PendingIds \subseteq 1 .. issued /\ Active \subseteq Nat /\ PendingIds \subseteq Nat
  BY PartTypes DEF LineInv, IInv, InLine
<1>10. /\ \A x \in N : x \in Int /\ x > issued /\ x <= issued'
       /\ \A x \in Active \cup PendingIds : x \in Int /\ x <= issued /\ x >= 1
  <2>1. \A x \in N : x \in Int /\ x > issued /\ x <= issued'
    BY <1>1, <1>3, <1>4 DEF N
  <2>2. \A x \in Active \cup PendingIds : x \in Int /\ x <= issued /\ x >= 1
    <3> SUFFICES ASSUME NEW x \in Active \cup PendingIds
                 PROVE  x \in Int /\ x <= issued /\ x >= 1
      OBVIOUS
    <3>1. x \in 1 .. issued
      BY <1>9
    <3> QED
      BY <3>1
  <2> QED
    BY <2>1, <2>2
<1>11. Before(Active \cup PendingIds, N)
  BY <1>3, <1>10 DEF Before
<1>12. /\ Carried(fromHost)' = Carried(fromHost) \cup N
       /\ Ordered(fromHost, InTurn)' /\ \A x \in Items(fromHost)' : Ordered(x.requests, Sooner)
  <2>1. CASE fromHost' = Append(fromHost, b)
    <3>1. Before(Carried(fromHost), QueuedIds(b.requests))
      BY <1>4, <1>6, <1>8, <1>11 DEF Before
    <3>2. /\ Items(Append(fromHost, b)) = Items(fromHost) \cup {b}
          /\ Carried(Append(fromHost, b)) = Carried(fromHost) \cup N
          /\ Ordered(Append(fromHost, b), InTurn)
      BY <1>3, <1>4, <1>5, <1>6, <3>1, BatchesAppend DEF LineInv, InLine
    <3> QED
      BY <1>4, <1>6, <2>1, <3>2 DEF LineInv, InLine
  <2>2. CASE kinds = <<>> /\ fromHost' = fromHost
    <3>1. N = {}
      BY <1>3, <1>4, <2>2 DEF N
    <3> QED
      BY <2>2, <3>1 DEF LineInv, InLine
  <2> QED
    BY <1>1, <2>1, <2>2
<1>13. PendingIds' = PendingIds \cup N
  BY <1>8, <1>12
<1>14. InLine'
  <2>1. Before(Active \cup Queued \cup QueuedIds(Held), Carried(fromHost)')
    BY <1>8, <1>11, <1>12 DEF LineInv, InLine, Before
  <2>2. Active \cup PendingIds' \subseteq 1 .. issued'
    <3>1. issued' \in Nat /\ issued <= issued'
      BY <1>1, <1>3, <1>4
    <3> QED
      BY <1>3, <1>10, <1>13, <3>1
  <2> QED
    BY <1>1, <1>7, <1>12, <2>1, <2>2 DEF LineInv, InLine
<1>15. Attempts'
  <2>1. \A w \in Items(wire) : w.id \in 1 .. issued
    BY DEF LineInv, Attempts
  <2>2. \A w \in Items(wire) : w.id \in 1 .. issued' /\ w.id \notin N
    BY <1>1, <1>3, <1>4, <1>10, <2>1
  <2> QED
    BY <1>1, <1>7, <1>12, <2>2 DEF LineInv, Attempts
<1>16. Unended'
  <2>1. \A r \in Ids : r > issued' => r > issued
    BY <1>1, <1>3, <1>4 DEF Ids
  <2> QED
    BY <1>1, <1>7, <1>10, <1>13, <2>1 DEF LineInv, Unended
<1>17. [Life!Next]_(Life!life)
  <2>1. CASE Len(kinds) = 0
    <3>1. N = {} /\ issued' = issued
      BY <1>1, <1>3, <2>1 DEF N
    <3> QED
      BY <1>1, <1>7, <1>13, <3>1, MoveNone DEF LineInv, IInv
  <2>2. CASE Len(kinds) # 0
    <3>1. issued' \in (issued + 1) .. MaxRequests /\ N = (issued + 1) .. issued'
      BY <1>1, <1>3, <1>4, <2>2 DEF N
    <3> QED
      BY <1>1, <1>7, <1>13, <3>1, MoveMake DEF LineInv, IInv
  <2> QED
    BY <2>1, <2>2
<1>18. Onward
  BY <1>1, <1>13 DEF Onward, N
<1> QED
  BY <1>14, <1>15, <1>16, <1>17, <1>18 DEF LineStep

LEMMA OtherLine ==
    ASSUME LineInv, IInv',
           \/ Receive \/ ReadFails \/ PeerLost \/ PeerAccepted \/ PostCall \/ Pull \/ IgnoreResult
           \/ Driven \/ Take \/ RunAwait \/ Quiet
           \/ \E state \in {"sent", "timeout", "rejected"} : Write(state)
           \/ \E op \in {"rx", "notice"} : PassEvent(op)
    PROVE  LineStep
<1>1. UNCHANGED <<queue, write, half, batch, fromHost, issued, wire, ended, discarded>>
  BY DEF Receive, ReadFails, PeerLost, PeerAccepted, PostCall, Pull, IgnoreResult, Driven, Take,
         RunAwait, Quiet, Write, PassEvent, appVars, ioVars, hostVars, history, vars
<1>2. step' = step \/ (step = "drive" /\ step' = "idle")
  BY DEF Receive, ReadFails, PeerLost, PeerAccepted, PostCall, Pull, IgnoreResult, Driven, Take,
         RunAwait, Quiet, Write, PassEvent, appVars, ioVars, hostVars, history, vars
<1>3. step' = step \/ batch = None
  BY <1>2 DEF LineInv, InLine
<1> QED
  BY <1>1, <1>3, FrameLine

\* The requests of the outputs that are dropped have never been sent.
LEMMA ClearedLine ==
    ASSUME LineInv, IInv', Cleared
    PROVE  LineStep
<1> DEFINE S == Carried(fromHost)
<1>1. /\ UNCHANGED <<queue, write, half, batch, issued, wire, ended>> /\ batch = None
      /\ fromHost' = <<>> /\ step' = "idle" /\ discarded' = discarded \cup UnappliedIds
  BY DEF Cleared, LineInv, InLine
<1>2. /\ Queued' = Queued /\ Active' = Active /\ Held' = Held /\ Held = <<>>
      /\ QueuedIds(Held)' = {} /\ QueuedIds(Held) = {}
  BY <1>1, NoRequests DEF Queued, Held, Active
<1>3. Items(fromHost)' = {} /\ Carried(fromHost)' = {} /\ Ordered(fromHost, InTurn)'
  BY <1>1, EmptyItems DEF Carried
<1>4. /\ PendingIds = Queued \cup S /\ PendingIds' = Queued /\ UnappliedIds = S
  BY <1>2, <1>3, PendingParts DEF LineInv, IInv
<1>5. /\ Active \subseteq Nat /\ PendingIds \subseteq Nat /\ PendingIds \subseteq Ids
  BY PartTypes DEF LineInv, IInv
<1>6. PendingIds' = PendingIds \ S
  <2>1. Before(Active \cup Queued \cup QueuedIds(Held), S)
    BY DEF LineInv, InLine
  <2>2. \A x \in Queued : x \notin S
    BY <1>4, <1>5, <2>1 DEF Before
  <2> QED
    BY <1>4, <2>2
<1>7. \A r \in S : ended[r] = 0
  BY <1>4, <1>5 DEF LineInv, Unended
<1>8. \A w \in Items(wire) : w.id \notin S
  BY DEF LineInv, Attempts
<1>9. Life!Next
  <2>1. OneAtATime /\ OneAtATime' /\ wire \in Seq(Request)
    BY DEF LineInv, IInv, TypeOK, HistoryType
  <2>2. discarded' = discarded \cup S /\ Active' = Active /\ S \subseteq PendingIds
    BY <1>1, <1>2, <1>4
  <2> HIDE DEF S
  <2> QED
    BY <1>1, <1>6, <1>7, <1>8, <2>1, <2>2, MoveForget
<1>10. InLine'
  <2>1. Ordered(queue, Sooner)' /\ Ordered(Held, Sooner)' /\ Before(Active, Queued)'
    BY <1>1, <1>2 DEF LineInv, InLine
  <2>2. /\ Before(Active \cup Queued, QueuedIds(Held))'
        /\ Before(Active \cup Queued \cup QueuedIds(Held), Carried(fromHost))'
    BY <1>2, <1>3 DEF Before
  <2>3. (Active \cup PendingIds \subseteq 1 .. issued)'
    BY <1>1, <1>2, <1>4 DEF LineInv, InLine
  <2> QED
    BY <1>1, <1>3, <2>1, <2>2, <2>3 DEF InLine
<1>11. Attempts'
  BY <1>1, <1>2, <1>3 DEF LineInv, Attempts
<1>12. Unended' /\ Onward
  BY <1>1, <1>2, <1>4 DEF LineInv, Unended, Onward
<1> QED
  BY <1>9, <1>10, <1>11, <1>12 DEF LineStep

LEMMA CancelsLine ==
    ASSUME LineInv, IInv', CloseTransport \/ ProcessClose \/ \E ok \in BOOLEAN : OpenTransport(ok)
    PROVE  LineStep
<1>1. CASE CloseTransport
  <2>1. batch = None
    BY <1>1 DEF CloseTransport, LineInv, InLine
  <2> QED
    BY <1>1, <2>1, CancelLine DEF CloseTransport
<1>2. CASE ProcessClose
  BY <1>2, CancelLine DEF ProcessClose
<1>3. CASE \E ok \in BOOLEAN : OpenTransport(ok)
  BY <1>3, CancelLine DEF OpenTransport
<1> QED
  BY <1>1, <1>2, <1>3

LEMMA NextLine ==
    ASSUME LineInv, IInv', [Next]_vars
    PROVE  LineStep
<1>1. CASE Environment
  BY <1>1, CancelsLine, OtherLine DEF Environment
<1>2. CASE IoThread
  BY <1>2, OtherLine DEF IoThread
<1>3. CASE Worker
  BY <1>3, OtherLine, RunCallbackLine DEF Worker
<1>4. CASE Pull \/ BeginBatch \/ RequestTimesOut \/ Quiet
  BY <1>4, OtherLine, BeginBatchLine, RequestTimesOutLine
<1>5. CASE ProcessEvent
  BY <1>5, OtherLine, CancelsLine, ProcessSentLine, ProcessWriteResultLine DEF ProcessEvent
<1>6. CASE Handler
  BY <1>6, EnqueueLine, ApplyDoneLine, RejectLine, HandOverLine, OtherLine, ClearedLine DEF Handler
<1>7. CASE UNCHANGED vars
  BY <1>7, FrameLine DEF vars, appVars, hostVars, history
<1> QED
  BY <1>1, <1>2, <1>3, <1>4, <1>5, <1>6, <1>7 DEF Next

LEMMA InitLine ==
    ASSUME Init
    PROVE  LineInv /\ Life!Init
<1>1. IInv
  BY InitIInv
<1>2. /\ queue = <<>> /\ write = None /\ half = None /\ batch = None /\ fromHost = <<>>
      /\ issued = 0 /\ wire = <<>> /\ ended = [r \in Ids |-> 0]
      /\ discarded = {}
  BY DEF Init
<1>3. /\ Queued = {} /\ Active = {} /\ Held = <<>> /\ QueuedIds(Held) = {} /\ Items(fromHost) = {}
      /\ Carried(fromHost) = {} /\ Items(wire) = {} /\ Ordered(fromHost, InTurn)
      /\ Ordered(queue, Sooner) /\ Ordered(Held, Sooner)
  BY <1>2, NoRequests, EmptyItems DEF Queued, Active, Held, IdOf, Carried
<1>4. PendingIds = {}
  BY <1>1, <1>3, PendingParts DEF IInv
<1>5. InLine
  BY <1>2, <1>3, <1>4 DEF InLine, Before
<1>6. Attempts /\ Unended
  BY <1>2, <1>3 DEF Attempts, Unended
<1>7. Life!Init
  BY <1>1, <1>2, <1>3, <1>4, InProgressIsActive DEF InProgress, IInv, Life!Init, Ids
<1> QED
  BY <1>1, <1>5, <1>6, <1>7 DEF LineInv

LEMMA SpecLine == Spec => []LineInv
<1>1. LineInv /\ [Next]_vars => LineInv'
  BY NextIInv, NextLine DEF LineInv, LineStep
<1> QED
  BY <1>1, InitLine, PTL DEF Spec

\* The scheduler implements the life of requests: every request ends at most once, requests are sent
\* in the order in which the script made them and one at a time, and what is sent again goes before
\* every later request, as finishTxRequest, driveTxScheduler and processRequestTimeouts together have it.
THEOREM RequestsLive == Spec => ImplementsRequestLife
<1>1. LineInv /\ [Next]_vars => [Life!Next]_(Life!life)
  BY NextIInv, NextLine DEF LineInv, LineStep
<1> QED
  BY <1>1, InitLine, SpecLine, PTL DEF Spec, ImplementsRequestLife, Life!Spec

-----------------------------------------------------------------------------
(* Results reach the write they belong to.                                  *)

PipeInv == LineInv /\ Piped /\ Answers

LEMMA PipeTypes ==
    /\ TypeOK => pulled \in Seq(EventType) /\ events \in Seq(EventType) /\ posted \in Seq(Request)
    /\ TypeOK' => pulled' \in Seq(EventType) /\ events' \in Seq(EventType) /\ posted' \in Seq(Request)
BY DEF TypeOK, AppType, IoType

\* Steps that hand nothing to the transport and make nobody wait.
LEMMA ThinnerPipe ==
    ASSUME PipeInv, IInv', Onward, issued' \in Nat, issued <= issued',
           Ordered(pulled, Apart)', Ordered(events, Apart)', Ordered(posted, Unlike)',
           Reports(pulled)' \subseteq Reports(pulled), Reports(events)' \subseteq Reports(events),
           Items(posted)' \subseteq Items(posted),
           write' \in {write, None}, half' \in {half, None}, written' = written
    PROVE  Piped' /\ Answers'
<1>1. /\ About(Reports(pulled))' \subseteq About(Reports(pulled))
      /\ About(Reports(events))' \subseteq About(Reports(events))
  BY DEF About
<1>2. QueuedIds(posted)' \subseteq QueuedIds(posted)
  <2>1. QueuedIds(posted) = {r.id : r \in Items(posted)} /\ QueuedIds(posted)' = {r.id : r \in Items(posted)'}
    BY PipeTypes, Ids_Items DEF PipeInv, LineInv, IInv
  <2> QED
    BY <2>1
<1>3. Underway' \subseteq Underway
  BY <1>1, <1>2 DEF Underway
<1>4. Underway' \cap (IdOf(half)' \cup PendingIds') = {}
  <2>1. Underway \subseteq 1 .. issued /\ Underway \cap (IdOf(half) \cup PendingIds) = {}
    BY DEF PipeInv, Piped
  <2>2. IdOf(half)' \subseteq IdOf(half)
    BY DEF IdOf
  <2>3. issued \in Nat
    BY DEF PipeInv, LineInv, IInv, TypeOK, HistoryType
  <2>4. \A x \in (issued + 1) .. issued' : x \notin 1 .. issued
    BY <2>3
  <2> QED
    BY <1>3, <2>1, <2>2, <2>4 DEF Onward
<1>5. Underway' \subseteq 1 .. issued'
  <2>1. issued \in Nat
    BY DEF PipeInv, LineInv, IInv, TypeOK, HistoryType
  <2>2. \A x \in 1 .. issued : x \in 1 .. issued'
    BY <2>1
  <2> QED
    BY <1>3, <2>2 DEF PipeInv, Piped
<1>6. Piped'
  BY <1>1, <1>2, <1>4, <1>5 DEF PipeInv, Piped
<1>7. Answers'
  BY DEF PipeInv, Answers
<1> QED
  BY <1>6, <1>7

\* Steps of the scheduler and of the worker that leave the transport alone.
LEMMA SamePipe ==
    ASSUME PipeInv, IInv', Onward, UNCHANGED <<pulled, events, posted, written>>,
           issued' \in Nat, issued <= issued', write' \in {write, None}, half' \in {half, None}
    PROVE  Piped' /\ Answers'
BY ThinnerPipe DEF PipeInv, Piped

LEMMA IssuedNumber ==
    ASSUME IInv
    PROVE  issued \in Nat /\ issued <= issued
BY DEF IInv, TypeOK, HistoryType

\* An event is taken, other than the result that makes its request wait.
LEMMA TakenPipe ==
    ASSUME PipeInv, IInv', Onward, NEW op, NextEvent(op), UNCHANGED <<events, posted, written, issued>>,
           write' \in {write, None}, half' \in {half, None}
    PROVE  Piped' /\ Answers'
<1>1. pulled \in Seq(EventType) /\ pulled # <<>> /\ pulled' = Tail(pulled)
  BY PipeTypes DEF PipeInv, LineInv, IInv, NextEvent
<1>2. Reports(Tail(pulled)) \subseteq Reports(pulled) /\ Ordered(Tail(pulled), Apart)
  BY <1>1, EventsHead DEF PipeInv, Piped
<1> QED
  BY <1>1, <1>2, IssuedNumber, ThinnerPipe DEF PipeInv, LineInv, Piped

LEMMA NewTransportPipe ==
    ASSUME PipeInv, IInv', Onward, CloseTransport \/ \E ok \in BOOLEAN : OpenTransport(ok)
    PROVE  Piped' /\ Answers'
<1>1. /\ write' = None /\ half' = None /\ posted' = <<>> /\ UNCHANGED <<written, issued>>
      /\ pulled \in Seq(EventType)
  BY PipeTypes DEF CloseTransport, OpenTransport, CancelAll, PipeInv, LineInv, IInv
<1>2. Ordered(posted, Unlike)' /\ Items(posted)' = {}
  BY <1>1, NoRequests
<1>3. CASE CloseTransport
  <2>1. /\ \/ pulled' = Pick(pulled, {i \in DOMAIN pulled : pulled[i].op = "rx"})
           \/ pulled' = <<>>
        /\ events' = <<>>
    BY <1>3 DEF CloseTransport
  <2>2. Reports(pulled)' = {} /\ Ordered(pulled, Apart)'
    BY <1>1, <2>1, EventsReceived, NoEvents
  <2>3. Reports(events)' = {} /\ Ordered(events, Apart)'
    BY <2>1, NoEvents
  <2> QED
    BY <1>1, <1>2, <2>2, <2>3, IssuedNumber, ThinnerPipe DEF PipeInv, LineInv
<1>4. CASE \E ok \in BOOLEAN : OpenTransport(ok)
  <2>1. pulled' = <<>> /\ events' = <<Event("notice")>>
    BY <1>4 DEF OpenTransport
  <2>2. Reports(pulled)' = {} /\ Ordered(pulled, Apart)'
    BY <2>1, NoEvents
  <2>3. Reports(events)' = {} /\ Ordered(events, Apart)'
    <3>1. Event("notice").op # "tx"
      BY DEF Event
    <3>2. Items(<<Event("notice")>>) = {Event("notice")} /\ Ordered(<<Event("notice")>>, Apart)
      BY OneItem
    <3> QED
      BY <2>1, <3>1, <3>2 DEF Reports
  <2> QED
    BY <1>1, <1>2, <2>2, <2>3, IssuedNumber, ThinnerPipe DEF PipeInv, LineInv
<1> QED
  BY <1>3, <1>4

\* The transport has news that are no result.
LEMMA NewsPipe ==
    ASSUME PipeInv, IInv', Onward, Receive \/ ReadFails \/ PeerLost \/ PeerAccepted
    PROVE  Piped' /\ Answers'
<1>1. /\ UNCHANGED <<pulled, posted, written, issued, write, half>> /\ events \in Seq(EventType)
      /\ \E op \in {"rx", "close", "notice"} : events' = Append(events, Event(op))
  BY PipeTypes DEF Receive, ReadFails, PeerLost, PeerAccepted, appVars, history, PipeInv, LineInv, IInv
<1>2. \A op \in {"rx", "close", "notice"} : Event(op) \in EventType /\ Event(op).op # "tx"
  BY DEF Event, EventType
<1>3. Reports(events)' = Reports(events) /\ Ordered(events, Apart)'
  <2>1. PICK op \in {"rx", "close", "notice"} : events' = Append(events, Event(op))
    BY <1>1
  <2>2. Event(op) \in EventType /\ Event(op).op # "tx"
    BY <1>2
  <2> QED
    BY <1>1, <2>1, <2>2, EventsAppend DEF PipeInv, Piped
<1> QED
  BY <1>1, <1>3, IssuedNumber, ThinnerPipe DEF PipeInv, LineInv, Piped

LEMMA PullPipe ==
    ASSUME PipeInv, IInv', Onward, Pull
    PROVE  Piped' /\ Answers'
<1>1. /\ pulled' = pulled \o events /\ events' = <<>> /\ UNCHANGED <<posted, written, issued, write, half>>
      /\ PendingIds' = PendingIds /\ pulled \in Seq(EventType) /\ events \in Seq(EventType)
  BY PipeTypes DEF Pull, history, hostVars, PipeInv, LineInv, IInv, PendingIds, UnappliedIds
<1>2. /\ Reports(pulled)' = Reports(pulled) \cup Reports(events) /\ Ordered(pulled, Apart)'
      /\ Reports(events)' = {} /\ Ordered(events, Apart)'
  BY <1>1, EventsConcat, NoEvents DEF PipeInv, Piped
<1>3. /\ About(Reports(pulled))' = About(Reports(pulled)) \cup About(Reports(events))
      /\ About(Reports(events))' = {} /\ IdOf(half)' = IdOf(half) /\ QueuedIds(posted)' = QueuedIds(posted)
  BY <1>1, <1>2 DEF About
<1>4. Underway' = Underway
  BY <1>3 DEF Underway
<1>5. Piped'
  BY <1>1, <1>2, <1>3, <1>4 DEF PipeInv, Piped
<1>6. Answers'
  BY <1>1, <1>2 DEF PipeInv, Answers
<1> QED
  BY <1>5, <1>6

\* A posted write is executed: its request goes on as a result.
LEMMA WritePipe ==
    ASSUME PipeInv, IInv', Onward, NEW state \in {"sent", "timeout", "rejected"}, Write(state)
    PROVE  Piped' /\ Answers'
<1> DEFINE h == Head(posted)
           u == Tail(posted)
           e == [op |-> "tx", for |-> Attempt(h), state |-> state]
           n == IF state = "rejected" /\ link # "lost" THEN <<Event("notice")>> ELSE <<>>
<1>1. /\ posted # <<>> /\ posted \in Seq(Request) /\ posted' = u /\ events \in Seq(EventType)
      /\ events' = (events \o n) \o <<e>>
      /\ written' = IF state = "rejected" THEN written ELSE written \cup {Attempt(h)}
      /\ UNCHANGED <<pulled, issued, write, half>> /\ PendingIds' = PendingIds
  BY PipeTypes DEF Write, appVars, hostVars, PipeInv, LineInv, IInv, PendingIds, UnappliedIds
<1>2. /\ h \in Request /\ Items(posted) = {h} \cup Items(u) /\ QueuedIds(posted) = {h.id} \cup QueuedIds(u)
      /\ Ordered(u, Unlike) /\ h.id \notin QueuedIds(u)
  BY <1>1, IdsHead DEF PipeInv, Piped
<1>3. e.for = Attempt(h) /\ e.op = "tx" /\ e.state = state /\ e.for.id = h.id
  BY DEF Attempt
<1>4. e \in EventType /\ Event("notice") \in EventType /\ Event("notice").op # "tx"
  <2>1. Attempt(h) \in AttemptId
    BY <1>2, AttemptType
  <2> QED
    BY <2>1 DEF EventType, Event
<1>5. n \in Seq(EventType) /\ Reports(n) = {} /\ Ordered(n, Apart)
  <2>1. <<Event("notice")>> \in Seq(EventType) /\ <<>> \in Seq(EventType)
    BY <1>4, SmallSeqs
  <2>2. Reports(<<Event("notice")>>) = {} /\ Ordered(<<Event("notice")>>, Apart)
    BY <1>4, OneItem DEF Reports
  <2> QED
    BY <2>1, <2>2, NoEvents
<1> HIDE DEF e, n, h, u
<1>6. h.id \notin About(Reports(events)) /\ h.id \notin About(Reports(pulled))
  BY <1>2 DEF PipeInv, Piped
<1>7. /\ Reports(events)' = Reports(events) \cup {e} /\ Ordered(events, Apart)'
  <2> DEFINE m == events \o n
  <2>1. /\ m \in Seq(EventType) /\ Reports(m) = Reports(events) \cup Reports(n)
        /\ (Ordered(events, Apart) /\ Ordered(n, Apart) /\ About(Reports(events)) \cap About(Reports(n)) = {}
               => Ordered(m, Apart))
    BY <1>1, <1>5, EventsConcat, ConcatProperties
  <2>2. Reports(m) = Reports(events) /\ Ordered(m, Apart)
    BY <1>5, <2>1 DEF PipeInv, Piped, About
  <2> HIDE DEF m
  <2>3. events' = Append(m, e)
    BY <1>1, <1>4, <2>1, AppendIsConcat DEF m
  <2> QED
    BY <1>3, <1>4, <1>6, <2>1, <2>2, <2>3, EventsAppend
<1>8. About(Reports(events))' = About(Reports(events)) \cup {h.id}
  BY <1>3, <1>7 DEF About
<1>9. About(Reports(pulled))' = About(Reports(pulled)) /\ IdOf(half)' = IdOf(half)
      /\ QueuedIds(posted)' = QueuedIds(u) /\ Items(posted)' = Items(u)
      /\ Reports(pulled)' = Reports(pulled)
  BY <1>1
<1>10. Underway' = Underway
  BY <1>2, <1>8, <1>9 DEF Underway
<1>11. Piped'
  BY <1>1, <1>2, <1>6, <1>7, <1>8, <1>9, <1>10 DEF PipeInv, Piped
<1>12. Answers'
  <2>1. \A x \in Reports(pulled) \cup Reports(events) :
           /\ x.state # "rejected" => x.for \in written'
           /\ x.state = "timeout" => MayWriteLate
           /\ write # None /\ x.for.id = write.id => x.for = Attempt(write)
    BY <1>1 DEF PipeInv, Answers
  <2>2. /\ e.state # "rejected" => e.for \in written'
        /\ e.state = "timeout" => MayWriteLate
        /\ write # None /\ e.for.id = write.id => e.for = Attempt(write)
    <3>1. write # None /\ h.id = write.id => Attempt(h) = Attempt(write)
      BY <1>2 DEF PipeInv, Answers
    <3>2. state = "timeout" => MayWriteLate
      BY DEF Write
    <3> QED
      BY <1>1, <1>3, <3>1, <3>2
  <2>3. \A r \in Items(u) : write # None /\ r.id = write.id => Attempt(r) = Attempt(write)
    BY <1>2 DEF PipeInv, Answers
  <2>4. half # None => Attempt(half) \in written'
    BY <1>1 DEF PipeInv, Answers
  <2> QED
    BY <1>1, <1>7, <1>9, <2>1, <2>2, <2>3, <2>4 DEF Answers
<1> QED
  BY <1>11, <1>12

\* A request is handed over: no other attempt of it is under way.
LEMMA HandOverPipe ==
    ASSUME PipeInv, IInv', InLine', Onward, HandOver
    PROVE  Piped' /\ Answers'
<1> DEFINE h == Head(queue)
<1>1. /\ queue # <<>> /\ write' = h /\ half = None /\ half' = None /\ posted' = Append(posted, h)
      /\ posted \in Seq(Request) /\ UNCHANGED <<pulled, events, written, issued>>
  BY PipeTypes DEF HandOver, MaySend, PipeInv, LineInv, IInv
<1>2. h \in Request /\ h.id \in PendingIds
  BY <1>1, FrontOfQueue DEF PipeInv
<1> HIDE DEF h
<1>3. h.id \notin Underway /\ h.id \in 1 .. issued
  BY <1>2 DEF PipeInv, LineInv, InLine, Piped
<1>4. /\ QueuedIds(posted)' = QueuedIds(posted) \cup {h.id} /\ Items(posted)' = Items(posted) \cup {h}
      /\ Ordered(posted, Unlike)'
  BY <1>1, <1>2, <1>3, IdsAppend DEF PipeInv, Piped, Underway
<1>5. h.id \notin PendingIds'
  <2>1. h # None
    BY <1>2, NoneAssumption
  <2>2. h.id \in Active' /\ h.id \in Nat
    BY <1>1, <1>3, <2>1 DEF Active, IdOf
  <2>3. /\ Before(Active, Queued)' /\ Before(Active \cup Queued, QueuedIds(Held))'
        /\ Before(Active \cup Queued \cup QueuedIds(Held), Carried(fromHost))'
    BY DEF InLine
  <2>4. h.id \notin Queued' /\ h.id \notin QueuedIds(Held)' /\ h.id \notin Carried(fromHost)'
    BY <2>2, <2>3 DEF Before
  <2> QED
    BY <2>4, PendingParts DEF IInv
<1>6. /\ Reports(pulled)' = Reports(pulled) /\ Reports(events)' = Reports(events)
      /\ About(Reports(pulled))' = About(Reports(pulled)) /\ About(Reports(events))' = About(Reports(events))
      /\ IdOf(half)' = {} /\ IdOf(half) = {}
  BY <1>1 DEF IdOf
<1>7. Underway' = Underway \cup {h.id}
  BY <1>4, <1>6 DEF Underway
<1>8. Underway' \cap (IdOf(half)' \cup PendingIds') = {}
  <2>1. PendingIds' \subseteq PendingIds
    <3>1. \A x \in (issued + 1) .. issued : FALSE
      BY IssuedNumber DEF PipeInv, LineInv
    <3> QED
      BY <1>1, <1>6, <3>1 DEF Onward
  <2> QED
    BY <1>5, <1>6, <1>7, <2>1 DEF PipeInv, Piped
<1>9. Piped'
  <2>1. /\ About(Reports(pulled)) \cap About(Reports(events)) = {}
        /\ (About(Reports(pulled)) \cup About(Reports(events))) \cap QueuedIds(posted) = {}
        /\ Ordered(pulled, Apart) /\ Ordered(events, Apart) /\ Underway \subseteq 1 .. issued
    BY DEF PipeInv, Piped
  <2>2. h.id \notin About(Reports(pulled)) /\ h.id \notin About(Reports(events))
    BY <1>3 DEF Underway
  <2> QED
    BY <1>1, <1>3, <1>4, <1>6, <1>7, <1>8, <2>1, <2>2 DEF Piped
<1>10. Answers'
  <2>1. \A e \in Reports(pulled) \cup Reports(events) :
           /\ e.state # "rejected" => e.for \in written
           /\ e.state = "timeout" => MayWriteLate
           /\ e.for.id # h.id
    BY <1>3 DEF PipeInv, Answers, Underway, About
  <2>2. \A r \in Items(posted) : r.id # h.id
    <3>1. QueuedIds(posted) = {r.id : r \in Items(posted)}
      BY <1>1, Ids_Items
    <3> QED
      BY <1>3, <3>1 DEF Underway
  <2> QED
    BY <1>1, <1>4, <1>6, <2>1, <2>2 DEF Answers
<1> QED
  BY <1>9, <1>10

\* The write that was sent becomes the request that waits: the result is its own.
LEMMA ProcessSentPipe ==
    ASSUME PipeInv, IInv', InLine', Onward, ProcessSent
    PROVE  Piped' /\ Answers'
<1> DEFINE e == Head(pulled)
           t == Tail(pulled)
<1>1. /\ pulled # <<>> /\ pulled' = t /\ e.op = "tx" /\ e.state = "sent" /\ e.for.id = write.id
      /\ write # None /\ half = None /\ write' = None /\ half' = write /\ pulled \in Seq(EventType)
      /\ UNCHANGED <<events, posted, written, issued>> /\ PendingIds' = PendingIds
  BY PipeTypes
     DEF ProcessSent, NextEvent, IsActiveWrite, ioVars, history, PipeInv, LineInv, IInv, OneAtATime,
         PendingIds, UnappliedIds
<1>2. /\ Reports(pulled) = Reports(t) \cup {e} /\ Ordered(t, Apart) /\ e.for.id \notin About(Reports(t))
  BY <1>1, EventsHead DEF PipeInv, Piped
<1> HIDE DEF e, t
<1>3. e.for = Attempt(write) /\ e.for \in written
  BY <1>1, <1>2 DEF PipeInv, Answers
<1>4. /\ Reports(pulled)' = Reports(t) /\ About(Reports(pulled)) = About(Reports(t)) \cup {write.id}
      /\ Reports(events)' = Reports(events) /\ About(Reports(events))' = About(Reports(events))
      /\ Items(posted)' = Items(posted) /\ QueuedIds(posted)' = QueuedIds(posted)
      /\ IdOf(half)' = {write.id} /\ About(Reports(pulled))' = About(Reports(t))
  BY <1>1, <1>2 DEF About, IdOf
<1>5. Underway' \subseteq Underway /\ write.id \notin Underway'
  BY <1>1, <1>2, <1>4 DEF Underway, PipeInv, Piped
<1>6. Piped'
  <2>1. /\ About(Reports(pulled)) \cap About(Reports(events)) = {}
        /\ (About(Reports(pulled)) \cup About(Reports(events))) \cap QueuedIds(posted) = {}
        /\ Ordered(posted, Unlike) /\ Ordered(events, Apart) /\ Underway \subseteq 1 .. issued
        /\ Underway \cap PendingIds = {}
    BY DEF PipeInv, Piped
  <2> QED
    BY <1>1, <1>2, <1>4, <1>5, <2>1 DEF Piped
<1>7. Answers'
  BY <1>1, <1>2, <1>3, <1>4 DEF PipeInv, Answers
<1> QED
  BY <1>6, <1>7

LEMMA SchedulerPipe ==
    ASSUME PipeInv, IInv', Onward,
           \/ EnqueueTxRequest \/ ApplyDone \/ Reject \/ Driven \/ BeginBatch \/ RequestTimesOut
           \/ PostCall \/ Cleared \/ Take \/ RunAwait \/ UNCHANGED vars
           \/ \E kinds \in Bursts, reset \in BOOLEAN, done \in Dones : RunCallback(kinds, reset, done)
    PROVE  Piped' /\ Answers'
<1>1. /\ UNCHANGED <<pulled, events, posted, written, write>> /\ half' \in {half, None}
  <2>1. ApplyDone => half' \in {half, None}
    BY Zenon DEF ApplyDone
  <2> QED
    BY <2>1 DEF EnqueueTxRequest, ApplyDone, Reject, Driven, BeginBatch, RequestTimesOut, PostCall, Cleared,
                Take, RunAwait, RunCallback, appVars, ioVars, hostVars, history, vars
<1>2. issued' \in Nat /\ issued <= issued'
  <2>1. issued \in Nat /\ issued' \in Nat
    BY DEF PipeInv, LineInv, IInv, TypeOK, HistoryType
  <2>2. \/ issued' = issued
        \/ \E kinds \in Bursts : issued' = issued + Len(kinds)
    BY DEF EnqueueTxRequest, ApplyDone, Reject, Driven, BeginBatch, RequestTimesOut, PostCall, Cleared,
           Take, RunAwait, RunCallback, appVars, ioVars, hostVars, history, vars
  <2>3. \A kinds \in Bursts : Len(kinds) \in Nat
    <3>1. \A kinds \in Bursts : kinds \in Seq(Kinds)
      BY SeqDef DEF Bursts
    <3> QED
      BY <3>1, LenProperties
  <2> QED
    BY <2>1, <2>2, <2>3
<1> QED
  BY <1>1, <1>2, SamePipe

LEMMA EventPipe ==
    ASSUME PipeInv, IInv',
           Onward,
           \/ ProcessClose \/ ProcessWriteResult \/ IgnoreResult
           \/ \E op \in {"rx", "notice"} : PassEvent(op)
    PROVE  Piped' /\ Answers'
<1>1. \E op : NextEvent(op)
  BY DEF ProcessClose, ProcessWriteResult, IgnoreResult, PassEvent
<1>2. /\ UNCHANGED <<events, posted, written, issued>> /\ write' \in {write, None} /\ half' \in {half, None}
  BY DEF ProcessClose, ProcessWriteResult, IgnoreResult, PassEvent, CancelAll, ioVars, hostVars, history
<1> QED
  BY <1>1, <1>2, TakenPipe

LEMMA NextPipe ==
    ASSUME PipeInv, [Next]_vars
    PROVE  PipeInv'
<1>1. IInv' /\ LineStep
  BY NextIInv, NextLine DEF PipeInv, LineInv
<1>2. InLine' /\ Onward /\ LineInv'
  BY <1>1 DEF LineStep, LineInv
<1>3. CASE Environment
  BY <1>1, <1>2, <1>3, NewTransportPipe, NewsPipe, SchedulerPipe DEF Environment, PipeInv
<1>4. CASE IoThread
  BY <1>1, <1>2, <1>4, WritePipe DEF IoThread, PipeInv
<1>5. CASE Worker
  BY <1>1, <1>2, <1>5, SchedulerPipe DEF Worker, PipeInv
<1>6. CASE Pull \/ BeginBatch \/ RequestTimesOut \/ Quiet
  BY <1>1, <1>2, <1>6, PullPipe, SchedulerPipe DEF Quiet, PipeInv
<1>7. CASE ProcessEvent
  BY <1>1, <1>2, <1>7, EventPipe, ProcessSentPipe DEF ProcessEvent, PipeInv
<1>8. CASE Handler
  BY <1>1, <1>2, <1>8, HandOverPipe, SchedulerPipe DEF Handler, PipeInv
<1>9. CASE UNCHANGED vars
  BY <1>1, <1>2, <1>9, SchedulerPipe DEF PipeInv
<1> QED
  BY <1>3, <1>4, <1>5, <1>6, <1>7, <1>8, <1>9 DEF Next

LEMMA InitPipe == Init => PipeInv
<1> HAVE Init
<1>1. pulled = <<>> /\ events = <<>> /\ posted = <<>> /\ half = None /\ write = None
  BY DEF Init
<1>2. /\ Reports(pulled) = {} /\ Reports(events) = {} /\ Items(posted) = {} /\ QueuedIds(posted) = {}
      /\ Ordered(pulled, Apart) /\ Ordered(events, Apart) /\ Ordered(posted, Unlike)
  BY <1>1, NoEvents, NoRequests
<1>3. Underway = {} /\ About(Reports(pulled)) = {} /\ About(Reports(events)) = {}
  BY <1>2 DEF Underway, About
<1>4. Piped
  BY <1>2, <1>3 DEF Piped
<1>5. Answers
  BY <1>1, <1>2 DEF Answers
<1> QED
  BY <1>4, <1>5, InitLine DEF PipeInv

LEMMA SpecPipe == Spec => []PipeInv
BY InitPipe, NextPipe, PTL DEF Spec

\* Only a request whose bytes the transport has written waits for an answer: the result that a
\* cancelled write leaves behind is never taken for that of a later attempt or of another request,
\* although processTransportTxEvent compares nothing but the request's id.
THEOREM WaitsForWritten == Spec => []WaitsOnlyForWritten
<1>1. PipeInv => WaitsOnlyForWritten
  BY DEF PipeInv, Answers, WaitsOnlyForWritten
<1> QED
  BY <1>1, SpecPipe, PTL

-----------------------------------------------------------------------------
(* What the host hears.  After the first n commands of q a host that        *)
(* awaited "first" awaits "last".                                           *)

HeardBy(q, n, first, last) ==
    \/ first = last /\ \A i \in 1 .. n : q[i].op # "await"
    \/ \E i \in 1 .. n : /\ q[i].op = "await" /\ q[i].for = last
                         /\ \A j \in 1 .. n : i < j => q[j].op # "await"

Hears(q, first, last) == HeardBy(q, Len(q), first, last)

LEMMA HearsNothing ==
    ASSUME NEW q \in Seq(HostCommandType), \A x \in Items(q) : x.op # "await", NEW m
    PROVE  Hears(q, m, m)
BY DEF Hears, HeardBy, Items

LEMMA HearsOne ==
    ASSUME NEW a, NEW b, a.op = "await", b.op # "await", NEW m
    PROVE  Hears(<<a, b>>, m, a.for)
<1> DEFINE q == <<a, b>>
<1>1. Len(q) = 2 /\ q[1] = a /\ q[2] = b
  OBVIOUS
<1> HIDE DEF q
<1>2. 1 \in 1 .. 2 /\ \A j \in 1 .. 2 : 1 < j => j = 2
  OBVIOUS
<1>3. HeardBy(q, 2, m, a.for)
  BY <1>1, <1>2 DEF HeardBy
<1> QED
  BY <1>1, <1>3 DEF Hears, q

\* Commands behind others.
LEMMA HearsConcat ==
    ASSUME NEW q \in Seq(HostCommandType), NEW c \in Seq(HostCommandType), NEW f, NEW m, NEW l,
           Hears(q, f, m), NEW n \in 0 .. Len(c), HeardBy(c, n, m, l)
    PROVE  HeardBy(q \o c, Len(q) + n, f, l)
<1> DEFINE d == q \o c
           k == Len(q)
<1>1. /\ k \in Nat /\ Len(c) \in Nat /\ n \in Nat /\ n <= Len(c)
      /\ \A i \in 1 .. k + Len(c) : d[i] = IF i <= k THEN q[i] ELSE c[i - k]
  BY ConcatProperties, LenProperties
<1>2. HeardBy(q, k, f, m)
  BY DEF Hears
<1> HIDE DEF d, k
<1>3. \A i \in 1 .. k : i \in 1 .. k + n /\ d[i] = q[i]
  BY <1>1
<1>4. ASSUME NEW i \in 1 .. n PROVE i + k \in 1 .. k + n /\ d[i + k] = c[i]
  <2>1. i + k \in 1 .. k + Len(c) /\ ~(i + k <= k) /\ (i + k) - k = i /\ i + k \in 1 .. k + n
    BY <1>1
  <2> QED
    BY <1>1, <2>1
<1>5. ASSUME NEW i \in 1 .. k + n
      PROVE  i \in 1 .. k \/ (i - k \in 1 .. n /\ d[i] = c[i - k] /\ i > k)
  <2>1. CASE i <= k
    BY <1>1, <2>1
  <2>2. CASE i > k
    <3>1. i - k \in 1 .. n /\ i \in 1 .. k + Len(c) /\ ~(i <= k)
      BY <1>1, <2>2
    <3> QED
      BY <1>1, <2>2, <3>1
  <2> QED
    BY <1>1, <2>1, <2>2
<1>6. CASE m = l /\ \A i \in 1 .. n : c[i].op # "await"
  <2>1. \A i \in 1 .. k + n : d[i].op = "await" => i \in 1 .. k
    BY <1>5, <1>6
  <2>2. CASE f = m /\ \A i \in 1 .. k : q[i].op # "await"
    <3>1. \A i \in 1 .. k + n : d[i].op # "await"
      BY <1>3, <2>1, <2>2
    <3> QED
      BY <1>6, <2>2, <3>1 DEF HeardBy, d, k
  <2>3. ASSUME NEW i \in 1 .. k, q[i].op = "await", q[i].for = m,
               \A j \in 1 .. k : i < j => q[j].op # "await"
        PROVE  HeardBy(d, k + n, f, l)
    <3>1. \A j \in 1 .. k + n : i < j => d[j].op # "await"
      BY <1>3, <2>1, <2>3
    <3> QED
      BY <1>3, <1>6, <2>3, <3>1 DEF HeardBy
  <2> QED
    BY <1>2, <2>2, <2>3 DEF HeardBy, d, k
<1>7. ASSUME NEW i \in 1 .. n, c[i].op = "await", c[i].for = l,
             \A j \in 1 .. n : i < j => c[j].op # "await"
      PROVE  HeardBy(d, k + n, f, l)
  <2>1. i + k \in 1 .. k + n /\ d[i + k] = c[i]
    BY <1>4
  <2>2. ASSUME NEW j \in 1 .. k + n, i + k < j PROVE d[j].op # "await"
    <3>1. j \notin 1 .. k
      BY <1>1, <2>2
    <3>2. j - k \in 1 .. n /\ d[j] = c[j - k]
      BY <1>5, <3>1
    <3>3. i < j - k
      BY <1>1, <2>2
    <3> QED
      BY <1>7, <3>2, <3>3
  <2> QED
    BY <1>7, <2>1, <2>2 DEF HeardBy
<1> QED
  BY <1>6, <1>7 DEF HeardBy, d, k

LEMMA HearsBoth ==
    ASSUME NEW q \in Seq(HostCommandType), NEW c \in Seq(HostCommandType), NEW f, NEW m, NEW l,
           Hears(q, f, m), Hears(c, m, l)
    PROVE  Hears(q \o c, f, l)
<1>1. Len(c) \in 0 .. Len(c) /\ Len(q \o c) = Len(q) + Len(c)
  BY LenProperties, ConcatProperties
<1>2. HeardBy(q \o c, Len(q) + Len(c), f, l)
  BY <1>1, HearsConcat DEF Hears
<1> QED
  BY <1>1, <1>2 DEF Hears

\* The host takes the command in front.
LEMMA HearsTail ==
    ASSUME NEW q \in Seq(HostCommandType), q # <<>>, NEW f, NEW l, NEW n \in 0 .. Len(Tail(q)),
           HeardBy(q, n + 1, f, l)
    PROVE  HeardBy(Tail(q), n, IF Head(q).op = "await" THEN Head(q).for ELSE f, l)
<1> DEFINE t == Tail(q)
           g == IF Head(q).op = "await" THEN Head(q).for ELSE f
<1>1. /\ Head(q) = q[1] /\ Len(t) \in Nat /\ n \in Nat /\ n <= Len(t)
      /\ \A i \in 1 .. Len(t) : t[i] = q[i + 1]
  BY HeadTailProperties, LenProperties
<1> HIDE DEF t
<1>2. ASSUME NEW i \in 1 .. n PROVE i + 1 \in 1 .. n + 1 /\ t[i] = q[i + 1]
  BY <1>1
<1>3. ASSUME NEW i \in 1 .. n + 1 PROVE i = 1 \/ (i - 1 \in 1 .. n /\ q[i] = t[i - 1])
  <2> SUFFICES ASSUME i # 1 PROVE i - 1 \in 1 .. n /\ q[i] = t[i - 1]
    OBVIOUS
  <2>1. i - 1 \in 1 .. n /\ (i - 1) + 1 = i
    BY <1>1
  <2> QED
    BY <1>2, <2>1
<1>4. 1 \in 1 .. n + 1
  BY <1>1
<1>5. CASE f = l /\ \A i \in 1 .. n + 1 : q[i].op # "await"
  <2>1. g = l
    BY <1>1, <1>4, <1>5
  <2>2. \A i \in 1 .. n : t[i].op # "await"
    BY <1>2, <1>5
  <2> QED
    BY <2>1, <2>2 DEF HeardBy, t
<1>6. ASSUME NEW i \in 1 .. n + 1, q[i].op = "await", q[i].for = l,
             \A j \in 1 .. n + 1 : i < j => q[j].op # "await"
      PROVE  HeardBy(t, n, g, l)
  <2>1. CASE i = 1
    <3>1. g = l
      BY <1>1, <1>6, <2>1
    <3>2. ASSUME NEW j \in 1 .. n PROVE t[j].op # "await"
      <4>1. i < j + 1
        BY <2>1
      <4> QED
        BY <1>2, <1>6, <4>1
    <3> QED
      BY <3>1, <3>2 DEF HeardBy
  <2>2. CASE i # 1
    <3>1. i - 1 \in 1 .. n /\ q[i] = t[i - 1]
      BY <1>3, <2>2
    <3>2. ASSUME NEW j \in 1 .. n, i - 1 < j PROVE t[j].op # "await"
      <4>1. i < j + 1
        BY <3>2
      <4> QED
        BY <1>2, <1>6, <4>1
    <3> QED
      BY <1>6, <3>1, <3>2 DEF HeardBy
  <2> QED
    BY <2>1, <2>2
<1> QED
  BY <1>5, <1>6 DEF HeardBy, t

\* Received bytes are taken out of the queue.
LEMMA HearsPick ==
    ASSUME NEW q \in Seq(HostCommandType), NEW f, NEW l, Hears(q, f, l)
    PROVE  Hears(Pick(q, {i \in DOMAIN q : q[i].op # "rx"}), f, l)
<1> DEFINE S == {i \in DOMAIN q : q[i].op # "rx"}
           p == Pick(q, S)
           n == Cardinality(S)
<1>1. /\ p \in Seq(HostCommandType) /\ Len(p) = n
      /\ \A i \in 1 .. n : p[i] = q[Nth(S, i)] /\ Nth(S, i) \in S
      /\ \A j \in S : \E i \in 1 .. n : Nth(S, i) = j
      /\ \A i, j \in 1 .. n : i < j => Nth(S, i) < Nth(S, j)
  <2>1. S \in SUBSET (DOMAIN q)
    OBVIOUS
  <2> HIDE DEF S
  <2> QED
    BY <2>1, PickProperties, Zenon
<1>2. DOMAIN q = 1 .. Len(q) /\ Len(q) \in Nat
  BY LenProperties
<1>3. \A k \in 1 .. Len(q) : q[k].op = "await" => k \in S
  BY <1>2
<1>4. \A k \in S : k \in 1 .. Len(q)
  BY <1>2
<1> HIDE DEF p, n, S
<1>5. CASE f = l /\ \A i \in 1 .. Len(q) : q[i].op # "await"
  <2>1. \A i \in 1 .. n : p[i].op # "await"
    BY <1>1, <1>4, <1>5
  <2>2. Len(p) = n
    BY <1>1
  <2> QED
    BY <1>5, <2>1, <2>2 DEF Hears, HeardBy, p, S
<1>6. ASSUME NEW k \in 1 .. Len(q), q[k].op = "await", q[k].for = l,
             \A j \in 1 .. Len(q) : k < j => q[j].op # "await"
      PROVE  Hears(p, f, l)
  <2>1. PICK i \in 1 .. n : Nth(S, i) = k
    BY <1>1, <1>3, <1>6
  <2>2. ASSUME NEW j \in 1 .. n, i < j PROVE p[j].op # "await"
    <3>1. Nth(S, j) \in 1 .. Len(q) /\ k < Nth(S, j) /\ p[j] = q[Nth(S, j)]
      BY <1>1, <1>4, <2>1, <2>2
    <3> QED
      BY <1>6, <3>1
  <2>3. p[i] = q[k]
    BY <1>1, <2>1
  <2> QED
    BY <1>1, <1>6, <2>2, <2>3 DEF Hears, HeardBy
<1> QED
  BY <1>5, <1>6 DEF Hears, HeardBy, p, S

-----------------------------------------------------------------------------
(* What the application posts tells the host who waits.                     *)

WhoWaits == IF half = None THEN None ELSE Attempt(half)

\* What a step posts: behind it the host will await whoever waits then; received bytes come alone;
\* and what the script hears of as to be sent again is in the queue, or was written too late.
Posts ==
    \E c \in Seq(HostCommandType) :
        /\ toHost' = toHost \o c
        /\ Hears(c, WhoWaits, WhoWaits')
        /\ (\A x \in Items(c) : x.op # "rx") \/ (c = <<Callback("rx")>> /\ half' = half)
        /\ \A x \in Items(c) : x.guard = "retrying" =>
              MayWriteLate \/ \E r \in Items(queue)' : r.id = x.for.id

LEMMA Commands ==
    /\ \A r, state : /\ TxEvent(r, state).op = "tx" /\ TxEvent(r, state).for.id = r.id
                     /\ TxEvent(r, state).guard = "retrying" => state = "timeout" /\ MayRetry(r)
    /\ \A x : AwaitCompletion(x).op = "await" /\ AwaitCompletion(x).for = x /\ AwaitCompletion(x).guard = "none"
    /\ \A op : Callback(op).op = op /\ Callback(op).guard = "none"
BY DEF TxEvent, HostCommand, Attempt, GuardStateForEvent, MayRetry, AwaitCompletion, Callback

LEMMA PostsNothing ==
    ASSUME IInv, UNCHANGED <<toHost, half>>
    PROVE  Posts
<1>1. /\ <<>> \in Seq(HostCommandType) /\ toHost' = toHost \o <<>> /\ Items(<<>>) = {}
      /\ Len(<<>>) = 0
  BY ConcatEmptySeq, SmallSeqs, EmptyItems DEF IInv, TypeOK, HostType
<1>2. Hears(<<>>, WhoWaits, WhoWaits') /\ half' = half
  BY <1>1, HearsNothing DEF WhoWaits
<1> QED
  BY <1>1, <1>2 DEF Posts

LEMMA PostsOne ==
    ASSUME NEW x \in HostCommandType, PostToHost(<<x>>), half' = half, x.op # "await",
           x.op = "rx" => x = Callback("rx"), x.guard = "retrying" => MayWriteLate
    PROVE  Posts
<1> DEFINE c == <<x>>
<1>1. c \in Seq(HostCommandType) /\ Items(c) = {x} /\ toHost' = toHost \o c
  BY OneItem, SmallSeqs DEF PostToHost
<1>2. x.op = "rx" => c = <<Callback("rx")>>
  OBVIOUS
<1> HIDE DEF c
<1>3. Hears(c, WhoWaits, WhoWaits')
  BY <1>1, HearsNothing DEF WhoWaits
<1> QED
  BY <1>1, <1>2, <1>3 DEF Posts

LEMMA PostsTwo ==
    ASSUME NEW x \in HostCommandType, NEW y \in HostCommandType, PostToHost(<<x, y>>),
           x.op = "await", x.guard = "none", x.for = WhoWaits', y.op = "tx",
           y.guard = "retrying" => \E r \in Items(queue)' : r.id = y.for.id
    PROVE  Posts
<1> DEFINE c == <<x, y>>
<1>1. c \in Seq(HostCommandType) /\ toHost' = toHost \o c
  BY SmallSeqs DEF PostToHost
<1>2. Items(c) = {x, y}
  <2>1. Len(c) = 2 /\ c[1] = x /\ c[2] = y
    OBVIOUS
  <2>2. \A i : i \in 1 .. 2 <=> i = 1 \/ i = 2
    OBVIOUS
  <2> HIDE DEF c
  <2> QED
    BY <2>1, <2>2 DEF Items
<1>3. Hears(c, WhoWaits, WhoWaits')
  <2>1. Hears(c, WhoWaits, x.for)
    BY HearsOne
  <2> HIDE DEF c
  <2> QED
    BY <2>1
<1> HIDE DEF c
<1> QED
  BY <1>1, <1>2, <1>3 DEF Posts

\* What cancelAllTxRequests posts, after the callback of a close or alone.
LEMMA PostsCancel ==
    ASSUME IInv, CancelAll,
           PostToHost(CancelCommands) \/ PostToHost(<<Callback("close")>> \o CancelCommands)
    PROVE  Posts
<1> DEFINE A == IF write = None THEN <<>> ELSE <<TxEvent(write, "canceled")>>
           n == AwaitCompletion(None)
           B == IF half = None THEN <<>> ELSE <<n, n, TxEvent(half, "canceled")>>
           C == Canceled(queue)
           F == <<Callback("close")>>
           Plain(c) == \A x \in Items(c) : x.op \notin {"await", "rx"} /\ x.guard # "retrying"
           Still(c) == \A x \in Items(c) : x.op # "rx" /\ x.guard # "retrying"
<1>1. /\ queue \in Seq(Request) /\ write \in Request \cup {None} /\ half \in Request \cup {None}
      /\ WhoWaits' = None
  BY DEF IInv, TypeOK, AppType, CancelAll, WhoWaits
<1>2. A \in Seq(HostCommandType) /\ Plain(A)
  <2>1. CASE write = None
    BY <2>1, SmallSeqs, EmptyItems
  <2>2. CASE write # None
    <3>1. /\ TxEvent(write, "canceled") \in HostCommandType /\ TxEvent(write, "canceled").op = "tx"
          /\ TxEvent(write, "canceled").guard # "retrying"
      BY <1>1, <2>2, TxEventType, Commands
    <3>2. Items(<<TxEvent(write, "canceled")>>) = {TxEvent(write, "canceled")}
      BY OneItem
    <3> QED
      BY <2>2, <3>1, <3>2, SmallSeqs
  <2> QED
    BY <2>1, <2>2
<1>3. B \in Seq(HostCommandType) /\ Still(B) /\ Hears(B, WhoWaits, None)
  <2>1. CASE half = None
    <3>1. B = <<>> /\ <<>> \in Seq(HostCommandType) /\ Items(<<>>) = {} /\ WhoWaits = None
      BY <2>1, SmallSeqs, EmptyItems DEF WhoWaits
    <3>2. Hears(<<>>, None, None)
      BY <3>1, HearsNothing
    <3> QED
      BY <3>1, <3>2
  <2>2. CASE half # None
    <3> DEFINE e == TxEvent(half, "canceled")
    <3>1. e \in HostCommandType /\ e.op = "tx" /\ e.guard # "retrying"
      BY <1>1, <2>2, TxEventType, Commands
    <3>2. n \in HostCommandType /\ n.op = "await" /\ n.guard = "none" /\ n.for = None
      BY AwaitType, Commands
    <3> HIDE DEF e, n
    <3> DEFINE c == <<n, n, e>>
    <3>3. c \in Seq(HostCommandType) /\ Len(c) = 3 /\ c[1] = n /\ c[2] = n /\ c[3] = e
      BY <3>1, <3>2, SmallSeqs
    <3>4. B = c
      BY <2>2 DEF e
    <3> HIDE DEF B, c
    <3>5. \A i : i \in 1 .. 3 <=> i = 1 \/ i = 2 \/ i = 3
      OBVIOUS
    <3>6. Still(c)
      BY <3>1, <3>2, <3>3, <3>5 DEF Items
    <3>7. 2 \in 1 .. 3 /\ \A j \in 1 .. 3 : 2 < j => j = 3
      OBVIOUS
    <3>8. HeardBy(c, 3, WhoWaits, None)
      BY <3>1, <3>2, <3>3, <3>7 DEF HeardBy
    <3> QED
      BY <3>3, <3>4, <3>6, <3>8 DEF Hears
  <2> QED
    BY <2>1, <2>2
<1>4. C \in Seq(HostCommandType) /\ Plain(C)
  <2>1. DOMAIN queue = 1 .. Len(queue) /\ Len(queue) \in Nat
    BY <1>1, LenProperties
  <2>2. \A i \in 1 .. Len(queue) : /\ TxEvent(queue[i], "canceled") \in HostCommandType
                                   /\ TxEvent(queue[i], "canceled").op = "tx"
                                   /\ TxEvent(queue[i], "canceled").guard # "retrying"
    BY <1>1, ElementOfSeq, TxEventType, Commands
  <2>3. C \in [1 .. Len(queue) -> HostCommandType]
    BY <2>1, <2>2 DEF Canceled
  <2>4. C \in Seq(HostCommandType)
    BY <2>1, <2>3, SeqDef
  <2>5. Len(C) = Len(queue)
    BY <2>1, <2>3, <2>4, LenProperties
  <2>6. \A i \in 1 .. Len(queue) : C[i] = TxEvent(queue[i], "canceled")
    BY <2>1 DEF Canceled
  <2> HIDE DEF C
  <2>7. Plain(C)
    BY <2>2, <2>5, <2>6 DEF Items
  <2> QED
    BY <2>4, <2>7
<1>5. F \in Seq(HostCommandType) /\ Plain(F)
  <2>1. /\ Callback("close") \in HostCommandType /\ Callback("close").op = "close"
        /\ Callback("close").guard = "none"
    BY CallbackType, Commands
  <2>2. Items(F) = {Callback("close")}
    BY OneItem
  <2> QED
    BY <2>1, <2>2, SmallSeqs
<1>6. CancelCommands = (A \o B) \o C
  BY DEF CancelCommands
<1> HIDE DEF A, B, C, F
<1>7. /\ Hears(A, WhoWaits, WhoWaits) /\ Hears(C, None, None) /\ Hears(F, WhoWaits, WhoWaits)
  BY <1>2, <1>4, <1>5, HearsNothing
<1>8. A \o B \in Seq(HostCommandType) /\ Hears(A \o B, WhoWaits, None) /\ Still(A \o B)
  <2>1. Items(A \o B) = Items(A) \cup Items(B)
    BY <1>2, <1>3, ConcatItems
  <2> QED
    BY <1>2, <1>3, <1>7, <2>1, HearsBoth, ConcatProperties
<1> DEFINE D == (A \o B) \o C
<1>9. D \in Seq(HostCommandType) /\ Hears(D, WhoWaits, None) /\ Still(D)
  <2>1. Items(D) = Items(A \o B) \cup Items(C)
    BY <1>4, <1>8, ConcatItems
  <2> QED
    BY <1>4, <1>7, <1>8, <2>1, HearsBoth, ConcatProperties
<1> HIDE DEF D
<1>10. F \o D \in Seq(HostCommandType) /\ Hears(F \o D, WhoWaits, None) /\ Still(F \o D)
  <2>1. Items(F \o D) = Items(F) \cup Items(D)
    BY <1>5, <1>9, ConcatItems
  <2> QED
    BY <1>5, <1>7, <1>9, <2>1, HearsBoth, ConcatProperties
<1>11. toHost' = toHost \o D \/ toHost' = toHost \o (F \o D)
  BY <1>6 DEF PostToHost, D, F
<1>12. CASE toHost' = toHost \o D
  BY <1>1, <1>9, <1>12 DEF Posts
<1>13. CASE toHost' = toHost \o (F \o D)
  <2> DEFINE E == F \o D
  <2>1. E \in Seq(HostCommandType) /\ Hears(E, WhoWaits, None) /\ Still(E) /\ toHost' = toHost \o E
    BY <1>10, <1>13
  <2> HIDE DEF E
  <2> QED
    BY <1>1, <2>1 DEF Posts
<1> QED
  BY <1>11, <1>12, <1>13

LEMMA TxEventPosts ==
    ASSUME NEW r \in Request, NEW state, PostToHost(<<TxEvent(r, state)>>), half' = half,
           state = "timeout" => MayWriteLate
    PROVE  Posts
BY TxEventType, Commands, PostsOne

LEMMA CallbackPosts ==
    ASSUME NEW op \in {"rx", "call", "tx"}, PostToHost(<<Callback(op)>>), half' = half
    PROVE  Posts
BY CallbackType, Commands, PostsOne

\* A request waits, or nobody waits any more, and the script hears of it.
LEMMA AwaitPosts ==
    ASSUME NEW r \in Request, NEW state, NEW for \in AttemptId \cup {None},
           PostToHost(<<AwaitCompletion(for), TxEvent(r, state)>>), for = WhoWaits',
           state = "timeout" /\ MayRetry(r) => \E x \in Items(queue)' : x.id = r.id
    PROVE  Posts
<1> DEFINE a == AwaitCompletion(for)
           e == TxEvent(r, state)
<1>1. a \in HostCommandType /\ a.op = "await" /\ a.guard = "none" /\ a.for = for
  BY AwaitType, Commands
<1>2. e \in HostCommandType /\ e.op = "tx" /\ (e.guard = "retrying" => state = "timeout" /\ MayRetry(r))
      /\ e.for.id = r.id
  BY TxEventType, Commands
<1>3. PostToHost(<<a, e>>)
  OBVIOUS
<1> HIDE DEF a, e
<1> QED
  BY <1>1, <1>2, <1>3, PostsTwo

LEMMA EventsPost ==
    ASSUME PipeInv, IInv',
           \/ ProcessSent \/ ProcessWriteResult \/ IgnoreResult \/ ProcessClose
           \/ \E op \in {"rx", "notice"} : PassEvent(op)
    PROVE  Posts
<1>1. CASE ProcessSent
  <2>1. /\ write \in Request /\ write # None /\ half' = write
        /\ PostToHost(<<AwaitCompletion(Attempt(write)), TxEvent(write, "sent")>>)
    BY <1>1 DEF ProcessSent, IsActiveWrite, PipeInv, LineInv, IInv, TypeOK, AppType
  <2>2. Attempt(write) \in AttemptId \cup {None} /\ WhoWaits' = Attempt(write)
    BY <2>1, AttemptType DEF WhoWaits
  <2> QED
    BY <2>1, <2>2, AwaitPosts
<1>2. CASE ProcessWriteResult
  <2> DEFINE state == Head(pulled).state
  <2>1. /\ write \in Request /\ PostToHost(<<TxEvent(write, state)>>) /\ half' = half
        /\ pulled # <<>> /\ pulled \in Seq(EventType) /\ Head(pulled).op = "tx"
    BY <1>2, PipeTypes
       DEF ProcessWriteResult, NextEvent, IsActiveWrite, PipeInv, LineInv, IInv, TypeOK, AppType
  <2>2. Head(pulled) \in Reports(pulled)
    BY <2>1, EventsHead
  <2>3. state = "timeout" => MayWriteLate
    BY <2>2 DEF PipeInv, Answers
  <2> HIDE DEF state
  <2> QED
    BY <2>1, <2>3, TxEventPosts
<1>3. CASE IgnoreResult
  BY <1>3, PostsNothing DEF IgnoreResult, hostVars, PipeInv, LineInv
<1>4. CASE ProcessClose
  BY <1>4, PostsCancel DEF ProcessClose, PipeInv, LineInv
<1>5. ASSUME NEW op \in {"rx", "notice"}, PassEvent(op) PROVE Posts
  <2> DEFINE c == IF op = "rx" THEN "rx" ELSE "call"
  <2>1. c \in {"rx", "call", "tx"} /\ PostToHost(<<Callback(c)>>) /\ half' = half
    BY <1>5 DEF PassEvent
  <2> HIDE DEF c
  <2> QED
    BY <2>1, CallbackPosts
<1> QED
  BY <1>1, <1>2, <1>3, <1>4, <1>5

LEMMA OthersPost ==
    ASSUME PipeInv, IInv',
           \/ Environment \/ IoThread \/ Pull \/ Driven \/ HandOver \/ Reject \/ BeginBatch \/ Cleared
           \/ UNCHANGED vars
    PROVE  Posts
<1> USE DEF PipeInv, LineInv
<1>1. CASE Environment
  <2>1. CASE CloseTransport \/ \E ok \in BOOLEAN : OpenTransport(ok)
    BY <2>1, PostsCancel DEF CloseTransport, OpenTransport
  <2>2. CASE Receive \/ ReadFails \/ PeerLost \/ PeerAccepted
    BY <2>2, PostsNothing DEF Receive, ReadFails, PeerLost, PeerAccepted, appVars, hostVars
  <2>3. CASE PostCall
    BY <2>3, CallbackPosts DEF PostCall, appVars
  <2> QED
    BY <1>1, <2>1, <2>2, <2>3 DEF Environment
<1>2. CASE IoThread \/ Pull \/ Driven \/ HandOver \/ Cleared \/ UNCHANGED vars
  BY <1>2, PostsNothing DEF IoThread, Write, Pull, Driven, HandOver, Cleared, appVars, hostVars, vars
<1>3. CASE Reject
  <2>1. Head(queue) \in Request
    BY <1>3, FrontOfQueue DEF Reject, MaySend
  <2> QED
    BY <1>3, <2>1, TxEventPosts DEF Reject
<1>4. CASE BeginBatch
  <2>1. half' = half /\ (PostToHost(<<Callback("tx")>>) \/ PostToHost(<<>>))
    BY <1>4, Zenon DEF BeginBatch
  <2>2. toHost \o <<>> = toHost
    BY ConcatEmptySeq DEF IInv, TypeOK, HostType
  <2> QED
    BY <2>1, <2>2, CallbackPosts, PostsNothing DEF PostToHost
<1> QED
  BY <1>1, <1>2, <1>3, <1>4

LEMMA SchedulerPosts ==
    ASSUME PipeInv, IInv', EnqueueTxRequest \/ ApplyDone \/ RequestTimesOut
    PROVE  Posts
<1> USE DEF PipeInv, LineInv
<1>1. CASE EnqueueTxRequest
  <2> DEFINE r == Head(batch.requests)
             h == Head(queue)
             new == IF Overflow = "drop_newest" THEN "dropped" ELSE "rejected"
  <2>1. \/ PostToHost(<<TxEvent(r, "rejected")>>)
        \/ toHost' = toHost
        \/ queue # <<>> /\ PostToHost(<<TxEvent(h, "dropped")>>)
        \/ PostToHost(<<TxEvent(r, new)>>)
    <3> HIDE DEF r, h, new
    <3> QED
      BY <1>1, Zenon DEF EnqueueTxRequest, r, h, new
  <2>2. half' = half /\ r \in Request
    <3>1. batch.requests # <<>> /\ batch.requests \in Seq(Request) /\ half' = half
      BY <1>1 DEF EnqueueTxRequest, IInv, BatchInHand, Batch
    <3> QED
      BY <3>1, IdsHead
  <2>3. queue # <<>> => h \in Request
    BY FrontOfQueue
  <2>4. new # "timeout"
    OBVIOUS
  <2> HIDE DEF r, h, new
  <2> QED
    BY <2>1, <2>2, <2>3, <2>4, TxEventPosts, PostsNothing
<1>2. CASE ApplyDone
  <2> DEFINE state == IF batch.done.ok THEN "completed" ELSE "failed"
  <2>1. \/ /\ half # None /\ half' = None
           /\ PostToHost(<<AwaitCompletion(None), TxEvent(half, state)>>)
        \/ UNCHANGED <<half, toHost>>
    BY <1>2, Zenon DEF ApplyDone
  <2>2. state # "timeout"
    OBVIOUS
  <2> HIDE DEF state
  <2>3. CASE /\ half # None /\ half' = None
             /\ PostToHost(<<AwaitCompletion(None), TxEvent(half, state)>>)
    <3>1. half \in Request /\ None = WhoWaits' /\ None \in AttemptId \cup {None}
      BY <2>3 DEF IInv, TypeOK, AppType, WhoWaits
    <3> QED
      BY <2>2, <2>3, <3>1, AwaitPosts
  <2> QED
    BY <2>1, <2>3, PostsNothing
<1>3. CASE RequestTimesOut
  <2>1. /\ half \in Request /\ half # None /\ half' = None /\ queue \in Seq(Request)
        /\ PostToHost(<<AwaitCompletion(None), TxEvent(half, "timeout")>>)
    BY <1>3 DEF RequestTimesOut, TimeoutCommands, IInv, TypeOK, AppType
  <2>2. None = WhoWaits' /\ None \in AttemptId \cup {None}
    BY <2>1 DEF WhoWaits
  <2>3. MayRetry(half) => \E x \in Items(queue)' : x.id = half.id
    <3> HAVE MayRetry(half)
    <3> DEFINE r == [half EXCEPT !.attempt = @ + 1]
    <3>1. queue' = <<r>> \o queue /\ r.id = half.id
      BY <1>3, <2>1 DEF RequestTimesOut, RetryQueue, Request
    <3>2. r \in Request
      <4>1. half.attempt \in 1 .. MaxAttempts /\ half.attempt < MaxAttempts /\ MaxAttempts \in Nat
        BY <2>1, TxAssumption DEF MayRetry, Request
      <4>2. half.attempt + 1 \in 1 .. MaxAttempts
        BY <4>1
      <4> QED
        BY <2>1, <4>2 DEF Request
    <3> HIDE DEF r
    <3>3. Items(<<r>> \o queue) = {r} \cup Items(queue)
      BY <2>1, <3>2, IdsFront
    <3>4. r \in Items(<<r>> \o queue)
      BY <3>3
    <3> QED
      BY <3>1, <3>4
  <2> QED
    BY <2>1, <2>2, <2>3, AwaitPosts
<1> QED
  BY <1>1, <1>2, <1>3

\* Every step but those of the worker posts so, and leaves to the worker what is the worker's.
LEMMA StepPosts ==
    ASSUME PipeInv, [Next]_vars, ~Worker
    PROVE  Posts /\ UNCHANGED <<exec, awaiting, doneFor>>
<1>1. IInv'
  BY NextIInv DEF PipeInv, LineInv
<1>2. Posts
  BY <1>1, EventsPost, OthersPost, SchedulerPosts DEF Next, ProcessEvent, Handler, Quiet
<1>3. UNCHANGED <<exec, awaiting, doneFor>>
  <2> USE DEF appVars, hostVars, history, vars, ioVars
  <2>1. CASE Environment \/ IoThread \/ Pull \/ BeginBatch \/ RequestTimesOut \/ UNCHANGED vars
    BY <2>1 DEF Environment, OpenTransport, CloseTransport, Receive, ReadFails, PeerLost, PeerAccepted,
                PostCall, IoThread, Write, Pull, BeginBatch, RequestTimesOut
  <2>2. CASE ProcessEvent
    BY <2>2 DEF ProcessEvent, PassEvent, ProcessClose, ProcessSent, ProcessWriteResult, IgnoreResult
  <2>3. CASE Handler
    BY <2>3 DEF Handler, EnqueueTxRequest, ApplyDone, Reject, HandOver, Driven, Cleared
  <2> QED
    BY <2>1, <2>2, <2>3 DEF Next, Quiet
<1> QED
  BY <1>2, <1>3

-----------------------------------------------------------------------------
(* What the host hears is who waits.                                        *)

\* Whom the host awaits once it has executed the command in its hand.
Now == IF exec # None /\ exec.op = "await" THEN exec.for ELSE awaiting

\* The commands on their way bring the host to whoever waits.
Hearing == Hears(toHost, Now, WhoWaits)

HearInv == PipeInv /\ Hearing

LEMMA HostTypes ==
    ASSUME IInv
    PROVE  /\ toHost \in Seq(HostCommandType) /\ fromHost \in Seq(Batch)
           /\ exec \in HostCommandType \cup {None} /\ queue \in Seq(Request)
BY DEF IInv, TypeOK, AppType, HostType

LEMMA TakeHears ==
    ASSUME HearInv, Take
    PROVE  Hearing'
<1>1. toHost \in Seq(HostCommandType)
  BY HostTypes DEF HearInv, PipeInv, LineInv
<1>2. /\ exec = None /\ toHost # <<>> /\ exec' = Head(toHost) /\ toHost' = Tail(toHost)
      /\ awaiting' = awaiting /\ WhoWaits' = WhoWaits
  BY DEF Take, appVars, WhoWaits
<1>3. Head(toHost) \in HostCommandType /\ Tail(toHost) \in Seq(HostCommandType)
      /\ Len(toHost) \in Nat /\ Len(Tail(toHost)) = Len(toHost) - 1
  BY <1>1, <1>2, HeadTailProperties, LenProperties
<1>4. exec' # None
  BY <1>2, <1>3, NoneAssumption
<1>5. Now = awaiting /\ Now' = (IF Head(toHost).op = "await" THEN Head(toHost).for ELSE awaiting)
  BY <1>2, <1>4 DEF Now
<1> DEFINE n == Len(Tail(toHost))
<1>6. n \in 0 .. Len(Tail(toHost)) /\ n + 1 = Len(toHost)
  BY <1>3, LenProperties
<1>7. HeardBy(toHost, n + 1, Now, WhoWaits)
  BY <1>6 DEF HearInv, Hearing, Hears
<1>8. HeardBy(Tail(toHost), n, Now', WhoWaits)
  <2> HIDE DEF n
  <2> QED
    BY <1>1, <1>2, <1>5, <1>6, <1>7, HearsTail
<1> QED
  BY <1>2, <1>8 DEF Hearing, Hears

LEMMA WorkerHears ==
    ASSUME HearInv, Worker
    PROVE  Hearing'
<1>1. CASE Take
  BY <1>1, TakeHears
<1>2. CASE RunAwait
  BY <1>2 DEF RunAwait, HearInv, Hearing, Now, WhoWaits, appVars
<1>3. ASSUME NEW kinds \in Bursts, NEW reset \in BOOLEAN, NEW done \in Dones,
             RunCallback(kinds, reset, done)
      PROVE  Hearing'
  <2>1. /\ exec # None /\ exec.op # "await" /\ exec' = None /\ awaiting' = awaiting /\ half' = half
        /\ \/ toHost' = toHost
           \/ toHost' = Pick(toHost, {i \in DOMAIN toHost : toHost[i].op # "rx"})
    BY <1>3 DEF RunCallback, appVars
  <2>2. Now' = Now /\ WhoWaits' = WhoWaits
    BY <2>1 DEF Now, WhoWaits
  <2>3. toHost \in Seq(HostCommandType)
    BY HostTypes DEF HearInv, PipeInv, LineInv
  <2>4. Hears(toHost', Now, WhoWaits)
    BY <2>1, <2>3, HearsPick DEF HearInv, Hearing
  <2> QED
    BY <2>2, <2>4 DEF Hearing
<1> QED
  BY <1>1, <1>2, <1>3 DEF Worker

LEMMA NextHears ==
    ASSUME HearInv, [Next]_vars
    PROVE  HearInv'
<1>1. PipeInv'
  BY NextPipe DEF HearInv
<1>2. CASE Worker
  BY <1>1, <1>2, WorkerHears DEF HearInv
<1>3. CASE ~Worker
  <2>1. Posts /\ UNCHANGED <<exec, awaiting>>
    BY <1>3, StepPosts DEF HearInv
  <2>2. Now' = Now
    BY <2>1 DEF Now
  <2>3. PICK c \in Seq(HostCommandType) : toHost' = toHost \o c /\ Hears(c, WhoWaits, WhoWaits')
    BY <2>1 DEF Posts
  <2>4. toHost \in Seq(HostCommandType)
    BY HostTypes DEF HearInv, PipeInv, LineInv
  <2>5. Hears(toHost \o c, Now, WhoWaits')
    BY <2>3, <2>4, HearsBoth DEF HearInv, Hearing
  <2> QED
    BY <1>1, <2>2, <2>3, <2>5 DEF HearInv, Hearing
<1> QED
  BY <1>2, <1>3

LEMMA InitHears == Init => HearInv
<1> HAVE Init
<1>1. toHost = <<>> /\ exec = None /\ awaiting = None /\ half = None
  BY DEF Init
<1>2. Now = None /\ WhoWaits = None
  BY <1>1 DEF Now, WhoWaits
<1>3. Items(<<>>) = {} /\ <<>> \in Seq(HostCommandType)
  BY EmptyItems, SmallSeqs
<1>4. Hears(<<>>, None, None)
  BY <1>3, HearsNothing
<1> QED
  BY <1>1, <1>2, <1>4, InitPipe DEF HearInv, Hearing

LEMMA SpecHears == Spec => []HearInv
BY InitHears, NextHears, PTL DEF Spec

\* Once the worker has run every command that says whom to await, the host accepts request_done
\* for exactly the attempt that waits: what a step posts behind another's commands never leaves
\* the host awaiting an attempt that timed out, was cancelled or was completed.
THEOREM HostAgrees == Spec => []HostAgreesWhoWaits
<1>1. HearInv => HostAgreesWhoWaits
  <2> SUFFICES ASSUME HearInv, exec = None, \A i \in DOMAIN toHost : toHost[i].op # "await"
               PROVE  awaiting = WhoWaits
    BY DEF HostAgreesWhoWaits, WhoWaits
  <2>1. DOMAIN toHost = 1 .. Len(toHost)
    BY HostTypes, LenProperties DEF HearInv, PipeInv, LineInv
  <2>2. Now = WhoWaits
    BY <2>1 DEF HearInv, Hearing, Hears, HeardBy
  <2> QED
    BY <2>2 DEF Now
<1> QED
  BY <1>1, SpecHears, PTL

-----------------------------------------------------------------------------
(* What the script is told of a retry.                                      *)

LEMMA PickShorter ==
    ASSUME NEW D, NEW q \in Seq(D), NEW S \in SUBSET (DOMAIN q)
    PROVE  /\ Pick(q, S) \in Seq(D) /\ Len(Pick(q, S)) <= Len(q)
           /\ Items(Pick(q, S)) \subseteq {q[i] : i \in S}
<1>1. DOMAIN q = 1 .. Len(q) /\ Len(q) \in Nat
  BY LenProperties
<1>2. IsFiniteSet(1 .. Len(q)) /\ Cardinality(1 .. Len(q)) = Len(q)
  <2> DEFINE n == Len(q)
  <2>1. 1 \in Int /\ n \in Int /\ (IF 1 > n THEN 0 ELSE n - 1 + 1) = n
    BY <1>1
  <2> HIDE DEF n
  <2>2. IsFiniteSet(1 .. n) /\ Cardinality(1 .. n) = n
    BY <2>1, FS_Interval
  <2> QED
    BY <2>2 DEF n
<1>3. Cardinality(S) <= Len(q)
  BY <1>1, <1>2, FS_Subset
<1> QED
  BY <1>3, PickProperties DEF Items

LEMMA RetryingStep ==
    ASSUME HearInv, [Next]_vars, ~MayWriteLate, NEW i \in DOMAIN toHost' \ DOMAIN toHost,
           toHost'[i].guard = "retrying"
    PROVE  \E j \in DOMAIN queue' : queue'[j].id = toHost'[i].for.id
<1>1. /\ toHost \in Seq(HostCommandType) /\ toHost' \in Seq(HostCommandType) /\ queue' \in Seq(Request)
  BY NextHears, HostTypes DEF HearInv, PipeInv, LineInv, IInv, TypeOK, HostType, AppType
<1>2. /\ DOMAIN toHost = 1 .. Len(toHost) /\ Len(toHost) \in Nat /\ DOMAIN queue' = 1 .. Len(queue')
      /\ DOMAIN toHost' = 1 .. Len(toHost') /\ Len(toHost') \in Nat
  BY <1>1, LenProperties
<1>3. CASE Worker
  <2>1. Len(toHost') <= Len(toHost)
    <3>1. CASE Take
      BY <1>1, <3>1, HeadTailProperties DEF Take
    <3>2. CASE RunAwait
      BY <1>2, <3>2 DEF RunAwait
    <3>3. ASSUME NEW kinds, NEW reset, NEW done, RunCallback(kinds, reset, done)
          PROVE  Len(toHost') <= Len(toHost)
      <4>1. toHost' = toHost \/ toHost' = Pick(toHost, {k \in DOMAIN toHost : toHost[k].op # "rx"})
        BY <3>3 DEF RunCallback
      <4>2. Len(Pick(toHost, {k \in DOMAIN toHost : toHost[k].op # "rx"})) <= Len(toHost)
        BY <1>1, PickShorter
      <4> QED
        BY <1>2, <4>1, <4>2
    <3> QED
      BY <1>3, <3>1, <3>2, <3>3 DEF Worker
  <2> QED
    BY <1>2, <2>1
<1>4. CASE ~Worker
  <2>1. PICK c \in Seq(HostCommandType) :
           /\ toHost' = toHost \o c
           /\ \A x \in Items(c) : x.guard = "retrying" =>
                 MayWriteLate \/ \E r \in Items(queue)' : r.id = x.for.id
    BY <1>4, StepPosts DEF Posts, HearInv
  <2>2. toHost'[i] \in Items(c)
    <3>1. /\ Len(c) \in Nat /\ Len(toHost') = Len(toHost) + Len(c)
          /\ \A k \in 1 .. Len(toHost) + Len(c) :
                toHost'[k] = IF k <= Len(toHost) THEN toHost[k] ELSE c[k - Len(toHost)]
      BY <1>1, <2>1, ConcatProperties, LenProperties
    <3>2. i \in 1 .. Len(toHost) + Len(c) /\ ~(i <= Len(toHost))
      BY <1>2, <3>1
    <3>3. i - Len(toHost) \in 1 .. Len(c)
      BY <1>2, <3>1, <3>2
    <3>4. toHost'[i] = c[i - Len(toHost)]
      BY <3>1, <3>2
    <3> QED
      BY <3>3, <3>4 DEF Items
  <2>3. PICK r \in Items(queue)' : r.id = toHost'[i].for.id
    BY <2>1, <2>2
  <2>4. PICK j \in 1 .. Len(queue') : queue'[j] = r
    BY DEF Items
  <2> QED
    BY <1>2, <2>3, <2>4
<1> QED
  BY <1>3, <1>4

\* An attempt reported to the script as "retrying" is back in the queue, if no write exceeds its
\* timeout: the write that was late is the only way to promise a retry that is never made
\* (processTransportTxEvent finishes that request, while finishTxRequest reports a retry).
THEOREM RetriesArePromised == ASSUME ~MayWriteLate PROVE Spec => RetryingMeansRequeued
<1> DEFINE Kept == \A i \in DOMAIN toHost' \ DOMAIN toHost :
                      toHost'[i].guard = "retrying" =>
                          \E j \in DOMAIN queue' : queue'[j].id = toHost'[i].for.id
<1>1. HearInv /\ [Next]_vars => [Kept]_vars
  BY RetryingStep
<1> QED
  BY <1>1, SpecHears, PTL DEF Spec, RetryingMeansRequeued

-----------------------------------------------------------------------------
(* A call of request_done finds the request it was meant for, as long as    *)
(* the script answers only to received bytes and once per attempt, and one  *)
(* opening of the transport sees no peer go.                                *)

OneSession == DoneFrom \subseteq {"rx"} /\ OneDone /\ MaxOpens <= 1 /\ MaxDrops = 0

\* The transport is opened once, nobody closes it from outside.
Session ==
    /\ \A e \in Items(pulled) \cup Items(events) : e.op # "close"
    /\ link = "closed" => write = None /\ half = None /\ posted = <<>>
    /\ link # "closed" => used.opens >= 1

\* It is closed for good.
Over == link = "closed" /\ used.opens >= MaxOpens

\* The calls on their way to the application.
InHand == IF batch = None THEN {} ELSE {batch}
Given == {b.done : b \in Items(fromHost) \cup InHand} \ {None}

Single == {p \in Batch \X Batch : p[1].done = None \/ p[2].done = None}

\* There is one at most, for the attempt that waits.
DoneOnce ==
    /\ Ordered(fromHost, Single)
    /\ batch # None /\ batch.done # None => \A b \in Items(fromHost) : b.done = None
    /\ \A d \in Given : half # None /\ d.for = Attempt(half) /\ d.for \in doneFor

\* Whom the host may await when it comes to received bytes: nobody, an attempt for which the script
\* has called already, or the one that waits.
Expected == {None, WhoWaits} \cup doneFor

BytesHeard ==
    /\ \A i \in 1 .. Len(toHost) : toHost[i].op = "rx" =>
          \E v \in Expected : HeardBy(toHost, i - 1, Now, v)
    /\ exec # None /\ exec.op = "rx" => awaiting \in Expected

OnceInv == HearInv /\ Session /\ (Over \/ (DoneOnce /\ BytesHeard))

LEMMA SessionTypes ==
    ASSUME IInv
    PROVE  /\ toHost \in Seq(HostCommandType) /\ fromHost \in Seq(Batch) /\ posted \in Seq(Request)
           /\ pulled \in Seq(EventType) /\ events \in Seq(EventType)
           /\ link \in {"closed", "open", "lost", "error"} /\ OneAtATime
           /\ used \in [opens : Nat, drops : Nat, resets : Nat]
           /\ batch \in Batch \cup {None} /\ half \in Request \cup {None} /\ exec \in HostCommandType \cup {None}
           /\ awaiting \in AttemptId \cup {None} /\ doneFor \subseteq AttemptId
BY DEF IInv, TypeOK, AppType, IoType, HostType, HistoryType

LEMMA Openings ==
    ASSUME IInv
    PROVE  MaxOpens \in Nat /\ used.opens \in Nat /\ used.drops \in Nat
<1>1. MaxOpens \in Nat
  BY TxAssumption DEF TxAssumption
<1>2. used \in [opens : Nat, drops : Nat, resets : Nat]
  BY SessionTypes
<1> QED
  BY <1>1, <1>2

-----------------------------------------------------------------------------
(* The session.                                                             *)

LEMMA OpenedOnce ==
    ASSUME OneSession, IInv, Session, NEW ok \in BOOLEAN, OpenTransport(ok)
    PROVE  half = None /\ link = "closed" /\ ~Over /\ used'.opens = 1
<1>1. used.opens \in Nat /\ used.opens < MaxOpens /\ MaxOpens \in Nat /\ MaxOpens <= 1
  BY Openings DEF OpenTransport, OneSession
<1>2. used.opens = 0
  BY <1>1
<1>3. link = "closed" /\ half = None
  BY <1>2 DEF Session
<1>4. used'.opens = 1
  <2>1. used' = [used EXCEPT !.opens = @ + 1]
    BY DEF OpenTransport
  <2> QED
    BY <1>2, <2>1, SessionTypes
<1> QED
  BY <1>1, <1>3, <1>4 DEF Over

LEMMA ClosedForGood ==
    ASSUME OneSession, IInv, Session, CloseTransport
    PROVE  Over'
<1>1. link # "closed" /\ link' = "closed" /\ used' = used
  BY DEF CloseTransport
<1>2. used.opens >= 1 /\ used.opens \in Nat /\ MaxOpens \in Nat /\ MaxOpens <= 1
  BY <1>1, Openings DEF Session, OneSession
<1> QED
  BY <1>1, <1>2 DEF Over

LEMMA NoPeerLost ==
    ASSUME OneSession, IInv
    PROVE  ~PeerLost
<1>1. used.drops \in Nat
  BY Openings
<1> QED
  BY <1>1 DEF PeerLost, OneSession

LEMMA NoClose ==
    ASSUME IInv, Session
    PROVE  ~ProcessClose
<1> SUFFICES ASSUME ProcessClose PROVE FALSE
  OBVIOUS
<1>1. pulled \in Seq(EventType) /\ pulled # <<>> /\ Head(pulled).op = "close"
  BY SessionTypes DEF ProcessClose, NextEvent
<1>2. Items(pulled) = {Head(pulled)} \cup Items(Tail(pulled))
  BY <1>1, HeadItems
<1> QED
  BY <1>1, <1>2 DEF Session

\* Steps that bring no new event and leave the transport open.
LEMMA SameSession ==
    ASSUME IInv, Session, link' = link \/ (link' = "error" /\ link # "closed"), used'.opens = used.opens,
           Items(pulled)' \cup Items(events)' \subseteq Items(pulled) \cup Items(events),
           link = "closed" => write' = None /\ half' = None /\ posted' = <<>>
    PROVE  Session'
BY DEF Session

\* What the transport reports.
LEMMA NewsKeepsSession ==
    ASSUME OneSession, IInv, Session,
           \/ Receive \/ ReadFails \/ PeerAccepted
           \/ \E state \in {"sent", "timeout", "rejected"} : Write(state)
    PROVE  Session'
<1> DEFINE Mild(q) == \A e \in Items(q) : e.op # "close"
<1>1. events \in Seq(EventType) /\ pulled' = pulled /\ half' = half /\ write' = write
  BY SessionTypes DEF Receive, ReadFails, PeerAccepted, Write, appVars
<1>2. used'.opens = used.opens
  BY DEF Receive, ReadFails, PeerAccepted, Write, history
<1>3. ASSUME NEW op \in {"rx", "notice"}, events' = Append(events, Event(op)),
             link' = link \/ (link \in {"lost", "open"} /\ link' \in {"open", "error"}),
             posted' = posted
      PROVE  Session'
  <2>1. Event(op) \in EventType /\ Event(op).op = op
    BY DEF Event, EventType
  <2>2. Items(events)' = Items(events) \cup {Event(op)}
    BY <1>1, <1>3, <2>1, AppendItems
  <2> QED
    BY <1>1, <1>2, <1>3, <2>1, <2>2 DEF Session
<1>4. ASSUME NEW state \in {"sent", "timeout", "rejected"}, Write(state) PROVE Session'
  <2> DEFINE x == IF state = "rejected" /\ link # "lost" THEN <<Event("notice")>> ELSE <<>>
             t == [op |-> "tx", for |-> Attempt(Head(posted)), state |-> state]
             y == <<t>>
  <2>1. posted # <<>> /\ events' = (events \o x) \o y /\ link' \in {link, "error"}
    BY <1>4 DEF Write
  <2>2. link # "closed" /\ link' # "closed"
    BY <2>1 DEF Session
  <2>3. x \in Seq(EventType) /\ Items(x) \subseteq {Event("notice")}
    <3>1. Event("notice") \in EventType
      BY DEF Event, EventType
    <3>2. Items(<<Event("notice")>>) = {Event("notice")} /\ Items(<<>>) = {}
      BY OneItem, EmptyItems
    <3> QED
      BY <3>1, <3>2, SmallSeqs
  <2>4. y \in Seq(EventType) /\ Items(y) = {t}
    <3>1. Head(posted) \in Request
      BY <2>1, SessionTypes, HeadTailProperties
    <3>2. t \in EventType
      BY <3>1, AttemptType DEF EventType
    <3> HIDE DEF t
    <3> QED
      BY <3>2, OneItem, SmallSeqs
  <2>5. Event("notice").op # "close" /\ t.op # "close"
    BY DEF Event
  <2> HIDE DEF x, y, t
  <2>6. events \o x \in Seq(EventType) /\ Items(events \o x) = Items(events) \cup Items(x)
    BY <1>1, <2>3, ConcatItems, ConcatProperties
  <2>7. Items((events \o x) \o y) = Items(events \o x) \cup Items(y)
    <3> DEFINE z == events \o x
    <3>1. z \in Seq(EventType)
      BY <2>6
    <3> HIDE DEF z
    <3>2. Items(z \o y) = Items(z) \cup Items(y)
      BY <2>4, <3>1, ConcatItems
    <3> QED
      BY <3>2 DEF z
  <2>8. Items(events)' = (Items(events) \cup Items(x)) \cup {t}
    BY <2>1, <2>4, <2>6, <2>7
  <2> QED
    BY <1>1, <1>2, <2>2, <2>3, <2>5, <2>8 DEF Session
<1>5. CASE Receive
  BY <1>3, <1>5 DEF Receive
<1>6. CASE PeerAccepted
  BY <1>3, <1>6 DEF PeerAccepted
<1>7. CASE ReadFails
  BY <1>3, <1>7 DEF ReadFails
<1> QED
  BY <1>4, <1>5, <1>6, <1>7

LEMMA TransportKeepsSession ==
    ASSUME OneSession, IInv, Session, CloseTransport \/ \E ok \in BOOLEAN : OpenTransport(ok)
    PROVE  Session'
<1>1. /\ write' = None /\ half' = None /\ posted' = <<>>
  BY DEF CloseTransport, OpenTransport, CancelAll
<1>2. CASE CloseTransport
  <2>1. /\ \/ pulled' = Pick(pulled, {i \in DOMAIN pulled : pulled[i].op = "rx"})
           \/ pulled' = <<>>
        /\ events' = <<>> /\ link' = "closed"
    BY <1>2 DEF CloseTransport
  <2>2. \A e \in Items(pulled)' : e.op # "close"
    <3> DEFINE S == {i \in DOMAIN pulled : pulled[i].op = "rx"}
               p == Pick(pulled, S)
    <3>1. S \subseteq DOMAIN pulled /\ \A i \in S : pulled[i].op # "close"
      OBVIOUS
    <3>2. pulled \in Seq(EventType)
      BY SessionTypes
    <3> HIDE DEF S
    <3>3. Items(p) \subseteq {pulled[i] : i \in S}
      BY <3>1, <3>2, PickShorter
    <3> HIDE DEF p
    <3>4. Items(pulled)' = Items(p) \/ Items(pulled)' = {}
      BY <2>1, EmptyItems DEF Items, S, p
    <3> QED
      BY <3>1, <3>3, <3>4
  <2>3. Items(events)' = {}
    BY <2>1, EmptyItems
  <2> QED
    BY <1>1, <2>1, <2>2, <2>3 DEF Session
<1>3. ASSUME NEW ok \in BOOLEAN, OpenTransport(ok) PROVE Session'
  <2>1. pulled' = <<>> /\ events' = <<Event("notice")>> /\ used'.opens = 1
    BY <1>3, OpenedOnce DEF OpenTransport
  <2>2. Items(pulled)' = {} /\ Items(events)' = {Event("notice")}
    BY <2>1, EmptyItems, OneItem
  <2>3. Event("notice").op # "close"
    BY DEF Event
  <2> QED
    BY <1>1, <2>1, <2>2, <2>3 DEF Session
<1> QED
  BY <1>2, <1>3

LEMMA NextSession ==
    ASSUME OneSession, IInv, Session, [Next]_vars
    PROVE  Session'
<1>1. CASE Environment
  <2>1. CASE PostCall
    <3>1. UNCHANGED <<pulled, events, posted, link, write, half, used>>
      BY <2>1 DEF PostCall, appVars, ioVars, history
    <3> QED
      BY <3>1, SameSession DEF Session
  <2> QED
    BY <1>1, <2>1, NewsKeepsSession, TransportKeepsSession, NoPeerLost DEF Environment
<1>2. CASE IoThread
  BY <1>2, NewsKeepsSession DEF IoThread
<1>3. CASE Worker
  <2>1. UNCHANGED <<pulled, events, posted, link, write, half>>
    BY <1>3 DEF Worker, Take, RunAwait, RunCallback, appVars, ioVars
  <2>2. used' = used \/ \E n : used' = [used EXCEPT !.resets = n]
    BY <1>3 DEF Worker, Take, RunAwait, RunCallback, history
  <2>3. used'.opens = used.opens
    BY <2>2, SessionTypes
  <2> QED
    BY <2>1, <2>3, SameSession DEF Session
<1>4. CASE Pull
  <2>1. Items(pulled)' = Items(pulled) \cup Items(events) /\ Items(events)' = {}
    <3>1. pulled' = pulled \o events /\ events' = <<>>
      BY <1>4 DEF Pull
    <3>2. Items(pulled \o events) = Items(pulled) \cup Items(events)
      BY SessionTypes, ConcatItems
    <3>3. Items(<<>>) = {}
      BY EmptyItems
    <3> QED
      BY <3>1, <3>2, <3>3
  <2> QED
    BY <1>4, <2>1 DEF Session, Pull, history
<1>5. CASE ProcessEvent
  <2>1. UNCHANGED <<events, posted, link, used>> /\ pulled # <<>> /\ pulled' = Tail(pulled)
        /\ (write' = None \/ write' = write) /\ half' \in {half, write, None}
    BY <1>5, NoClose DEF ProcessEvent, PassEvent, ProcessSent, ProcessWriteResult, IgnoreResult, NextEvent,
                         ioVars, history
  <2>2. Items(pulled)' \subseteq Items(pulled)
    <3>1. pulled \in Seq(EventType)
      BY SessionTypes
    <3>2. Items(Tail(pulled)) \subseteq Items(pulled)
      BY <2>1, <3>1, HeadItems
    <3>3. Items(pulled)' = Items(Tail(pulled))
      BY <2>1 DEF Items
    <3> QED
      BY <3>2, <3>3
  <2> QED
    BY <2>1, <2>2, SameSession DEF Session
<1>6. CASE Handler \/ BeginBatch \/ RequestTimesOut \/ UNCHANGED vars
  <2>1. UNCHANGED <<pulled, events, link, used>>
    BY <1>6 DEF Handler, EnqueueTxRequest, ApplyDone, Reject, HandOver, Driven, Cleared, BeginBatch,
                RequestTimesOut, ioVars, hostVars, history, appVars, vars
  <2>2. link = "closed" => UNCHANGED <<write, posted>> /\ half' \in {half, None}
    BY <1>6 DEF Handler, EnqueueTxRequest, ApplyDone, Reject, HandOver, HeadRejected, Driven, Cleared,
                BeginBatch, RequestTimesOut, ioVars, hostVars, history, appVars, vars
  <2> QED
    BY <2>1, <2>2, SameSession DEF Session
<1> QED
  BY <1>1, <1>2, <1>3, <1>4, <1>5, <1>6 DEF Next, Quiet

LEMMA StaysOver ==
    ASSUME OneSession, IInv, Session, Over, [Next]_vars
    PROVE  Over'
<1>1. posted = <<>> /\ used.opens \in Nat /\ MaxOpens \in Nat /\ used.opens >= MaxOpens /\ link = "closed"
  BY Openings DEF Session, Over
<1>2. link' = link
  <2>1. ~(\E ok \in BOOLEAN : OpenTransport(ok))
    BY <1>1 DEF OpenTransport
  <2>2. CASE Environment \/ IoThread \/ Pull
    BY <1>1, <2>1, <2>2 DEF Environment, CloseTransport, Receive, ReadFails, PeerLost, PeerAccepted,
                            PostCall, IoThread, Write, Pull, ioVars
  <2>3. CASE Worker \/ ProcessEvent \/ Handler \/ BeginBatch \/ RequestTimesOut \/ UNCHANGED vars
    BY <2>3 DEF Worker, Take, RunAwait, RunCallback, ProcessEvent, PassEvent, ProcessClose, ProcessSent,
                ProcessWriteResult, IgnoreResult, Handler, EnqueueTxRequest, ApplyDone, Reject, HandOver,
                Driven, Cleared, BeginBatch, RequestTimesOut, ioVars, vars
  <2> QED
    BY <2>2, <2>3 DEF Next, Quiet
<1>3. used'.opens >= used.opens /\ used'.opens \in Nat
  <2>1. ~(\E ok \in BOOLEAN : OpenTransport(ok))
    BY <1>1 DEF OpenTransport
  <2>2. used' = used \/ \E n : used' \in {[used EXCEPT !.resets = n], [used EXCEPT !.drops = n]}
    <3>1. CASE Environment \/ IoThread \/ Pull \/ Worker
      BY <2>1, <3>1 DEF Environment, CloseTransport, Receive, ReadFails, PeerLost, PeerAccepted,
                        PostCall, IoThread, Write, Pull, Worker, Take, RunAwait, RunCallback, history
    <3>2. CASE ProcessEvent \/ Handler \/ BeginBatch \/ RequestTimesOut \/ UNCHANGED vars
      BY <3>2 DEF ProcessEvent, PassEvent, ProcessClose, ProcessSent, ProcessWriteResult, IgnoreResult,
                  Handler, EnqueueTxRequest, ApplyDone, Reject, HandOver, Driven, Cleared, BeginBatch,
                  RequestTimesOut, history, vars
    <3> QED
      BY <3>1, <3>2 DEF Next, Quiet
  <2>3. used'.opens = used.opens
    BY <2>2, SessionTypes
  <2> QED
    BY <1>1, <2>3
<1> QED
  BY <1>1, <1>2, <1>3 DEF Over

-----------------------------------------------------------------------------
(* Received bytes find the host where it was when they arrived, or past it. *)

LEMMA HeardPrefix ==
    ASSUME NEW q \in Seq(HostCommandType), NEW c \in Seq(HostCommandType), NEW n \in 0 .. Len(q),
           NEW f, NEW l, HeardBy(q, n, f, l)
    PROVE  HeardBy(q \o c, n, f, l)
<1> DEFINE d == q \o c
<1>1. /\ Len(q) \in Nat /\ Len(c) \in Nat
      /\ \A i \in 1 .. Len(q) + Len(c) : d[i] = IF i <= Len(q) THEN q[i] ELSE c[i - Len(q)]
  BY ConcatProperties, LenProperties
<1>2. \A i \in 1 .. n : i \in 1 .. Len(q) + Len(c) /\ i <= Len(q)
  BY <1>1
<1> HIDE DEF d
<1>3. \A i \in 1 .. n : d[i] = q[i]
  BY <1>1, <1>2
<1>4. HeardBy(d, n, f, l)
  BY <1>3 DEF HeardBy
<1> QED
  BY <1>4 DEF d

\* Other steps than those of the worker, which make nobody wait in vain.
LEMMA PostsHeard ==
    ASSUME HearInv, BytesHeard, Posts, IInv', UNCHANGED <<exec, awaiting, doneFor>>,
           \/ WhoWaits \in Expected'
           \/ (\A i \in 1 .. Len(toHost) : toHost[i].op # "rx") /\ (exec # None => exec.op # "rx")
    PROVE  BytesHeard'
<1>1. toHost \in Seq(HostCommandType) /\ Now' = Now /\ Len(toHost) \in Nat
  BY HostTypes, LenProperties DEF HearInv, PipeInv, LineInv, Now
<1>2. WhoWaits \in Expected' => Expected \subseteq Expected'
  BY DEF Expected
<1>3. exec' # None /\ exec'.op = "rx" => awaiting' \in Expected'
  BY <1>2 DEF BytesHeard
<1>4. PICK c \in Seq(HostCommandType) :
         /\ toHost' = toHost \o c
         /\ (\A x \in Items(c) : x.op # "rx") \/ (c = <<Callback("rx")>> /\ half' = half)
  BY DEF Posts
<1>5. /\ Len(c) \in Nat /\ Len(toHost') = Len(toHost) + Len(c)
      /\ \A i \in 1 .. Len(toHost) + Len(c) :
            toHost'[i] = IF i <= Len(toHost) THEN toHost[i] ELSE c[i - Len(toHost)]
  BY <1>1, <1>4, ConcatProperties, LenProperties
<1>6. ASSUME NEW i \in 1 .. Len(toHost'), toHost'[i].op = "rx"
      PROVE  \E v \in Expected' : HeardBy(toHost', i - 1, Now, v)
  <2>1. CASE i <= Len(toHost)
    <3>1. i \in 1 .. Len(toHost) /\ toHost[i].op = "rx" /\ i - 1 \in 0 .. Len(toHost)
      BY <1>1, <1>5, <1>6, <2>1
    <3>2. PICK v \in Expected : HeardBy(toHost, i - 1, Now, v)
      BY <3>1 DEF BytesHeard
    <3>3. v \in Expected'
      BY <1>2, <3>1
    <3> QED
      BY <1>1, <1>4, <3>1, <3>2, <3>3, HeardPrefix
  <2>2. CASE i > Len(toHost)
    <3>1. i - Len(toHost) \in 1 .. Len(c) /\ toHost'[i] = c[i - Len(toHost)]
      BY <1>1, <1>5, <1>6, <2>2
    <3>2. c[i - Len(toHost)] \in Items(c)
      BY <3>1 DEF Items
    <3>3. c = <<Callback("rx")>> /\ half' = half
      BY <1>4, <1>6, <3>1, <3>2
    <3>4. Len(c) = 1
      BY <3>3
    <3>5. i - 1 = Len(toHost) + 0 /\ 0 \in 0 .. Len(c)
      BY <1>1, <1>5, <3>1, <3>4
    <3>6. HeardBy(c, 0, WhoWaits, WhoWaits)
      BY DEF HeardBy
    <3>7. HeardBy(toHost \o c, Len(toHost) + 0, Now, WhoWaits)
      BY <1>1, <3>5, <3>6, HearsConcat DEF HearInv, Hearing
    <3>8. WhoWaits \in Expected'
      BY <3>3 DEF Expected, WhoWaits
    <3> QED
      BY <1>4, <3>5, <3>7, <3>8
  <2> QED
    BY <1>1, <1>5, <2>1, <2>2
<1> QED
  BY <1>1, <1>3, <1>6 DEF BytesHeard

LEMMA TakeHeard ==
    ASSUME HearInv, BytesHeard, Take
    PROVE  BytesHeard'
<1> DEFINE t == Tail(toHost)
<1>1. toHost \in Seq(HostCommandType) /\ toHost # <<>>
  BY HostTypes DEF HearInv, PipeInv, LineInv, Take
<1>2. /\ exec = None /\ exec' = Head(toHost) /\ toHost' = t /\ awaiting' = awaiting /\ Expected' = Expected
  BY DEF Take, appVars, history, Expected, WhoWaits
<1>3. /\ Head(toHost) \in HostCommandType /\ t \in Seq(HostCommandType) /\ Head(toHost) = toHost[1]
      /\ Len(t) \in Nat /\ Len(toHost) \in Nat /\ Len(t) = Len(toHost) - 1
      /\ \A i \in 1 .. Len(t) : t[i] = toHost[i + 1]
  BY <1>1, HeadTailProperties, LenProperties
<1>4. exec' # None
  BY <1>2, <1>3, NoneAssumption
<1>5. Now = awaiting /\ Now' = (IF Head(toHost).op = "await" THEN Head(toHost).for ELSE awaiting)
  BY <1>2, <1>4 DEF Now
<1>6. ASSUME exec'.op = "rx" PROVE awaiting \in Expected
  <2>1. 1 \in 1 .. Len(toHost) /\ toHost[1].op = "rx" /\ 1 - 1 = 0
    BY <1>2, <1>3, <1>6
  <2>2. PICK v \in Expected : HeardBy(toHost, 0, Now, v)
    BY <2>1 DEF BytesHeard
  <2>3. v = Now
    <3>1. \A i \in 1 .. 0 : FALSE
      OBVIOUS
    <3> QED
      BY <2>2, <3>1 DEF HeardBy
  <2> QED
    BY <1>5, <2>2, <2>3
<1> HIDE DEF t
<1>7. ASSUME NEW i \in 1 .. Len(t), t[i].op = "rx"
      PROVE  \E v \in Expected : HeardBy(t, i - 1, Now', v)
  <2>1. i + 1 \in 1 .. Len(toHost) /\ toHost[i + 1].op = "rx" /\ (i + 1) - 1 = (i - 1) + 1
        /\ i - 1 \in 0 .. Len(t)
    BY <1>3, <1>7
  <2>2. PICK v \in Expected : HeardBy(toHost, (i + 1) - 1, Now, v)
    BY <2>1 DEF BytesHeard
  <2> DEFINE n == i - 1
  <2>3. HeardBy(toHost, n + 1, Now, v) /\ n \in 0 .. Len(t)
    BY <2>1, <2>2
  <2> HIDE DEF n
  <2>4. HeardBy(t, n, Now', v)
    BY <1>1, <1>5, <2>3, HearsTail DEF t
  <2> QED
    BY <2>2, <2>4 DEF n
<1> QED
  BY <1>2, <1>6, <1>7 DEF BytesHeard

LEMMA WorkerHeard ==
    ASSUME HearInv, BytesHeard, Worker
    PROVE  BytesHeard'
<1>1. CASE Take
  BY <1>1, TakeHeard
<1>2. CASE RunAwait
  <2>1. Now' = Now /\ exec' = None /\ toHost' = toHost /\ Expected' = Expected
    BY <1>2 DEF RunAwait, appVars, history, Expected, WhoWaits, Now
  <2> QED
    BY <2>1 DEF BytesHeard
<1>3. ASSUME NEW kinds \in Bursts, NEW reset \in BOOLEAN, NEW done \in Dones,
             RunCallback(kinds, reset, done)
      PROVE  BytesHeard'
  <2>1. /\ exec # None /\ exec.op # "await" /\ exec' = None /\ awaiting' = awaiting /\ half' = half
        /\ \/ toHost' = toHost
           \/ toHost' = Pick(toHost, {i \in DOMAIN toHost : toHost[i].op # "rx"})
    BY <1>3 DEF RunCallback, appVars
  <2>2. Now' = Now
    BY <2>1 DEF Now
  <2>3. Expected \subseteq Expected'
    BY <1>3, <2>1 DEF RunCallback, Expected, WhoWaits
  <2>4. CASE toHost' = toHost
    BY <2>1, <2>2, <2>3, <2>4 DEF BytesHeard
  <2>5. CASE toHost' = Pick(toHost, {i \in DOMAIN toHost : toHost[i].op # "rx"})
    <3>1. toHost \in Seq(HostCommandType)
      BY HostTypes DEF HearInv, PipeInv, LineInv
    <3>2. Items(toHost') \subseteq {toHost[i] : i \in {j \in DOMAIN toHost : toHost[j].op # "rx"}}
      BY <2>5, <3>1, PickShorter
    <3>3. \A i \in 1 .. Len(toHost') : toHost'[i].op # "rx"
      BY <3>2 DEF Items
    <3> QED
      BY <2>1, <3>3 DEF BytesHeard
  <2> QED
    BY <2>1, <2>4, <2>5
<1> QED
  BY <1>1, <1>2, <1>3 DEF Worker

-----------------------------------------------------------------------------
(* The calls on their way.                                                  *)

\* The worker publishes a call only for the attempt that waits, and only if there was none for it.
LEMMA RunCallbackDone ==
    ASSUME OneSession, HearInv, DoneOnce, BytesHeard,
           NEW kinds \in Bursts, NEW reset \in BOOLEAN, NEW done \in Dones,
           RunCallback(kinds, reset, done)
    PROVE  DoneOnce'
<1> DEFINE b == [reset |-> reset, requests |-> Requests(kinds), done |-> done]
<1>1. IInv /\ IInv'
  BY NextHears DEF HearInv, PipeInv, LineInv, Next, Worker
<1>2. fromHost \in Seq(Batch) /\ fromHost' \in Seq(Batch) /\ batch' = batch /\ half' = half
      /\ batch \in Batch \cup {None} /\ (fromHost' = fromHost \/ fromHost' = Append(fromHost, b))
  BY <1>1, SessionTypes DEF RunCallback, appVars, IInv, TypeOK, HostType
<1>3. doneFor \subseteq doneFor'
  BY DEF RunCallback
<1>4. ASSUME done # None
      PROVE  half # None /\ done.for = Attempt(half) /\ done.for \in doneFor' /\ done.for \notin doneFor
  <2>1. exec # None /\ exec.op \in DoneFrom /\ awaiting # None /\ done.for = awaiting /\ awaiting \notin doneFor
    BY <1>4 DEF RunCallback, MayCallDone, OneSession
  <2>2. awaiting \in Expected
    BY <2>1 DEF BytesHeard, OneSession
  <2>3. awaiting = WhoWaits
    BY <2>1, <2>2 DEF Expected
  <2>4. done.for \in doneFor'
    BY <1>4 DEF RunCallback
  <2> QED
    BY <2>1, <2>3, <2>4 DEF WhoWaits
<1>5. done # None => Given = {}
  BY <1>4 DEF DoneOnce
<1>6. CASE fromHost' = fromHost
  BY <1>2, <1>3, <1>6 DEF DoneOnce, Given, InHand
<1>7. CASE fromHost' = Append(fromHost, b)
  <2>1. b \in Batch
    <3>1. kinds \in Seq(Kinds)
      BY SeqDef DEF Bursts
    <3>2. Requests(kinds) \in Seq(Request)
      BY <1>1, <3>1, RequestsType DEF RunCallback, IInv, TypeOK, HistoryType
    <3>3. done \in Done \cup {None}
      BY <1>1, SessionTypes DEF Dones, Done
    <3> QED
      BY <3>2, <3>3 DEF Batch
  <2>2. b.done = done
    OBVIOUS
  <2> HIDE DEF b
  <2>3. /\ Items(fromHost') = Items(fromHost) \cup {b} /\ Items(fromHost) \subseteq Batch
        /\ Ordered(fromHost, Single) /\ (\A y \in Items(fromHost) : <<y, b>> \in Single)
              => Ordered(fromHost', Single)
    BY <1>2, <1>7, <2>1, AppendItems, BatchItems
  <2>4. done # None => (\A x \in Items(fromHost) : x.done = None) /\ (batch # None => batch.done = None)
    BY <1>5 DEF Given, InHand
  <2>5. \A y \in Items(fromHost) : <<y, b>> \in Single
    BY <2>1, <2>2, <2>3, <2>4 DEF Single
  <2>6. Ordered(fromHost', Single)
    BY <2>3, <2>5 DEF DoneOnce
  <2>7. batch # None /\ batch.done # None => \A x \in Items(fromHost') : x.done = None
    BY <2>2, <2>3, <2>4 DEF DoneOnce
  <2>8. \A d \in Given' : d \in Given \/ (d = done /\ done # None)
    BY <1>2, <2>2, <2>3 DEF Given, InHand
  <2>9. \A d \in Given' : half # None /\ d.for = Attempt(half) /\ d.for \in doneFor'
    BY <1>3, <1>4, <2>8 DEF DoneOnce
  <2> QED
    BY <1>2, <2>6, <2>7, <2>9 DEF DoneOnce
<1> QED
  BY <1>2, <1>6, <1>7

\* Steps that pass the calls on.
LEMMA PassesDone ==
    ASSUME DoneOnce, Ordered(fromHost, Single)', Given' \subseteq Given,
           (batch # None /\ batch.done # None)' => \A b \in Items(fromHost)' : b.done = None,
           half' = half \/ half = None \/ Given' = {}, doneFor' = doneFor
    PROVE  DoneOnce'
BY DEF DoneOnce

LEMMA SameDone ==
    ASSUME DoneOnce, UNCHANGED <<fromHost, doneFor>>,
           \/ batch' = batch
           \/ batch # None /\ batch' # None /\ batch'.done = batch.done,
           half' = half \/ half = None
    PROVE  DoneOnce'
BY DEF DoneOnce, Given, InHand

LEMMA BeginBatchDone ==
    ASSUME HearInv, DoneOnce, BeginBatch
    PROVE  DoneOnce'
<1> DEFINE h == Head(fromHost)
           t == Tail(fromHost)
<1>1. /\ fromHost \in Seq(Batch) /\ fromHost # <<>> /\ batch' = h /\ fromHost' = t
      /\ half' = half /\ doneFor' = doneFor /\ batch = None
  BY HostTypes DEF BeginBatch, HearInv, PipeInv, LineInv, InLine, history
<1>2. /\ Items(fromHost) = {h} \cup Items(t) /\ h \in Batch
      /\ Ordered(fromHost, Single) => Ordered(t, Single) /\ \A x \in Items(t) : <<h, x>> \in Single
  BY <1>1, HeadItems
<1> HIDE DEF h, t
<1>3. Ordered(t, Single) /\ \A x \in Items(t) : <<h, x>> \in Single
  BY <1>2 DEF DoneOnce
<1>4. Given' \subseteq Given
  BY <1>1, <1>2 DEF Given, InHand
<1>5. h.done # None => \A x \in Items(t) : x.done = None
  BY <1>3 DEF Single
<1> QED
  BY <1>1, <1>3, <1>4, <1>5, PassesDone

\* A call is taken: there was no other.
LEMMA ApplyDoneDone ==
    ASSUME HearInv, DoneOnce, ApplyDone
    PROVE  DoneOnce' /\ WhoWaits \in Expected'
<1>1. /\ batch' = None /\ fromHost' = fromHost /\ doneFor' = doneFor
      /\ half' = IF batch.done # None /\ half # None THEN None ELSE half
  BY DEF ApplyDone
<1>2. batch \in Batch /\ batch # None
  BY NoneAssumption DEF ApplyDone, HearInv, PipeInv, LineInv, IInv, BatchInHand
<1>3. Given' = {b.done : b \in Items(fromHost)} \ {None} /\ Given' \subseteq Given
  BY <1>1 DEF Given, InHand
<1>4. batch.done # None => Given' = {}
  BY <1>2, <1>3 DEF DoneOnce
<1>5. DoneOnce'
  BY <1>1, <1>3, <1>4, PassesDone DEF DoneOnce
<1>6. batch.done # None => batch.done \in Given
  BY <1>2 DEF Given, InHand
<1>7. half' # half => Attempt(half) \in doneFor
  BY <1>1, <1>6 DEF DoneOnce
<1> QED
  BY <1>1, <1>5, <1>7 DEF Expected, WhoWaits

\* A request times out when there is no call for it.
LEMMA TimeoutDone ==
    ASSUME HearInv, DoneOnce, RequestTimesOut
    PROVE  DoneOnce'
<1>1. /\ fromHost = <<>> /\ fromHost' = fromHost /\ batch = None /\ batch' = batch /\ doneFor' = doneFor
  BY DEF RequestTimesOut, NoAnswerInFlight, HearInv, PipeInv, LineInv, InLine
<1>2. Items(fromHost)' = {} /\ Ordered(fromHost, Single)'
  BY <1>1, EmptyItems
<1>3. Given' = {}
  BY <1>1, <1>2 DEF Given, InHand
<1> QED
  BY <1>1, <1>2, <1>3, PassesDone

\* The other steps of the application and of the transport.
LEMMA QuietDone ==
    ASSUME OneSession, HearInv, Session, DoneOnce,
           \/ Environment \/ IoThread \/ Pull \/ ProcessEvent \/ UNCHANGED vars
           \/ EnqueueTxRequest \/ Reject \/ HandOver \/ Driven \/ Cleared
    PROVE  Over' \/ (DoneOnce' /\ (half' = half \/ half = None))
<1>1. IInv
  BY DEF HearInv, PipeInv, LineInv
<1>2. CASE CloseTransport
  BY <1>1, <1>2, ClosedForGood
<1>3. CASE \E ok \in BOOLEAN : OpenTransport(ok)
  <2>1. half = None
    BY <1>1, <1>3, OpenedOnce
  <2> QED
    BY <1>3, <2>1, SameDone DEF OpenTransport
<1>4. CASE EnqueueTxRequest
  <2>1. batch \in Batch /\ batch' = [batch EXCEPT !.requests = Tail(@)] /\ UNCHANGED <<fromHost, doneFor, half>>
    BY <1>1, <1>4 DEF EnqueueTxRequest, IInv, BatchInHand
  <2>2. batch # None /\ batch'.done = batch.done /\ batch' # None
    <3>1. batch'.done = batch.done /\ batch'.reset = batch.reset
      BY <2>1 DEF Batch
    <3>2. batch' \in Batch \cup {None} /\ step' = "apply"
      BY <1>4, NextHears DEF EnqueueTxRequest, Next, Handler, HearInv, PipeInv, LineInv, IInv, TypeOK, AppType
    <3>3. batch' \in Batch
      BY <1>4, <3>2, NextHears DEF Next, Handler, HearInv, PipeInv, LineInv, IInv, BatchInHand
    <3> QED
      BY <2>1, <3>1, <3>3, NoneAssumption
  <2> QED
    BY <2>1, <2>2, SameDone
<1>5. CASE Receive \/ ReadFails \/ PeerAccepted \/ PostCall \/ IoThread \/ Pull \/ Reject \/ HandOver
           \/ Driven \/ UNCHANGED vars
  <2>1. UNCHANGED <<fromHost, doneFor, batch, half>>
    BY <1>5 DEF Receive, ReadFails, PeerAccepted, PostCall, IoThread, Write, Pull, Reject, HandOver, Driven,
                appVars, hostVars, history, vars
  <2> QED
    BY <2>1, SameDone
<1>6. CASE ProcessEvent
  <2>1. UNCHANGED <<fromHost, doneFor, batch>> /\ (half' = half \/ (ProcessSent /\ write # None))
    BY <1>1, <1>6, NoClose DEF ProcessEvent, PassEvent, ProcessSent, ProcessWriteResult, IgnoreResult,
                               IsActiveWrite, appVars, hostVars, history
  <2>2. half' = half \/ half = None
    BY <1>1, <2>1 DEF IInv, OneAtATime
  <2> QED
    BY <2>1, <2>2, SameDone
<1>7. CASE Cleared
  <2>1. fromHost' = <<>> /\ UNCHANGED <<batch, half, doneFor>>
    BY <1>7 DEF Cleared
  <2>2. Items(fromHost)' = {} /\ Ordered(fromHost, Single)'
    BY <2>1, EmptyItems
  <2>3. Given' \subseteq Given
    BY <2>1, <2>2 DEF Given, InHand
  <2> QED
    BY <2>1, <2>2, <2>3, PassesDone
<1> QED
  BY <1>1, <1>2, <1>3, <1>4, <1>5, <1>6, <1>7, NoPeerLost DEF Environment

LEMMA NextOnce ==
    ASSUME OneSession, OnceInv, [Next]_vars
    PROVE  OnceInv'
<1>1. HearInv' /\ Session' /\ IInv /\ IInv'
  BY NextHears, NextSession DEF OnceInv, HearInv, PipeInv, LineInv
<1>2. CASE Over
  BY <1>1, <1>2, StaysOver DEF OnceInv
<1>3. CASE Worker /\ DoneOnce /\ BytesHeard
  <2>1. BytesHeard'
    BY <1>3, WorkerHeard DEF OnceInv
  <2>2. DoneOnce'
    <3>1. CASE Take \/ RunAwait
      <4>1. UNCHANGED <<fromHost, doneFor, batch, half>>
        BY <3>1 DEF Take, RunAwait, appVars, history
      <4> QED
        BY <1>3, <4>1, SameDone
    <3> QED
      BY <1>3, <3>1, RunCallbackDone DEF Worker, OnceInv
  <2> QED
    BY <1>1, <2>1, <2>2 DEF OnceInv
<1>4. CASE ~Worker /\ DoneOnce /\ BytesHeard
  <2>1. Posts /\ UNCHANGED <<exec, awaiting, doneFor>>
    BY <1>4, StepPosts DEF OnceInv, HearInv
  <2>2. Over' \/ (DoneOnce' /\ (WhoWaits \in Expected' \/ RequestTimesOut))
    <3>1. half' = half \/ half = None => WhoWaits \in Expected'
      BY DEF Expected, WhoWaits
    <3>2. CASE BeginBatch
      BY <1>4, <3>1, <3>2, BeginBatchDone DEF OnceInv, BeginBatch
    <3>3. CASE ApplyDone
      BY <1>4, <3>3, ApplyDoneDone DEF OnceInv
    <3>4. CASE RequestTimesOut
      BY <1>4, <3>4, TimeoutDone DEF OnceInv
    <3> QED
      BY <1>4, <3>1, <3>2, <3>3, <3>4, QuietDone DEF OnceInv, Next, Handler, Quiet
  <2>3. RequestTimesOut => (\A i \in 1 .. Len(toHost) : toHost[i].op # "rx") /\ (exec # None => exec.op # "rx")
    <3>1. DOMAIN toHost = 1 .. Len(toHost)
      BY <1>1, SessionTypes, LenProperties
    <3> QED
      BY <3>1 DEF RequestTimesOut, NoAnswerInFlight
  <2>4. Over' \/ (DoneOnce' /\ BytesHeard')
    BY <1>1, <1>4, <2>1, <2>2, <2>3, PostsHeard DEF OnceInv
  <2> QED
    BY <1>1, <2>4 DEF OnceInv
<1> QED
  BY <1>2, <1>3, <1>4 DEF OnceInv

LEMMA InitOnce == Init => OnceInv
<1> HAVE Init
<1>1. /\ toHost = <<>> /\ fromHost = <<>> /\ pulled = <<>> /\ events = <<>> /\ posted = <<>>
      /\ exec = None /\ batch = None /\ half = None /\ write = None /\ link = "closed"
  BY DEF Init
<1>2. Items(<<>>) = {} /\ Ordered(<<>>, Single) /\ Len(<<>>) = 0 /\ \A i \in 1 .. 0 : FALSE
  BY EmptyItems
<1>3. Session
  BY <1>1, <1>2 DEF Session
<1>4. Given = {}
  BY <1>1, <1>2 DEF Given, InHand
<1>5. DoneOnce /\ BytesHeard
  BY <1>1, <1>2, <1>4 DEF DoneOnce, BytesHeard
<1> QED
  BY <1>3, <1>5, InitHears DEF OnceInv

\* The request that request_done completes is the one that waited when the script called it, if the
\* script answers only to received bytes, once per attempt, and the transport is opened once and
\* loses no peer: completeCurrentTxRequest takes no id, and an answer that waits in a batch is not
\* overtaken because processRequestTimeouts lets nothing time out while bytes or batches are on
\* their way.
THEOREM DoneFindsItsRequest == ASSUME OneSession PROVE Spec => DoneCompletesCurrent
<1> DEFINE Meant == ApplyDone /\ batch.done # None /\ half # None => batch.done.for = Attempt(half)
<1>1. ASSUME OnceInv PROVE Meant
  <2> SUFFICES ASSUME ApplyDone, batch.done # None, half # None PROVE batch.done.for = Attempt(half)
    OBVIOUS
  <2>1. DoneOnce
    BY <1>1 DEF OnceInv, Over, Session
  <2>2. batch # None
    BY <1>1, NoneAssumption DEF ApplyDone, OnceInv, HearInv, PipeInv, LineInv, IInv, BatchInHand
  <2> QED
    BY <2>1, <2>2 DEF DoneOnce, Given, InHand
<1>2. OnceInv /\ [Next]_vars => [Meant]_vars
  BY <1>1
<1>3. OnceInv /\ [Next]_vars => OnceInv'
  BY NextOnce
<1> QED
  BY <1>2, <1>3, InitOnce, PTL DEF Spec, DoneCompletesCurrent
=============================================================================
