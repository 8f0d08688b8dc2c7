-------------------------- MODULE DataImportProofs --------------------------
(***************************************************************************)
(* Theorems about the import of a file, for every size of the file, limit  *)
(* of the queue and number of imports.                                      *)
(***************************************************************************)
EXTENDS DataImport, SequenceTheorems, TLAPS

-----------------------------------------------------------------------------
(* Types                                                                    *)

Protocols == {"none", "old", "package"}
BatchType == [id : Nat, at : Nat, late : BOOLEAN]
Commands == [op : {"load", "configure"}, dir : Protocols, ticket : Nat]
Running == {"reading", "asking", "pushing", "finishing"}

Tasks == [id : Nat, active : BOOLEAN, awaiting : BOOLEAN, canceled : BOOLEAN,
          complete : BOOLEAN, error : BOOLEAN, confirmed : BOOLEAN, stop : BOOLEAN]
Readers == [at : Running \cup {"none", "done"}, next : Nat, session : BOOLEAN]
Apps == [importing : BOOLEAN, call : {"none", "cancel", "fail"}, load : Nat, held : BatchType,
         prepared : BOOLEAN, chosen : Protocols, config : Protocols, records : BOOLEAN,
         retiring : Nat, reported : BOOLEAN]
Panels == [protocol : Protocols, config : Protocols]
Workers == [commands : Seq(Commands), protocol : Protocols, config : Protocols]
Replies == {"waiting", "ok", "bad"}

\* Every variable keeps its type: the flags of the task, the place of the reader, what the
\* application holds, the commands of the worker and the answers to the loads.
TypeOK ==
    /\ task \in Tasks /\ reader \in Readers /\ app \in Apps
    /\ panel \in Panels /\ worker \in Workers
    /\ queue \in Seq(BatchType) /\ shown \in Seq(BatchType)
    /\ answers \in Seq(Replies)

-----------------------------------------------------------------------------
(* The inductive invariant                                                  *)

Held == IF app.held = NoBatch THEN 0 ELSE 1
Passed == Len(shown) + Held + Len(queue)

\* Where the thread is, and what that says of the task and of the application.
Reading ==
    /\ reader.at \in Running => task.active /\ app.importing
    /\ app.importing => task.id # 0
    /\ reader.at \in {"reading", "asking"} => reader.next = 0
    /\ reader.at = "finishing" => reader.next = Size + 1
    /\ reader.at = "done" <=> task.complete
    /\ ~task.active => queue = <<>>

\* The batches that are shown, held and queued are those of this task; those that are not late
\* follow each other.
Chain ==
    /\ \A k \in 1 .. Len(shown) :
          /\ shown[k].id = task.id /\ shown[k].at < reader.next
          /\ ~shown[k].late => shown[k].at = k - 1
    /\ app.held # NoBatch =>
          app.held.id = task.id /\ app.held.at = 0 /\ shown = <<>> /\ reader.next > 0
    /\ \A k \in 1 .. Len(queue) :
          /\ queue[k].id = task.id /\ queue[k].at < reader.next
          /\ ~queue[k].late => queue[k].at = Len(shown) + Held + k - 1

\* Whatever was cleared between them, they are in the order of the file, and the late ones are
\* a piece of it.
Order ==
    /\ \A j, k \in 1 .. Len(shown) : j < k => Follows(shown[j], shown[k], k - j)
    /\ \A j, k \in 1 .. Len(queue) : j < k => Follows(queue[j], queue[k], k - j)
    /\ \A j \in 1 .. Len(shown), k \in 1 .. Len(queue) :
          Follows(shown[j], queue[k], Len(shown) + k - j)
    /\ app.held # NoBatch => \A k \in 1 .. Len(queue) : Follows(app.held, queue[k], k)
    /\ Len(queue) <= QueueLimit

\* Nothing that was read is lost unless the task was cancelled or failed.
Counted ==
    /\ reader.at \in Running /\ ~task.canceled => reader.next = Passed
    /\ task.complete /\ ~task.canceled /\ ~task.error => Passed = Size + 1

\* Batches come from an agreed import only.
Agreement ==
    reader.at \in {"pushing", "finishing"} \/ Passed # 0 => task.confirmed

\* Late batches are those that were pushed after a cancel, and the only ones left.
LateOnes ==
    /\ \A k \in 1 .. Len(shown) : shown[k].late => task.canceled
    /\ app.held.late => task.canceled
    /\ \A k \in 1 .. Len(queue) : queue[k].late = task.canceled
    /\ task.canceled /\ app.call = "none" => app.held = NoBatch \/ app.held.late

\* Between the two halves of a cancel no round takes anything.
Window ==
    Stopping =>
        /\ app.call # "none" /\ ~app.held.late
        /\ \A k \in 1 .. Len(shown) : ~shown[k].late
        /\ reader.at \in Running =>
              \A k \in 1 .. Len(queue) : queue[k].at = reader.next - Len(queue) + k - 1

\* What the application holds, and where it may stand inside cancel and fail.
Quiet ==
    /\ task.stop => task.canceled
    /\ app.call # "none" => app.importing /\ (task.active => task.canceled)
    /\ app.call = "fail" => app.held = NoBatch /\ app.load = 0
    /\ ~app.importing => app.held = NoBatch /\ queue = <<>>
    /\ app.held # NoBatch /\ app.load = 0 => app.prepared
    /\ app.load # 0 => app.held # NoBatch

Inv == Reading /\ Chain /\ Order /\ Counted /\ Agreement /\ LateOnes /\ Window /\ Quiet
IInv == TypeOK /\ Inv

-----------------------------------------------------------------------------
(* Types are kept                                                           *)

USE ImportAssumption

\* The sequences that are written out below.
LEMMA SmallSeqs ==
    ASSUME NEW S
    PROVE  <<>> \in Seq(S) /\ (\A a \in S : <<a>> \in Seq(S)) /\ \A a, b \in S : <<a, b>> \in Seq(S)
OBVIOUS

\* What the thread pushes and what the application holds are batches.
LEMMA BatchTyped ==
    /\ NoBatch \in BatchType
    /\ \A at \in Nat : task \in Tasks => Batch(at) \in BatchType
BY DEF NoBatch, Batch, BatchType, Tasks

\* Two more commands at the end of the queue.
LEMMA TwoMore ==
    ASSUME NEW S, NEW q \in Seq(S), NEW x \in S, NEW y \in S
    PROVE  /\ q \o (<<x>> \o <<y>>) = Append(Append(q, x), y)
           /\ (q \o <<x>>) \o <<y>> = Append(Append(q, x), y)
<1>1. Append(q, x) = q \o <<x>> /\ Append(q, x) \in Seq(S) /\ <<x>> \in Seq(S) /\ <<y>> \in Seq(S)
  BY AppendIsConcat, AppendProperties
<1> DEFINE b == <<x>>
           d == <<y>>
<1>2. Append(Append(q, x), y) = Append(q, x) \o d
  BY <1>1, AppendIsConcat
<1> HIDE DEF b, d
<1>3. q \o (b \o d) = (q \o b) \o d
  BY <1>1, ConcatAssociative DEF b, d
<1> QED
  BY <1>1, <1>2, <1>3 DEF b, d

\* What the application posts to the script worker are commands.
LEMMA CommandTyped ==
    ASSUME NEW dir \in Protocols
    PROVE  Configure(dir) \in Commands /\ \A ticket \in Nat : Load(dir, ticket) \in Commands
BY DEF Configure, Load, Commands

\* A new load gets the next ticket, and waits for its answer.
LEMMA TicketTyped ==
    answers \in Seq(Replies) => NewTicket \in Nat \ {0} /\ Append(answers, "waiting") \in Seq(Replies)
BY DEF NewTicket, Replies

\* Giving up an import (resetDataImportGenerationState) keeps the types.
LEMMA GiveUpTyped ==
    ASSUME TypeOK, NEW a \in Apps, NEW w \in Workers, GiveUp(a, w)
    PROVE  app' \in Apps /\ worker' \in Workers /\ answers' \in Seq(Replies)
<1>1. NewTicket \in Nat /\ Append(answers, "waiting") \in Seq(Replies)
  BY TicketTyped DEF TypeOK
<1>2. app' \in Apps
  <2>1. a.load \in Nat /\ NoBatch \in BatchType /\ {"none"} \subseteq Protocols
    BY BatchTyped DEF Apps, Protocols
  <2> QED
    BY <1>1, <2>1 DEF GiveUp, Apps
<1>3. Restored(w) \in Workers
  <2> DEFINE A == IF panel.protocol = "none" THEN <<>> ELSE <<Load(panel.protocol, NewTicket)>>
             B == IF app.config = "none" THEN <<>> ELSE <<Configure(app.config)>>
  <2>1. panel.protocol \in Protocols /\ app.config \in Protocols /\ w.commands \in Seq(Commands)
    BY DEF TypeOK, Panels, Apps, Workers
  <2>2. A \in Seq(Commands) /\ B \in Seq(Commands)
    BY <1>1, <2>1, SmallSeqs, CommandTyped
  <2>3. w.commands \o A \o B \in Seq(Commands)
    BY <2>1, <2>2
  <2>4. Restored(w) = [w EXCEPT !.commands = w.commands \o A \o B]
    BY DEF Restored
  <2> QED
    BY <2>3, <2>4 DEF Workers
<1> QED
  BY <1>1, <1>2, <1>3 DEF GiveUp, TypeOK

\* The types hold at first.
LEMMA InitTyped == Init => TypeOK
<1> SUFFICES ASSUME Init PROVE TypeOK
  OBVIOUS
<1>1. task \in Tasks /\ reader \in Readers
  BY DEF Init, NoTask, Tasks, Readers
<1>2. app \in Apps
  BY BatchTyped DEF Init, NoImport, Apps, Protocols
<1>3. panel \in Panels /\ worker \in Workers
  BY SmallSeqs DEF Init, Panels, Workers, Protocols
<1> QED
  BY <1>1, <1>2, <1>3, SmallSeqs DEF Init, TypeOK

\* A task that is cancelled is a task.
LEMMA TaskTyped ==
    ASSUME task \in Tasks
    PROVE  Canceled(task) \in Tasks
BY DEF Canceled, Tasks

\* The queue that a cancel leaves is a queue of batches.
LEMMA QueueTyped ==
    queue \in Seq(BatchType) => QueueCanceled \in Seq(BatchType)
BY SmallSeqs DEF QueueCanceled

\* DataTransferTask::finish keeps the types.
LEMMA FinishTyped ==
    ASSUME TypeOK, NEW error \in BOOLEAN, NEW canceled \in BOOLEAN, Finish(error, canceled)
    PROVE  task' \in Tasks /\ reader' \in Readers /\ queue' \in Seq(BatchType)
<1>1. queue' \in Seq(BatchType)
  BY SmallSeqs DEF Finish, TypeOK
<1>2. task' \in Tasks
  BY DEF Finish, TypeOK, Tasks
<1>3. reader' \in Readers
  BY DEF Finish, TypeOK, Readers
<1> QED
  BY <1>1, <1>2, <1>3

\* Every step of the thread that reads the file keeps the types.
LEMMA ReaderTyped == TypeOK /\ Reader => TypeOK'
<1> SUFFICES ASSUME TypeOK, Reader PROVE TypeOK'
  OBVIOUS
<1>1. CASE Ask
  BY <1>1 DEF TypeOK, Ask, Tasks, Readers, Running
<1>2. CASE Agreed
  BY <1>2 DEF TypeOK, Agreed, Readers, Running
<1>3. CASE Push
  <2>1. reader.next \in Nat /\ Batch(reader.next) \in BatchType
    BY BatchTyped DEF TypeOK, Readers
  <2>2. reader' \in Readers
    <3> DEFINE place == IF reader.next = Size THEN "finishing" ELSE reader.at
               next == reader.next + 1
    <3>1. place \in Running \cup {"none", "done"} /\ next \in Nat /\ reader \in Readers
      BY <2>1 DEF TypeOK, Readers, Running
    <3>2. reader' = [reader EXCEPT !.next = next, !.at = place]
      BY <1>3 DEF Push
    <3> HIDE DEF place, next
    <3> QED
      BY <3>1, <3>2 DEF Readers
  <2>3. queue' \in Seq(BatchType)
    BY <1>3, <2>1, AppendProperties DEF Push, TypeOK
  <2> QED
    BY <1>3, <2>2, <2>3 DEF Push, TypeOK
<1>4. CASE EndReading
  <2>1. \E error, canceled \in BOOLEAN : Finish(error, canceled)
    BY <1>4 DEF EndReading
  <2>2. task' \in Tasks /\ reader' \in Readers /\ queue' \in Seq(BatchType)
    BY <2>1, FinishTyped
  <2> QED
    BY <1>4, <2>2 DEF EndReading, TypeOK
<1> QED
  BY <1>1, <1>2, <1>3, <1>4 DEF Reader

\* A command of the script worker keeps the types: a ticket that it answers was given out.
LEMMA WorkTyped == TypeOK /\ Work => TypeOK'
<1> SUFFICES ASSUME TypeOK, Work PROVE TypeOK'
  OBVIOUS
<1> DEFINE command == Head(worker.commands)
<1>1. worker.commands \in Seq(Commands) /\ worker.commands # <<>>
  BY DEF Work, TypeOK, Workers
<1>2. command \in Commands /\ Tail(worker.commands) \in Seq(Commands)
  BY <1>1
<1>3. CASE command.op = "configure"
  BY <1>2, <1>3 DEF Work, TypeOK, Workers, Commands
<1>4. CASE command.op # "configure"
  <2>1. PICK ok \in BOOLEAN :
          /\ worker' = [worker EXCEPT !.commands = Tail(@), !.protocol = IF ok THEN command.dir ELSE @]
          /\ answers' = [answers EXCEPT ![command.ticket] = IF ok THEN "ok" ELSE "bad"]
    BY <1>4 DEF Work
  <2>2. worker' \in Workers
    BY <1>2, <2>1 DEF TypeOK, Workers, Commands
  <2>3. answers' \in Seq(Replies)
    <3>1. answers \in [1 .. Len(answers) -> Replies]
      BY DEF TypeOK
    <3> DEFINE reply == IF ok THEN "ok" ELSE "bad"
    <3>2. reply \in Replies /\ Len(answers) \in Nat
      BY DEF TypeOK, Replies
    <3>3. answers' = [answers EXCEPT ![command.ticket] = reply]
      BY <2>1
    <3> HIDE DEF reply, command
    <3>4. answers' \in [1 .. Len(answers) -> Replies]
      BY <3>1, <3>2, <3>3
    <3> QED
      BY <3>2, <3>4, SeqDef
  <2> QED
    BY <2>2, <2>3, <1>4 DEF Work, TypeOK
<1> QED
  BY <1>3, <1>4

\* The calls of the user keep the types, and so does the rest of a cancel or of a failure.
LEMMA UserTyped ==
    TypeOK /\ ((\E session \in BOOLEAN : Start(session)) \/ Confirm \/ Cancel \/ EndCall) => TypeOK'
<1> SUFFICES ASSUME TypeOK,
                    (\E session \in BOOLEAN : Start(session)) \/ Confirm \/ Cancel \/ EndCall
             PROVE  TypeOK'
  OBVIOUS
<1>1. ASSUME NEW session \in BOOLEAN, Start(session) PROVE TypeOK'
  <2>1. task' \in Tasks
    <3>1. task.id + 1 \in Nat /\ NoTask \in Tasks
      BY DEF TypeOK, NoTask, Tasks
    <3>2. task' = [NoTask EXCEPT !.id = task.id + 1, !.active = TRUE]
      BY <1>1 DEF Start
    <3> QED
      BY <3>1, <3>2 DEF Tasks
  <2>2. reader' \in Readers
    BY <1>1 DEF Start, Readers, Running
  <2>3. app' \in Apps
    BY <1>1, BatchTyped DEF Start, TypeOK, NoImport, Apps, Protocols
  <2> QED
    BY <1>1, <2>1, <2>2, <2>3, SmallSeqs DEF Start, TypeOK
<1>2. CASE Confirm
  BY <1>2 DEF Confirm, TypeOK, Tasks
<1>3. CASE Cancel
  <2>1. app' \in Apps
    BY <1>3 DEF Cancel, TypeOK, Apps
  <2> QED
    BY <1>3, <2>1, TaskTyped, QueueTyped DEF Cancel, TypeOK
<1>4. CASE EndCancel
  <2>1. [app EXCEPT !.call = "none"] \in Apps
    BY DEF TypeOK, Apps
  <2>2. app' \in Apps /\ worker' \in Workers /\ answers' \in Seq(Replies)
    BY <1>4, <2>1, GiveUpTyped DEF EndCancel, TypeOK
  <2> QED
    BY <1>4, <2>2 DEF EndCancel, TypeOK
<1>5. CASE RequestStop
  BY <1>5 DEF RequestStop, TypeOK, Tasks
<1>6. CASE EndFail
  <2>1. task' \in Tasks
    BY <1>6 DEF EndFail, TypeOK, Tasks
  <2>2. app' \in Apps
    BY <1>6 DEF EndFail, TypeOK, Apps
  <2> QED
    BY <1>6, <2>1, <2>2 DEF EndFail, TypeOK
<1> QED
  BY <1>1, <1>2, <1>3, <1>4, <1>5, <1>6 DEF EndCall

\* What a round takes from the queue is a batch.
LEMMA TakenTyped ==
    ASSUME TypeOK, MayTake
    PROVE  /\ NextBatch \in BatchType
           /\ Taken => task' \in Tasks /\ queue' \in Seq(BatchType)
<1>1. app.held \in BatchType /\ queue \in Seq(BatchType) /\ task \in Tasks
  BY DEF TypeOK, Apps
<1>2. app.held = NoBatch => queue # <<>>
  BY DEF MayTake
<1>3. queue # <<>> => Head(queue) \in BatchType /\ Tail(queue) \in Seq(BatchType)
  BY <1>1
<1>4. NextBatch \in BatchType
  BY <1>1, <1>2, <1>3 DEF NextBatch
<1>5. ASSUME Taken PROVE queue' \in Seq(BatchType)
  BY <1>1, <1>2, <1>3, <1>5 DEF Taken
<1>6. ASSUME Taken PROVE task' \in Tasks
  BY <1>1, <1>6 DEF Taken, Tasks
<1> QED
  BY <1>4, <1>5, <1>6

\* A command appended to the queue of the worker leaves a worker.
LEMMA PostedTyped ==
    ASSUME worker \in Workers, NEW command \in Commands
    PROVE  [worker EXCEPT !.commands = Append(@, command)] \in Workers
BY AppendProperties DEF Workers

\* An exception in a round keeps the types.
LEMMA AbandonTyped ==
    ASSUME TypeOK, NEW w \in Workers, Abandon(w), panel' \in Panels
    PROVE  TypeOK'
<1>1. [app EXCEPT !.call = "fail"] \in Apps
  BY DEF TypeOK, Apps
<1>2. app' \in Apps /\ worker' \in Workers /\ answers' \in Seq(Replies)
  BY <1>1, GiveUpTyped DEF Abandon, TypeOK
<1> QED
  BY <1>2, TaskTyped, QueueTyped DEF Abandon, TypeOK

\* Every step of a round keeps the types, one case for each action of Round.
LEMMA RoundTyped == TypeOK /\ Round => TypeOK'
<1> SUFFICES ASSUME TypeOK, Round PROVE TypeOK'
  OBVIOUS
<1>0. /\ worker \in Workers /\ panel \in Panels /\ app \in Apps
      /\ "package" \in Protocols /\ "none" \in Protocols /\ NoBatch \in BatchType
  BY BatchTyped DEF TypeOK, Protocols
<1>1. CASE Harvest
  <2>1. panel' \in Panels
    BY <1>0, <1>1 DEF Harvest, Apps, Panels
  <2>2. app' \in Apps
    <3>1. \/ app' = [app EXCEPT !.load = 0, !.prepared = TRUE]
          \/ app' = [app EXCEPT !.call = "fail", !.load = 0, !.held = NoBatch,
                                !.prepared = FALSE, !.chosen = "none", !.config = "none",
                                !.records = FALSE]
      BY <1>1 DEF Harvest
    <3>2. [app EXCEPT !.load = 0, !.prepared = TRUE] \in Apps
      BY <1>0 DEF Apps
    <3>3. [app EXCEPT !.call = "fail", !.load = 0, !.held = NoBatch,
                      !.prepared = FALSE, !.chosen = "none", !.config = "none",
                      !.records = FALSE] \in Apps
      BY <1>0 DEF Apps
    <3> QED
      BY <3>1, <3>2, <3>3
  <2>3. worker' \in Workers
    <3>1. app.config \in Protocols
      BY <1>0 DEF Apps
    <3> QED
      BY <1>0, <1>1, <3>1, CommandTyped, PostedTyped DEF Harvest
  <2> QED
    BY <1>1, <2>1, <2>2, <2>3, TaskTyped, QueueTyped DEF Harvest, TypeOK
<1>2. ASSUME NEW source \in {"package", "current"}, Prepare(source) PROVE TypeOK'
  <2>1. /\ NextBatch \in BatchType /\ task' \in Tasks /\ queue' \in Seq(BatchType)
    BY <1>2, TakenTyped DEF Prepare
  <2>2. Chosen(source) \in Protocols /\ panel.config \in Protocols
    BY <1>0 DEF Chosen, Panels
  <2>3. NewTicket \in Nat /\ answers' \in Seq(Replies)
    BY <1>2, TicketTyped DEF Prepare, TypeOK
  <2>4. app' \in Apps
    <3>1. app' = [app EXCEPT !.load = NewTicket, !.held = NextBatch,
                             !.chosen = Chosen(source), !.config = panel.config]
      BY <1>2 DEF Prepare
    <3> QED
      BY <1>0, <2>1, <2>2, <2>3, <3>1 DEF Apps
  <2>5. worker' \in Workers
    <3> DEFINE both == <<Configure("package"), Load(Chosen(source), NewTicket)>>
    <3>1. both \in Seq(Commands)
      BY <1>0, <2>2, <2>3, CommandTyped, SmallSeqs
    <3>2. worker' = [worker EXCEPT !.commands = @ \o both]
      BY <1>2 DEF Prepare
    <3> HIDE DEF both
    <3> QED
      BY <1>0, <3>1, <3>2, ConcatProperties DEF Workers
  <2> QED
    BY <1>2, <2>1, <2>3, <2>4, <2>5 DEF Prepare, TypeOK
<1>3. CASE ApplyMetadata
  <2>1. /\ NextBatch \in BatchType /\ task' \in Tasks /\ queue' \in Seq(BatchType)
    BY <1>3, TakenTyped DEF ApplyMetadata
  <2>2. shown' \in Seq(BatchType)
    BY <1>3, <2>1, AppendProperties DEF ApplyMetadata, TypeOK
  <2>3. app' \in Apps
    BY <1>0, <1>3 DEF ApplyMetadata, Apps
  <2>4. panel' \in Panels
    BY <1>0, <1>3 DEF ApplyMetadata, Panels
  <2>5. worker' \in Workers
    BY <1>0, <1>3, CommandTyped, PostedTyped DEF ApplyMetadata
  <2> QED
    BY <1>3, <2>1, <2>2, <2>3, <2>4, <2>5 DEF ApplyMetadata, TypeOK
<1>4. CASE RefuseMetadata
  <2>1. panel' \in Panels
    BY <1>0, <1>4 DEF RefuseMetadata, Panels
  <2>2. [worker EXCEPT !.commands = Append(@, Configure("package"))] \in Workers
    BY <1>0, CommandTyped, PostedTyped
  <2> QED
    BY <1>0, <1>4, <2>1, <2>2, AbandonTyped DEF RefuseMetadata
<1>5. ASSUME NEW records \in BOOLEAN, ApplyData(records) PROVE TypeOK'
  <2>1. /\ NextBatch \in BatchType /\ task' \in Tasks /\ queue' \in Seq(BatchType)
    BY <1>5, TakenTyped DEF ApplyData
  <2>2. shown' \in Seq(BatchType)
    BY <1>5, <2>1, AppendProperties DEF ApplyData, TypeOK
  <2>3. app' \in Apps
    BY <1>0, <1>5 DEF ApplyData, Apps
  <2> QED
    BY <1>5, <2>1, <2>2, <2>3 DEF ApplyData, TypeOK
<1>6. CASE Complete
  <2>1. [app EXCEPT !.importing = FALSE] \in Apps
    BY <1>0 DEF Apps
  <2>2. app' \in Apps /\ worker' \in Workers /\ answers' \in Seq(Replies)
    BY <1>0, <1>6, <2>1, GiveUpTyped DEF Complete
  <2> QED
    BY <1>6, <2>2 DEF Complete, TypeOK
<1>7. CASE Retire
  <2>1. app' \in Apps
    BY <1>0, <1>7 DEF Retire, Apps
  <2> QED
    BY <1>7, <2>1 DEF Retire, TypeOK
<1>8. CASE HandOverFails
  BY <1>8 DEF HandOverFails, TypeOK, Tasks
<1> QED
  BY <1>1, <1>2, <1>3, <1>4, <1>5, <1>6, <1>7, <1>8 DEF Round

\* The types are inductive.
LEMMA NextTyped == TypeOK /\ [Next]_vars => TypeOK'
<1> SUFFICES ASSUME TypeOK, [Next]_vars PROVE TypeOK'
  OBVIOUS
<1>1. CASE UNCHANGED vars
  BY <1>1 DEF vars, TypeOK
<1>2. CASE Next
  BY <1>2, ReaderTyped, WorkTyped, UserTyped, RoundTyped DEF Next
<1> QED
  BY <1>1, <1>2

\* The types of every variable, whatever the calls, the answers of the script worker and
\* the errors of the file (Application, DataTransferTask).
THEOREM ImportTypeCorrect == Spec => []TypeOK
  BY InitTyped, NextTyped, PTL DEF Spec


-----------------------------------------------------------------------------
(* The invariant is inductive, where no round is cut in two and the file is *)
(* not empty                                                                *)

Whole == Risky = {} /\ Size # 0

\* The invariant holds at first.
LEMMA InitInv == Init => Inv
<1> SUFFICES ASSUME Init PROVE Inv
  OBVIOUS
<1>1. /\ reader.at = "none" /\ queue = <<>> /\ shown = <<>> /\ app.held = NoBatch
      /\ ~app.importing /\ app.call = "none" /\ app.load = 0 /\ task = NoTask
      /\ ~app.held.late
  BY DEF Init, NoImport, NoBatch
<1>2. Passed = 0
  BY <1>1 DEF Passed, Held
<1>3. Reading /\ Counted /\ Agreement
  BY <1>1, <1>2 DEF Reading, Counted, Agreement, Running, NoTask
<1>4. Chain /\ Order
  BY <1>1 DEF Chain, Order
<1>5. LateOnes /\ Window /\ Quiet
  BY <1>1 DEF LateOnes, Window, Quiet, Stopping, NoTask
<1> QED
  BY <1>3, <1>4, <1>5 DEF Inv

\* What DataTransferTask::cancel changes before it lets go of the lock.
LEMMA CanceledFacts ==
    ASSUME task \in Tasks
    PROVE  LET t == Canceled(task)
           IN  /\ t.id = task.id /\ t.complete = task.complete /\ t.confirmed = task.confirmed
               /\ t.error = task.error /\ t.stop = task.stop
               /\ t.canceled = (task.canceled \/ task.active)
               /\ t.active = (task.active /\ ~task.complete)
BY DEF Canceled, Tasks

\* What giving up an import leaves in the application.
LEMMA GiveUpFacts ==
    ASSUME NEW a \in Apps, NEW w, GiveUp(a, w)
    PROVE  /\ app'.held = NoBatch /\ app'.load = 0
           /\ app'.importing = a.importing /\ app'.call = a.call
BY DEF GiveUp, Apps

\* What a round knows of the task and of the batch that it takes.
LEMMA TakenFacts ==
    ASSUME IInv, MayTake, Taken
    PROVE  /\ app.load = 0 /\ app.importing /\ app.call = "none" /\ ~Stopping
           /\ task.id # 0 /\ task.confirmed
           /\ task' = [task EXCEPT !.active = task'.active]
           /\ ~task'.active => queue' = <<>>
           /\ reader.at \in Running => task'.active
           /\ NextBatch \in BatchType
           /\ NextBatch.id = task.id /\ NextBatch.at < reader.next
           /\ NextBatch.late = task.canceled
           /\ \/ NextBatch = app.held /\ NextBatch.at = 0 /\ app.held # NoBatch /\ shown = <<>>
                 /\ queue' = queue
              \/ NextBatch = queue[1] /\ app.held = NoBatch
                 /\ queue # <<>> /\ queue' = Tail(queue)
<1>1. /\ task \in Tasks /\ queue \in Seq(BatchType) /\ app \in Apps /\ shown \in Seq(BatchType)
      /\ reader \in Readers
  BY DEF IInv, TypeOK
<1>2. app.load = 0 /\ app.importing /\ app.call = "none" /\ (app.held # NoBatch \/ queue # <<>>)
  BY DEF MayTake, Pumps
<1>3. ~Stopping /\ task.id # 0
  BY <1>2 DEF IInv, Inv, Window, Reading
<1>4. task.confirmed
  <2>1. Passed # 0
    BY <1>1, <1>2 DEF Passed, Held
  <2> QED
    BY <2>1 DEF IInv, Inv, Agreement
<1>5. NextBatch \in BatchType
  BY TakenTyped DEF IInv
<1>6. CASE app.held # NoBatch
  <2>1. NextBatch = app.held /\ queue' = queue /\ task' = task
    BY <1>6 DEF Taken, NextBatch
  <2>2. app.held.late = task.canceled
    BY <1>1, <1>2, <1>6 DEF IInv, Inv, LateOnes, Apps, BatchType, Tasks
  <2>3. app.held.id = task.id /\ app.held.at = 0 /\ shown = <<>> /\ app.held.at < reader.next
    BY <1>6 DEF IInv, Inv, Chain
  <2>4. (~task.active => queue = <<>>) /\ (reader.at \in Running => task.active)
    BY DEF IInv, Inv, Reading
  <2>5. task' = [task EXCEPT !.active = task'.active]
    BY <1>1, <2>1 DEF Tasks
  <2> QED
    BY <1>2, <1>3, <1>4, <1>5, <1>6, <2>1, <2>2, <2>3, <2>4, <2>5
<1>7. CASE app.held = NoBatch
  <2>1. queue # <<>> /\ queue' = Tail(queue) /\ NextBatch = queue[1] /\ 1 \in 1 .. Len(queue)
    BY <1>1, <1>2, <1>7 DEF Taken, NextBatch
  <2>2. queue[1].late = task.canceled
    BY <2>1 DEF IInv, Inv, LateOnes
  <2>3. queue[1].id = task.id /\ queue[1].at < reader.next
    BY <2>1 DEF IInv, Inv, Chain
  <2>4. task' = [task EXCEPT !.active = ~(queue' = <<>> /\ task.complete)]
    BY <1>7, <2>1 DEF Taken
  <2>5. reader.at \in Running => ~task.complete
    BY DEF IInv, Inv, Reading, Running
  <2>6. /\ task' = [task EXCEPT !.active = task'.active]
        /\ task'.active = ~(queue' = <<>> /\ task.complete)
    BY <1>1, <2>4 DEF Tasks
  <2> QED
    BY <1>2, <1>3, <1>4, <1>5, <1>7, <2>1, <2>2, <2>3, <2>5, <2>6
<1> QED
  BY <1>6, <1>7

\* The invariant survives a step that leaves the task, its thread and the batches alone.
LEMMA InvFrame ==
    ASSUME Inv, UNCHANGED <<task, queue, reader, shown>>,
           app'.held = app.held, app'.importing = app.importing,
           app'.call = app.call, app'.load \in {0, app.load},
           app'.load # app.load \/ app.prepared => app'.prepared
    PROVE  Inv'
<1>1. Passed' = Passed /\ Held' = Held
  BY DEF Passed, Held
<1>2. Reading' /\ Counted' /\ Agreement'
  BY <1>1 DEF Inv, Reading, Counted, Agreement
<1>3. Chain' /\ Order'
  BY <1>1 DEF Inv, Chain, Order
<1>4. LateOnes' /\ Window'
  BY DEF Inv, LateOnes, Window, Stopping
<1>5. Quiet'
  BY DEF Inv, Quiet
<1> QED
  BY <1>2, <1>3, <1>4, <1>5 DEF Inv

\* The invariant survives when the queue is emptied, with or without what is held; this is what
\* cancel and fail do first.
LEMMA ClearedInv ==
    ASSUME Whole, IInv, task' = Canceled(task), queue' = QueueCanceled, reader' = reader, shown' = shown,
           app.call = "none", app'.call # "none", app.importing, app'.importing,
           \/ /\ app'.held = app.held /\ app'.load = app.load /\ app'.prepared = app.prepared
              /\ app'.call # "fail"
           \/ app'.held = NoBatch /\ app'.load = 0
    PROVE  Inv'
<1>0. /\ task \in Tasks /\ queue \in Seq(BatchType) /\ shown \in Seq(BatchType)
      /\ Len(queue) \in Nat /\ Len(shown) \in Nat /\ Held \in {0, 1} /\ Held' \in {0, 1}
  BY LenProperties DEF IInv, TypeOK, Held
<1>1. /\ task'.id = task.id /\ task'.complete = task.complete /\ task'.confirmed = task.confirmed
      /\ task'.error = task.error /\ task'.stop = task.stop
      /\ task'.canceled = (task.canceled \/ task.active)
      /\ task'.active = (task.active /\ ~task.complete)
  BY <1>0, CanceledFacts
<1>2. queue' = <<>>
  BY DEF QueueCanceled, IInv, Inv, Reading
<1>3. Held' <= Held /\ Passed' <= Passed /\ Passed' = Len(shown) + Held' /\ Passed' \in Nat
      /\ Passed \in Nat /\ ~NoBatch.late
  BY <1>0, <1>2 DEF Held, Passed, NoBatch
<1>4. ~Stopping
  BY DEF IInv, Inv, Window
<1>5. Reading'
  BY <1>1, <1>2 DEF IInv, Inv, Reading, Running
<1>6. Chain' /\ Order'
  <2>1. Len(queue') = 0 /\ 0 <= QueueLimit
    BY <1>2
  <2>2. Chain'
    BY <1>1, <2>1 DEF IInv, Inv, Chain
  <2>3. Order'
    BY <2>1 DEF IInv, Inv, Order
  <2> QED
    BY <2>2, <2>3
<1>7. Counted'
  <2>1. ASSUME ~task'.canceled, task'.complete, ~task'.error PROVE Passed' = Size + 1
    <3>1. ~task.active /\ queue = <<>> /\ Passed = Size + 1 /\ ~task.canceled
      BY <1>1, <2>1 DEF IInv, Inv, Reading, Counted
    <3>2. Passed = Len(shown) + Held
      BY <1>0, <3>1 DEF Passed
    <3>3. Held = 1 => Len(shown) = 0
      BY <1>0 DEF IInv, Inv, Chain, Held
    <3> QED
      BY <1>0, <1>3, <3>1, <3>2, <3>3 DEF Whole
  <2>2. reader'.at \in Running => task'.canceled
    BY <1>1 DEF IInv, Inv, Reading
  <2> QED
    BY <2>1, <2>2 DEF Counted
<1>8. Agreement'
  <2>1. Passed' # 0 => Passed # 0
    BY <1>3
  <2> QED
    BY <1>1, <2>1 DEF IInv, Inv, Agreement
<1>9. LateOnes'
  <2>1. \A k \in 1 .. Len(shown') : shown'[k].late => task'.canceled
    BY <1>1 DEF IInv, Inv, LateOnes
  <2>2. app'.held.late => task'.canceled
    BY <1>1, <1>3 DEF IInv, Inv, LateOnes
  <2>3. Len(queue') = 0
    BY <1>2
  <2> QED
    BY <2>1, <2>2, <2>3 DEF LateOnes
<1>10. Window'
  <2>1. ASSUME Stopping' PROVE ~task.canceled
    BY <1>1, <1>4, <2>1 DEF Stopping
  <2>2. ASSUME ~task.canceled
        PROVE  ~app'.held.late /\ \A k \in 1 .. Len(shown) : ~shown[k].late
    BY <1>3, <2>2 DEF IInv, Inv, LateOnes
  <2> QED
    BY <1>2, <2>1, <2>2 DEF Window
<1>11. Quiet'
  BY <1>1, <1>2 DEF IInv, Inv, Quiet, Reading
<1> QED
  BY <1>5, <1>6, <1>7, <1>8, <1>9, <1>10, <1>11 DEF Inv

\* The batches in the queue and those that are shown have a place in the file.
LEMMA Placed ==
    ASSUME TypeOK
    PROVE  /\ \A k \in 1 .. Len(queue) : queue[k] \in BatchType /\ queue[k].at \in Nat
           /\ \A k \in 1 .. Len(shown) : shown[k] \in BatchType /\ shown[k].at \in Nat
<1>1. \A k \in 1 .. Len(queue) : queue[k] \in BatchType
  BY ElementOfSeq DEF TypeOK
<1>2. \A k \in 1 .. Len(shown) : shown[k] \in BatchType
  BY ElementOfSeq DEF TypeOK
<1> QED
  BY <1>1, <1>2 DEF BatchType

\* Every step of the thread that reads the file keeps the invariant, also between the two halves
\* of a cancel.
LEMMA ReaderInv == IInv /\ Reader => Inv'
<1> SUFFICES ASSUME IInv, Reader PROVE Inv'
  OBVIOUS
<1>0. /\ task \in Tasks /\ queue \in Seq(BatchType) /\ app \in Apps /\ shown \in Seq(BatchType)
      /\ reader \in Readers /\ Size \in Nat /\ QueueLimit \in Nat /\ reader.next \in Nat
      /\ Len(queue) \in Nat /\ Len(shown) \in Nat /\ Held \in {0, 1}
  BY LenProperties DEF IInv, TypeOK, Held, Readers
<1>1. Held' = Held /\ shown' = shown /\ app' = app
  BY DEF Reader, Ask, Agreed, Push, EndReading, Held
<1>2. task'.id = task.id /\ task'.confirmed = task.confirmed /\ task'.stop = task.stop
  BY <1>0 DEF Reader, Ask, Agreed, Push, EndReading, Finish, Tasks
<1>3. CASE Ask \/ Agreed
  <2>1. queue' = queue /\ Passed' = Passed
    BY <1>1, <1>3 DEF Ask, Agreed, Passed
  <2>2. /\ task'.active = task.active /\ task'.canceled = task.canceled
        /\ task'.complete = task.complete /\ task'.error = task.error
        /\ reader'.next = reader.next
        /\ reader.at \in {"reading", "asking"} /\ reader'.at \in {"asking", "pushing"}
        /\ reader'.at = "pushing" => task.confirmed
    BY <1>0, <1>3 DEF Ask, Agreed, Tasks, Readers
  <2>3. Reading'
    BY <1>1, <1>2, <2>1, <2>2 DEF IInv, Inv, Reading, Running
  <2>4. Chain' /\ Order'
    BY <1>1, <1>2, <2>1, <2>2 DEF IInv, Inv, Chain, Order
  <2>5. Counted'
    BY <2>1, <2>2 DEF IInv, Inv, Counted, Running
  <2>6. Agreement'
    BY <1>2, <2>1, <2>2 DEF IInv, Inv, Agreement
  <2>7. LateOnes'
    BY <1>1, <2>1, <2>2 DEF IInv, Inv, LateOnes
  <2>8. Window'
    BY <1>1, <1>2, <2>1, <2>2 DEF IInv, Inv, Window, Stopping, Running
  <2>9. Quiet'
    BY <1>1, <1>2, <2>1, <2>2 DEF IInv, Inv, Quiet, Running
  <2> QED
    BY <2>3, <2>4, <2>5, <2>6, <2>7, <2>8, <2>9 DEF Inv
<1>4. CASE Push
  <2> DEFINE item == Batch(reader.next)
  <2>1. /\ reader.at = "pushing" /\ reader.at \in Running /\ ~task.stop /\ task' = task
        /\ queue' = Append(queue, item) /\ Len(queue) < QueueLimit
    BY <1>4 DEF Push, MayPush, Running
  <2>2. /\ reader'.next = reader.next + 1 /\ reader'.at \in {"pushing", "finishing"}
        /\ reader'.at = "finishing" => reader.next = Size
    BY <1>0, <1>4, <2>1 DEF Push, Readers
  <2>3. task.confirmed /\ task.active /\ app.importing /\ ~task.complete
    BY <2>1 DEF IInv, Inv, Agreement, Reading, Running
  <2>4. /\ Len(queue') = Len(queue) + 1 /\ Passed' = Passed + 1
        /\ queue'[Len(queue) + 1] = item
        /\ \A k \in 1 .. Len(queue) : queue'[k] = queue[k]
    <3>1. item \in BatchType
      BY <1>0, BatchTyped
    <3> HIDE DEF item
    <3> QED
      BY <1>0, <1>1, <2>1, <3>1, AppendProperties DEF Passed
  <2>5. item.id = task.id /\ item.at = reader.next /\ item.late = task.canceled
    BY DEF Batch
  <2> HIDE DEF item
  <2>6. \A k \in 1 .. Len(queue') : k \in 1 .. Len(queue) \/ k = Len(queue) + 1
    BY <1>0, <2>4
  <2>7. Stopping <=> task.canceled
    BY <2>1 DEF Stopping
  <2>8. Reading'
    BY <1>0, <1>1, <2>1, <2>2, <2>3 DEF IInv, Inv, Reading, Running, Readers
  <2>9. Chain'
    <3>1. ASSUME NEW k \in 1 .. Len(shown')
          PROVE  /\ shown'[k].id = task'.id /\ shown'[k].at < reader'.next
                 /\ ~shown'[k].late => shown'[k].at = k - 1
      <4>1. k \in 1 .. Len(shown) /\ shown'[k] = shown[k]
        BY <1>1
      <4>2. /\ shown[k].id = task.id /\ shown[k].at < reader.next
            /\ ~shown[k].late => shown[k].at = k - 1
        BY <4>1 DEF IInv, Inv, Chain
      <4>3. shown[k].at < reader.next + 1
        <5>1. shown[k].at \in Nat
          BY <4>1, Placed DEF IInv
        <5> QED
          BY <1>0, <4>2, <5>1
      <4> QED
        BY <2>1, <2>2, <4>1, <4>2, <4>3
    <3>2. ASSUME app'.held # NoBatch
          PROVE  app'.held.id = task'.id /\ app'.held.at = 0 /\ shown' = <<>> /\ reader'.next > 0
      BY <1>0, <1>1, <2>1, <2>2, <3>2 DEF IInv, Inv, Chain
    <3>3. ASSUME NEW k \in 1 .. Len(queue')
          PROVE  /\ queue'[k].id = task'.id /\ queue'[k].at < reader'.next
                 /\ ~queue'[k].late => queue'[k].at = Len(shown') + Held' + k - 1
      <4>1. CASE k = Len(queue) + 1
        <5>1. Len(shown) + Held + k - 1 = Passed
          BY <1>0, <4>1 DEF Passed
        <5>2. ~task.canceled => reader.next = Passed
          BY <2>1 DEF IInv, Inv, Counted
        <5>3. reader.next < reader.next + 1
          BY <1>0
        <5> QED
          BY <1>1, <2>1, <2>2, <2>4, <2>5, <4>1, <5>1, <5>2, <5>3
      <4>2. CASE k \in 1 .. Len(queue)
        <5>1. /\ queue[k].id = task.id /\ queue[k].at < reader.next
              /\ ~queue[k].late => queue[k].at = Len(shown) + Held + k - 1
          BY <4>2 DEF IInv, Inv, Chain
        <5>2. queue[k].at < reader.next + 1
          <6>1. queue[k].at \in Nat
            BY <4>2, Placed DEF IInv
          <6> QED
            BY <1>0, <5>1, <6>1
        <5> QED
          BY <1>1, <2>1, <2>2, <2>4, <4>2, <5>1, <5>2
      <4> QED
        BY <2>6, <4>1, <4>2
    <3> QED
      BY <3>1, <3>2, <3>3 DEF Chain
  <2>10. Order'
    <3>1. ASSUME NEW j \in 1 .. Len(queue)
          PROVE  Follows(queue[j], item, Len(queue) + 1 - j)
      <4>1. queue[j].at < reader.next /\ queue[j].late = task.canceled /\ queue[j].at \in Nat
        <5>1. queue[j].at < reader.next
          BY DEF IInv, Inv, Chain
        <5>2. queue[j].late = task.canceled
          BY DEF IInv, Inv, LateOnes
        <5> QED
          BY <5>1, <5>2, Placed DEF IInv
      <4>2. ASSUME task.canceled
            PROVE  /\ reader.next - queue[j].at = Len(queue) + 1 - j
                   /\ Len(queue) + 1 - j < QueueLimit
        <5>1. queue[j].at = reader.next - Len(queue) + j - 1
          BY <2>1, <2>7, <4>2 DEF IInv, Inv, Window
        <5>2. Len(queue) + 1 - j <= Len(queue)
          BY <1>0
        <5> QED
          BY <1>0, <2>1, <4>1, <5>1, <5>2
      <4> QED
        BY <2>5, <4>1, <4>2 DEF Follows
    <3>2. ASSUME NEW j \in 1 .. Len(shown)
          PROVE  \A n : Follows(shown[j], item, n)
      <4>1. shown[j].at < reader.next
        BY DEF IInv, Inv, Chain
      <4>2. ~shown[j].late
        BY <2>7 DEF IInv, Inv, LateOnes, Window
      <4> QED
        BY <2>5, <4>1, <4>2 DEF Follows
    <3>3. ASSUME app.held # NoBatch PROVE \A n : Follows(app.held, item, n)
      <4>1. app.held.at < reader.next
        BY <1>0, <3>3 DEF IInv, Inv, Chain
      <4>2. ~app.held.late
        BY <2>7 DEF IInv, Inv, LateOnes, Window
      <4> QED
        BY <2>5, <4>1, <4>2 DEF Follows
    <3>4. ASSUME NEW j \in 1 .. Len(queue'), NEW k \in 1 .. Len(queue'), j < k
          PROVE  Follows(queue'[j], queue'[k], k - j)
      <4>1. j \in 1 .. Len(queue)
        BY <1>0, <2>4, <3>4
      <4>2. CASE k = Len(queue) + 1
        BY <2>4, <3>1, <4>1, <4>2
      <4>3. CASE k \in 1 .. Len(queue)
        BY <2>4, <3>4, <4>1, <4>3 DEF IInv, Inv, Order
      <4> QED
        BY <2>6, <4>2, <4>3
    <3>5. ASSUME NEW j \in 1 .. Len(shown'), NEW k \in 1 .. Len(queue')
          PROVE  Follows(shown'[j], queue'[k], Len(shown') + k - j)
      <4>1. j \in 1 .. Len(shown) /\ shown' = shown
        BY <1>1
      <4>2. CASE k = Len(queue) + 1
        BY <2>4, <3>2, <4>1, <4>2
      <4>3. CASE k \in 1 .. Len(queue)
        BY <2>4, <4>1, <4>3 DEF IInv, Inv, Order
      <4> QED
        BY <2>6, <4>2, <4>3
    <3>6. ASSUME app'.held # NoBatch, NEW k \in 1 .. Len(queue')
          PROVE  Follows(app'.held, queue'[k], k)
      <4>1. CASE k = Len(queue) + 1
        BY <1>1, <2>4, <3>3, <3>6, <4>1
      <4>2. CASE k \in 1 .. Len(queue)
        BY <1>1, <2>4, <3>6, <4>2 DEF IInv, Inv, Order
      <4> QED
        BY <2>6, <4>1, <4>2
    <3>7. Len(queue') <= QueueLimit
      BY <1>0, <2>1, <2>4
    <3>8. \A j, k \in 1 .. Len(shown') : j < k => Follows(shown'[j], shown'[k], k - j)
      BY <1>1 DEF IInv, Inv, Order
    <3> QED
      BY <3>4, <3>5, <3>6, <3>7, <3>8 DEF Order
  <2>11. Counted'
    <3>1. ~task.canceled => reader.next = Passed
      BY <2>1 DEF IInv, Inv, Counted
    <3> QED
      BY <2>1, <2>2, <2>3, <2>4, <3>1 DEF Counted
  <2>12. Agreement'
    BY <2>1, <2>3 DEF Agreement
  <2>13. LateOnes'
    <3>1. ASSUME NEW k \in 1 .. Len(queue') PROVE queue'[k].late = task'.canceled
      BY <2>1, <2>4, <2>5, <2>6 DEF IInv, Inv, LateOnes
    <3> QED
      BY <1>1, <2>1, <3>1 DEF IInv, Inv, LateOnes
  <2>14. Window'
    <3>1. ASSUME Stopping
          PROVE  \A k \in 1 .. Len(queue') : queue'[k].at = reader'.next - Len(queue') + k - 1
      <4> SUFFICES ASSUME NEW k \in 1 .. Len(queue')
                   PROVE  queue'[k].at = reader'.next - Len(queue') + k - 1
        OBVIOUS
      <4>1. reader'.next - Len(queue') = reader.next - Len(queue)
        BY <1>0, <2>2, <2>4
      <4>2. CASE k = Len(queue) + 1
        <5>1. reader.next - Len(queue) + k - 1 = reader.next
          BY <1>0, <4>2
        <5> QED
          BY <2>4, <2>5, <4>1, <4>2, <5>1
      <4>3. CASE k \in 1 .. Len(queue)
        BY <2>1, <2>4, <3>1, <4>1, <4>3 DEF IInv, Inv, Window
      <4> QED
        BY <2>6, <4>2, <4>3
    <3>2. Stopping' <=> Stopping
      BY <2>1 DEF Stopping
    <3> QED
      BY <1>1, <3>1, <3>2 DEF IInv, Inv, Window
  <2>15. Quiet'
    BY <1>1, <2>1, <2>3 DEF IInv, Inv, Quiet, Running
  <2> QED
    BY <2>8, <2>9, <2>10, <2>11, <2>12, <2>13, <2>14, <2>15 DEF Inv
<1>5. CASE EndReading
  <2>1. PICK error, canceled \in BOOLEAN :
          /\ Finish(error, canceled) /\ reader.at \in Running
          /\ canceled => task.stop
          /\ ~error /\ ~canceled => reader.at = "finishing"
    BY <1>5 DEF EndReading, Running
  <2>2. /\ task'.complete /\ reader'.at = "done" /\ reader'.next = reader.next
        /\ task'.error = (task.error \/ error) /\ task'.canceled = (task.canceled \/ canceled)
        /\ task'.active = (queue' # <<>>)
        /\ queue' = <<>> \/ queue' = queue
        /\ task'.error \/ task'.canceled \/ queue' = queue
        /\ task'.canceled => queue' = <<>>
    BY <1>0, <2>1 DEF Finish, Spoiled, Tasks, Readers
  <2>3. task'.canceled = task.canceled
    BY <1>0, <2>1, <2>2 DEF IInv, Inv, Quiet, Tasks
  <2>4. Reading'
    BY <1>1, <1>2, <2>2 DEF IInv, Inv, Reading, Running
  <2>5. Chain' /\ Order'
    <3>1. CASE queue' = queue
      BY <1>1, <1>2, <2>2, <3>1 DEF IInv, Inv, Chain, Order
    <3>2. CASE queue' = <<>>
      <4>1. Len(queue') = 0 /\ 0 <= QueueLimit
        BY <1>0, <3>2
      <4>2. Chain'
        BY <1>1, <1>2, <2>2, <4>1 DEF IInv, Inv, Chain
      <4>3. Order'
        BY <1>1, <4>1 DEF IInv, Inv, Order
      <4> QED
        BY <4>2, <4>3
    <3> QED
      BY <2>2, <3>1, <3>2
  <2>6. Counted'
    <3>1. ASSUME ~task'.canceled, ~task'.error PROVE Passed' = Size + 1
      <4>1. queue' = queue /\ reader.at = "finishing" /\ ~task.canceled
        BY <2>1, <2>2, <3>1
      <4>2. reader.next = Passed /\ reader.next = Size + 1
        BY <4>1 DEF IInv, Inv, Counted, Reading, Running
      <4> QED
        BY <1>1, <4>1, <4>2 DEF Passed
    <3> QED
      BY <2>2, <3>1 DEF Counted, Running
  <2>7. Agreement'
    <3>1. Passed' # 0 => Passed # 0
      BY <1>0, <1>1, <2>2 DEF Passed
    <3> QED
      BY <1>2, <2>2, <3>1 DEF IInv, Inv, Agreement
  <2>8. LateOnes'
    <3>1. ASSUME NEW k \in 1 .. Len(queue') PROVE queue'[k].late = task'.canceled
      <4>1. queue' = queue
        BY <2>2, <3>1
      <4> QED
        BY <2>3, <4>1 DEF IInv, Inv, LateOnes
    <3> QED
      BY <1>1, <2>3, <3>1 DEF IInv, Inv, LateOnes
  <2>9. Window'
    BY <1>1, <1>2, <2>2, <2>3 DEF IInv, Inv, Window, Stopping, Running
  <2>10. Quiet'
    <3>1. task.active
      BY <2>1 DEF IInv, Inv, Reading
    <3> QED
      BY <1>1, <1>2, <2>2, <2>3, <3>1 DEF IInv, Inv, Quiet
  <2> QED
    BY <2>4, <2>5, <2>6, <2>7, <2>8, <2>9, <2>10 DEF Inv
<1> QED
  BY <1>3, <1>4, <1>5 DEF Reader

\* The calls of the user keep the invariant, and so does the rest of a cancel or of a failure; a
\* cancel falls between rounds (Whole).
LEMMA UserInv ==
    Whole /\ IInv /\ ((\E session \in BOOLEAN : Start(session)) \/ Confirm \/ Cancel \/ EndCall)
        => Inv'
<1> SUFFICES ASSUME Whole, IInv,
                    (\E session \in BOOLEAN : Start(session)) \/ Confirm \/ Cancel \/ EndCall
             PROVE  Inv'
  OBVIOUS
<1>0. /\ task \in Tasks /\ queue \in Seq(BatchType) /\ app \in Apps /\ shown \in Seq(BatchType)
      /\ reader \in Readers /\ Size \in Nat \ {0} /\ QueueLimit \in Nat
      /\ Len(queue) \in Nat /\ Len(shown) \in Nat /\ Held \in {0, 1}
  BY LenProperties DEF IInv, TypeOK, Held, Whole
<1>1. ASSUME NEW session \in BOOLEAN, Start(session) PROVE Inv'
  <2>1. /\ queue' = <<>> /\ shown' = <<>> /\ reader'.at = "reading" /\ reader'.next = 0
        /\ app'.held = NoBatch /\ app'.importing /\ app'.call = "none" /\ app'.load = 0
    BY <1>1 DEF Start, NoImport
  <2>2. /\ task'.id = task.id + 1 /\ task'.active /\ ~task'.canceled /\ ~task'.complete
        /\ ~task'.error /\ ~task'.stop
    BY <1>1 DEF Start, NoTask
  <2>3. Passed' = 0 /\ ~NoBatch.late
    BY <2>1 DEF Passed, Held, NoBatch
  <2>4. task.id + 1 # 0
    BY <1>0 DEF Tasks
  <2>5. Reading'
    BY <2>1, <2>2, <2>4 DEF Reading, Running
  <2>6. Chain' /\ Order'
    BY <1>0, <2>1 DEF Chain, Order
  <2>7. Counted' /\ Agreement' /\ Quiet'
    BY <2>1, <2>2, <2>3 DEF Counted, Agreement, Quiet
  <2>8. LateOnes' /\ Window'
    BY <2>1, <2>2, <2>3 DEF LateOnes, Window, Stopping
  <2> QED
    BY <2>5, <2>6, <2>7, <2>8 DEF Inv
<1>2. CASE Confirm
  <2>1. /\ queue' = queue /\ shown' = shown /\ app' = app /\ reader' = reader
        /\ task'.id = task.id /\ task'.active = task.active /\ task'.canceled = task.canceled
        /\ task'.complete = task.complete /\ task'.error = task.error /\ task'.stop = task.stop
        /\ task'.confirmed
    BY <1>0, <1>2 DEF Confirm, Tasks
  <2>2. Passed' = Passed /\ Held' = Held
    BY <2>1 DEF Passed, Held
  <2>3. Reading' /\ Counted' /\ Agreement' /\ Quiet'
    BY <2>1, <2>2 DEF IInv, Inv, Reading, Counted, Agreement, Quiet
  <2>4. Chain' /\ Order'
    BY <2>1, <2>2 DEF IInv, Inv, Chain, Order
  <2>5. LateOnes' /\ Window'
    BY <2>1 DEF IInv, Inv, LateOnes, Window, Stopping
  <2> QED
    BY <2>3, <2>4, <2>5 DEF Inv
<1>3. CASE Cancel
  <2>1. /\ shown' = shown /\ reader' = reader /\ app'.held = app.held /\ app'.load = app.load
        /\ app'.importing /\ app.importing /\ app.call = "none" /\ app'.call = "cancel"
        /\ app'.prepared = app.prepared
        /\ task' = Canceled(task) /\ queue' = QueueCanceled
    BY <1>0, <1>3 DEF Cancel, Apps
  <2> QED
    BY <2>1, ClearedInv
<1>4. CASE RequestStop
  <2>1. /\ queue' = queue /\ shown' = shown /\ app' = app /\ reader' = reader
        /\ task'.id = task.id /\ task'.active = task.active /\ task'.canceled = task.canceled
        /\ task'.complete = task.complete /\ task'.error = task.error
        /\ task'.confirmed = task.confirmed /\ task'.stop /\ task.canceled
    BY <1>0, <1>4 DEF RequestStop, Stopping, Tasks
  <2>2. Passed' = Passed /\ Held' = Held
    BY <2>1 DEF Passed, Held
  <2>3. Reading' /\ Counted' /\ Agreement' /\ Quiet'
    BY <2>1, <2>2 DEF IInv, Inv, Reading, Counted, Agreement, Quiet
  <2>4. Chain' /\ Order'
    BY <2>1, <2>2 DEF IInv, Inv, Chain, Order
  <2>5. LateOnes' /\ Window'
    BY <2>1 DEF IInv, Inv, LateOnes, Window, Stopping
  <2> QED
    BY <2>3, <2>4, <2>5 DEF Inv
<1>5. CASE EndCancel
  <2>1. queue' = queue /\ shown' = shown /\ reader' = reader /\ task' = task /\ app.call = "cancel"
        /\ ~Stopping
    BY <1>5 DEF EndCancel
  <2>2. /\ app'.held = NoBatch /\ app'.load = 0 /\ app'.importing = app.importing
        /\ app'.call = "none" /\ ~NoBatch.late
    <3> DEFINE a == [app EXCEPT !.call = "none"]
    <3>1. a \in Apps /\ a.importing = app.importing /\ a.call = "none"
      BY <1>0 DEF Apps
    <3>2. GiveUp(a, worker)
      BY <1>5 DEF EndCancel
    <3> HIDE DEF a
    <3> QED
      BY <3>1, <3>2, GiveUpFacts DEF NoBatch
  <2>3. app.importing /\ (task.active => task.canceled) /\ (reader.at \in Running => task.canceled)
    BY <2>1 DEF IInv, Inv, Quiet, Reading
  <2>4. Held' = 0 /\ Passed' = Len(shown) + Len(queue) /\ Passed' <= Passed /\ Passed \in Nat
    BY <1>0, <2>1, <2>2 DEF Held, Passed
  <2>5. ~task.canceled => queue = <<>>
    BY <2>3 DEF IInv, Inv, Reading
  <2>6. Reading'
    BY <2>1, <2>2 DEF IInv, Inv, Reading
  <2>7. Chain'
    <3>1. ASSUME NEW k \in 1 .. Len(queue) PROVE queue[k].late
      BY <2>5, <3>1 DEF IInv, Inv, LateOnes
    <3> QED
      BY <2>1, <2>2, <3>1 DEF IInv, Inv, Chain
  <2>8. Order'
    BY <2>1, <2>2 DEF IInv, Inv, Order
  <2>9. Counted'
    <3>1. ASSUME task.complete, ~task.canceled, ~task.error PROVE Passed' = Size + 1
      <4>1. Passed = Size + 1 /\ queue = <<>>
        BY <2>5, <3>1 DEF IInv, Inv, Counted
      <4>2. Held = 1 => Len(shown) = 0
        BY <1>0 DEF IInv, Inv, Chain, Held
      <4> QED
        BY <1>0, <2>4, <4>1, <4>2 DEF Passed
    <3> QED
      BY <2>1, <2>3, <3>1 DEF Counted
  <2>10. Agreement'
    <3>1. Passed' # 0 => Passed # 0
      BY <1>0, <2>4
    <3> QED
      BY <2>1, <3>1 DEF IInv, Inv, Agreement
  <2>11. LateOnes' /\ Window'
    BY <2>1, <2>2 DEF IInv, Inv, LateOnes, Window, Stopping
  <2>12. Quiet'
    BY <2>1, <2>2, <2>3 DEF IInv, Inv, Quiet
  <2> QED
    BY <2>6, <2>7, <2>8, <2>9, <2>10, <2>11, <2>12 DEF Inv
<1>6. CASE EndFail
  <2>1. /\ queue' = queue /\ shown' = shown /\ reader' = reader /\ app.call = "fail" /\ ~Stopping
        /\ app'.held = app.held /\ app'.load = app.load /\ app'.importing = app.importing
        /\ app'.prepared = app.prepared /\ app'.call = "none"
        /\ task'.id = task.id /\ task'.active = task.active /\ task'.canceled = task.canceled
        /\ task'.complete = task.complete /\ task'.error
        /\ task'.confirmed = task.confirmed /\ task'.stop = task.stop
    BY <1>0, <1>6 DEF EndFail, Tasks, Apps
  <2>2. Passed' = Passed /\ Held' = Held /\ app.held = NoBatch
    BY <2>1 DEF Passed, Held, IInv, Inv, Quiet
  <2>3. Reading' /\ Counted' /\ Agreement' /\ Quiet'
    BY <2>1, <2>2 DEF IInv, Inv, Reading, Counted, Agreement, Quiet
  <2>4. Chain' /\ Order'
    BY <2>1, <2>2 DEF IInv, Inv, Chain, Order
  <2>5. LateOnes' /\ Window'
    BY <2>1, <2>2 DEF IInv, Inv, LateOnes, Window, Stopping
  <2> QED
    BY <2>3, <2>4, <2>5 DEF Inv
<1> QED
  BY <1>1, <1>2, <1>3, <1>4, <1>5, <1>6 DEF EndCall

\* What remains true of the task when a batch is taken from it.
LEMMA TakenTask ==
    ASSUME IInv, MayTake, Taken, reader' = reader
    PROVE  /\ task'.id = task.id /\ task'.complete = task.complete
           /\ task'.confirmed /\ task'.error = task.error /\ task'.stop = task.stop
           /\ task'.canceled = task.canceled
           /\ ~task'.active => queue' = <<>>
           /\ reader.at \in Running => task'.active
<1>1. task \in Tasks
  BY DEF IInv, TypeOK
<1>2. task' = [task EXCEPT !.active = task'.active]
  BY TakenFacts
<1>3. task.confirmed /\ (~task'.active => queue' = <<>>) /\ (reader.at \in Running => task'.active)
  BY TakenFacts
<1> QED
  BY <1>1, <1>2, <1>3 DEF Tasks

\* What is left in the queue, counted from the batch that was taken.
LEMMA QueueLeft ==
    ASSUME IInv, MayTake, Taken
    PROVE  /\ Len(queue') \in Nat /\ Len(queue') <= Len(queue)
           /\ Len(shown) + 1 + Len(queue') = Passed
           /\ ~NextBatch.late => NextBatch.at = Len(shown)
           /\ \A k \in 1 .. Len(queue') :
                 /\ queue'[k].id = task.id /\ queue'[k].at < reader.next
                 /\ ~queue'[k].late => queue'[k].at = Len(shown) + k
                 /\ queue'[k].late = task.canceled
                 /\ Follows(NextBatch, queue'[k], k)
           /\ \A j, k \in 1 .. Len(queue') : j < k => Follows(queue'[j], queue'[k], k - j)
           /\ \A j \in 1 .. Len(shown), k \in 1 .. Len(queue') :
                 Follows(shown[j], queue'[k], Len(shown) + 1 + k - j)
           /\ \A j \in 1 .. Len(shown) : Follows(shown[j], NextBatch, Len(shown) + 1 - j)
<1>0. /\ queue \in Seq(BatchType) /\ shown \in Seq(BatchType)
      /\ Len(queue) \in Nat /\ Len(shown) \in Nat
  BY LenProperties DEF IInv, TypeOK
<1>1. CASE app.held # NoBatch
  <2>1. NextBatch = app.held /\ NextBatch.at = 0 /\ shown = <<>> /\ queue' = queue /\ Held = 1
    BY <1>1, TakenFacts DEF Held
  <2>2. Len(shown) = 0
    BY <2>1
  <2>3. Len(shown) + 1 + Len(queue') = Passed
    BY <1>0, <2>1, <2>2 DEF Passed
  <2>4. ASSUME NEW k \in 1 .. Len(queue)
        PROVE  /\ queue[k].id = task.id /\ queue[k].at < reader.next
               /\ ~queue[k].late => queue[k].at = Len(shown) + k
               /\ queue[k].late = task.canceled
               /\ Follows(NextBatch, queue[k], k)
    <3>1. Len(shown) + Held + k - 1 = Len(shown) + k
      BY <1>0, <2>1
    <3>2. /\ queue[k].id = task.id /\ queue[k].at < reader.next
          /\ ~queue[k].late => queue[k].at = Len(shown) + Held + k - 1
      BY DEF IInv, Inv, Chain
    <3>3. queue[k].late = task.canceled
      BY DEF IInv, Inv, LateOnes
    <3>4. Follows(NextBatch, queue[k], k)
      BY <1>1, <2>1 DEF IInv, Inv, Order
    <3> QED
      BY <3>1, <3>2, <3>3, <3>4
  <2>5. \A j, k \in 1 .. Len(queue) : j < k => Follows(queue[j], queue[k], k - j)
    BY DEF IInv, Inv, Order
  <2> QED
    BY <1>0, <2>1, <2>2, <2>3, <2>4, <2>5
<1>2. CASE app.held = NoBatch
  <2>1. queue # <<>> /\ queue' = Tail(queue) /\ Held = 0 /\ NextBatch = queue[1]
    BY <1>2, TakenFacts DEF Held
  <2>2. /\ Len(queue') = Len(queue) - 1 /\ Len(queue) # 0
        /\ \A k \in 1 .. Len(queue') : queue'[k] = queue[k + 1]
    BY <1>0, <2>1
  <2>3. Len(shown) + 1 + Len(queue') = Passed
    BY <1>0, <2>1, <2>2 DEF Passed
  <2>4. 1 \in 1 .. Len(queue) /\ \A k \in 1 .. Len(queue') : k + 1 \in 1 .. Len(queue) /\ 1 < k + 1
    BY <1>0, <2>2
  <2>5. ASSUME NEW k \in 1 .. Len(queue)
        PROVE  ~queue[k].late => queue[k].at = Len(shown) + k - 1
    <3>1. Len(shown) + Held + k - 1 = Len(shown) + k - 1
      BY <1>0, <2>1
    <3> QED
      BY <3>1 DEF IInv, Inv, Chain
  <2>6. ASSUME NEW k \in 1 .. Len(queue')
        PROVE  /\ queue'[k].id = task.id /\ queue'[k].at < reader.next
               /\ ~queue'[k].late => queue'[k].at = Len(shown) + k
               /\ queue'[k].late = task.canceled
               /\ Follows(NextBatch, queue'[k], k)
    <3>1. Len(shown) + (k + 1) - 1 = Len(shown) + k /\ (k + 1) - 1 = k
      BY <1>0
    <3>2. /\ queue[k + 1].id = task.id /\ queue[k + 1].at < reader.next
          /\ ~queue[k + 1].late => queue[k + 1].at = Len(shown) + (k + 1) - 1
      BY <2>4, <2>5 DEF IInv, Inv, Chain
    <3>3. queue[k + 1].late = task.canceled
      BY <2>4 DEF IInv, Inv, LateOnes
    <3>4. Follows(queue[1], queue[k + 1], (k + 1) - 1)
      BY <2>4 DEF IInv, Inv, Order
    <3> QED
      BY <2>1, <2>2, <3>1, <3>2, <3>3, <3>4
  <2>7. ASSUME NEW j \in 1 .. Len(queue'), NEW k \in 1 .. Len(queue'), j < k
        PROVE  Follows(queue'[j], queue'[k], k - j)
    <3>1. j + 1 < k + 1 /\ (k + 1) - (j + 1) = k - j
      BY <2>7
    <3>2. Follows(queue[j + 1], queue[k + 1], (k + 1) - (j + 1))
      BY <2>4, <3>1 DEF IInv, Inv, Order
    <3> QED
      BY <2>2, <3>1, <3>2
  <2>8. ASSUME NEW j \in 1 .. Len(shown), NEW k \in 1 .. Len(queue')
        PROVE  Follows(shown[j], queue'[k], Len(shown) + 1 + k - j)
    <3>1. Len(shown) + (k + 1) - j = Len(shown) + 1 + k - j
      BY <1>0
    <3>2. Follows(shown[j], queue[k + 1], Len(shown) + (k + 1) - j)
      BY <2>4 DEF IInv, Inv, Order
    <3> QED
      BY <2>2, <3>1, <3>2
  <2>9. \A j \in 1 .. Len(shown) : Follows(shown[j], queue[1], Len(shown) + 1 - j)
    BY <2>4 DEF IInv, Inv, Order
  <2>10. ~NextBatch.late => NextBatch.at = Len(shown)
    BY <1>0, <2>1, <2>4, <2>5
  <2> QED
    BY <1>0, <2>1, <2>2, <2>3, <2>6, <2>7, <2>8, <2>9, <2>10
<1> QED
  BY <1>1, <1>2

\* A batch moves from the queue to what is shown; Held is 0 or 1 before, and 0 after.
LEMMA ShownInv ==
    ASSUME IInv, MayTake, Taken, reader' = reader, shown' = Append(shown, NextBatch),
           app'.held = NoBatch, app'.importing = app.importing,
           app'.call = app.call, app'.load = app.load
    PROVE  Inv'
<1>0. /\ task \in Tasks /\ queue \in Seq(BatchType) /\ app \in Apps /\ shown \in Seq(BatchType)
      /\ Len(queue) \in Nat /\ Len(shown) \in Nat /\ QueueLimit \in Nat
  BY LenProperties DEF IInv, TypeOK
<1>1. /\ NextBatch \in BatchType /\ NextBatch.id = task.id /\ NextBatch.at < reader.next
      /\ NextBatch.late = task.canceled /\ ~Stopping /\ app.call = "none" /\ app.importing
      /\ app.load = 0
  BY TakenFacts
<1> DEFINE taken == NextBatch
<1>2. /\ Len(shown') = Len(shown) + 1 /\ shown'[Len(shown) + 1] = taken
      /\ \A k \in 1 .. Len(shown) : shown'[k] = shown[k]
  BY <1>0, <1>1, AppendProperties
<1>3. \A k \in 1 .. Len(shown') : k \in 1 .. Len(shown) \/ k = Len(shown) + 1
  BY <1>0, <1>2
<1>4. Held' = 0 /\ ~NoBatch.late
  BY DEF Held, NoBatch
<1>5. Passed' = Passed
  BY <1>0, <1>2, <1>4, QueueLeft DEF Passed
<1> HIDE DEF taken
<1>6. Reading'
  BY TakenTask DEF IInv, Inv, Reading
<1>7. Chain'
  <2>1. ASSUME NEW k \in 1 .. Len(shown')
        PROVE  /\ shown'[k].id = task'.id /\ shown'[k].at < reader'.next
               /\ ~shown'[k].late => shown'[k].at = k - 1
    <3>1. CASE k = Len(shown) + 1
      <4>1. k - 1 = Len(shown)
        BY <1>0, <3>1
      <4>2. ~taken.late => taken.at = Len(shown)
        BY QueueLeft DEF taken
      <4>3. taken.id = task.id /\ taken.at < reader.next
        BY <1>1 DEF taken
      <4> QED
        BY <1>2, <3>1, <4>1, <4>2, <4>3, TakenTask
    <3>2. CASE k \in 1 .. Len(shown)
      BY <1>2, <3>2, TakenTask DEF IInv, Inv, Chain
    <3> QED
      BY <1>3, <3>1, <3>2
  <2>2. ASSUME NEW k \in 1 .. Len(queue')
        PROVE  /\ queue'[k].id = task'.id /\ queue'[k].at < reader'.next
               /\ ~queue'[k].late => queue'[k].at = Len(shown') + Held' + k - 1
    <3>1. Len(shown') + Held' + k - 1 = Len(shown) + k
      BY <1>0, <1>2, <1>4
    <3> QED
      BY <3>1, QueueLeft, TakenTask
  <2> QED
    BY <2>1, <2>2 DEF Chain
<1>8. Order'
  <2>1. ASSUME NEW j \in 1 .. Len(shown'), NEW k \in 1 .. Len(shown'), j < k
        PROVE  Follows(shown'[j], shown'[k], k - j)
    <3>1. j \in 1 .. Len(shown)
      BY <1>0, <1>2, <2>1
    <3>2. CASE k = Len(shown) + 1
      <4>1. Follows(shown[j], taken, Len(shown) + 1 - j)
        BY <3>1, QueueLeft DEF taken
      <4> QED
        BY <1>2, <3>1, <3>2, <4>1
    <3>3. CASE k \in 1 .. Len(shown)
      BY <1>2, <2>1, <3>1, <3>3 DEF IInv, Inv, Order
    <3> QED
      BY <1>3, <3>2, <3>3
  <2>2. ASSUME NEW j \in 1 .. Len(shown'), NEW k \in 1 .. Len(queue')
        PROVE  Follows(shown'[j], queue'[k], Len(shown') + k - j)
    <3>1. CASE j = Len(shown) + 1
      <4>1. Len(shown') + k - j = k
        BY <1>0, <1>2, <3>1
      <4>2. Follows(taken, queue'[k], k)
        BY QueueLeft DEF taken
      <4> QED
        BY <1>2, <3>1, <4>1, <4>2
    <3>2. CASE j \in 1 .. Len(shown)
      BY <1>2, <3>2, QueueLeft
    <3> QED
      BY <1>3, <3>1, <3>2
  <2>3. Len(queue') <= QueueLimit
    <3>1. Len(queue) <= QueueLimit
      BY DEF IInv, Inv, Order
    <3> QED
      BY <1>0, <3>1, QueueLeft
  <2>4. \A j, k \in 1 .. Len(queue') : j < k => Follows(queue'[j], queue'[k], k - j)
    BY QueueLeft
  <2> QED
    BY <2>1, <2>2, <2>3, <2>4 DEF Order
<1>9. Counted' /\ Agreement'
  BY <1>5, TakenTask DEF IInv, Inv, Counted, Agreement
<1>10. LateOnes'
  <2>1. ASSUME NEW k \in 1 .. Len(shown') PROVE shown'[k].late => task'.canceled
    <3>1. CASE k = Len(shown) + 1
      BY <1>1, <1>2, <3>1, TakenTask DEF taken
    <3>2. CASE k \in 1 .. Len(shown)
      BY <1>2, <3>2, TakenTask DEF IInv, Inv, LateOnes
    <3> QED
      BY <1>3, <3>1, <3>2
  <2> QED
    BY <1>4, <2>1, QueueLeft, TakenTask DEF LateOnes
<1>11. Window'
  BY <1>1, TakenTask DEF Window, Stopping
<1>12. Quiet'
  BY <1>1, TakenTask DEF IInv, Inv, Quiet
<1> QED
  BY <1>6, <1>7, <1>8, <1>9, <1>10, <1>11, <1>12 DEF Inv

\* The metadata is held while the protocol of the package is loaded.
LEMMA TakenInv ==
    ASSUME IInv, MayTake, Taken, reader' = reader, shown' = shown,
           NextBatch.at = 0, NextBatch # NoBatch, app'.held = NextBatch,
           app'.importing = app.importing, app'.call = app.call, app'.load # 0
    PROVE  Inv'
<1>0. /\ task \in Tasks /\ queue \in Seq(BatchType) /\ app \in Apps /\ shown \in Seq(BatchType)
      /\ Len(queue) \in Nat /\ Len(shown) \in Nat /\ Held' = 1 /\ QueueLimit \in Nat
  BY LenProperties DEF IInv, TypeOK, Held
<1>1. /\ NextBatch \in BatchType /\ NextBatch.id = task.id /\ NextBatch.at < reader.next
      /\ NextBatch.late = task.canceled /\ ~Stopping /\ app.call = "none" /\ app.importing
      /\ app.load = 0
  BY TakenFacts
<1>2. shown = <<>> /\ Len(shown) = 0
  <2>1. ASSUME Len(shown) # 0 PROVE FALSE
    <3>1. 1 \in 1 .. Len(shown)
      BY <1>0, <2>1
    <3>2. Follows(shown[1], NextBatch, Len(shown) + 1 - 1)
      BY <3>1, QueueLeft
    <3>3. shown[1].at \in Nat
      BY <3>1, Placed DEF IInv
    <3> QED
      BY <3>2, <3>3 DEF Follows
  <2> QED
    BY <1>0, <2>1, EmptySeq
<1>3. Passed' = Passed
  BY <1>0, <1>2, QueueLeft DEF Passed
<1>4. Reading'
  BY TakenTask DEF IInv, Inv, Reading
<1>5. Chain'
  <2>1. ASSUME NEW k \in 1 .. Len(queue')
        PROVE  /\ queue'[k].id = task'.id /\ queue'[k].at < reader'.next
               /\ ~queue'[k].late => queue'[k].at = Len(shown') + Held' + k - 1
    <3>1. Len(shown') + Held' + k - 1 = Len(shown) + k
      BY <1>0
    <3> QED
      BY <3>1, QueueLeft, TakenTask
  <2>2. reader'.next > 0
    BY <1>1 DEF IInv, TypeOK, Readers
  <2> QED
    BY <1>1, <1>2, <2>1, <2>2, TakenTask DEF Chain
<1>6. Order'
  <2>1. Len(queue') <= QueueLimit
    <3>1. Len(queue) <= QueueLimit
      BY DEF IInv, Inv, Order
    <3> QED
      BY <1>0, <3>1, QueueLeft
  <2>2. \A j, k \in 1 .. Len(queue') : j < k => Follows(queue'[j], queue'[k], k - j)
    BY QueueLeft
  <2>3. \A k \in 1 .. Len(queue') : Follows(app'.held, queue'[k], k)
    BY QueueLeft
  <2> QED
    BY <1>2, <2>1, <2>2, <2>3 DEF Order
<1>7. Counted' /\ Agreement'
  BY <1>3, TakenTask DEF IInv, Inv, Counted, Agreement
<1>8. LateOnes'
  BY <1>1, QueueLeft, TakenTask DEF IInv, Inv, LateOnes
<1>9. Window'
  BY <1>1, TakenTask DEF Window, Stopping
<1>10. Quiet'
  BY <1>1, TakenTask DEF IInv, Inv, Quiet
<1> QED
  BY <1>4, <1>5, <1>6, <1>7, <1>8, <1>9, <1>10 DEF Inv

\* A round that gives everything up: nothing is held any more, and the task is cleared.
LEMMA AbandonInv ==
    ASSUME Whole, IInv, NEW w, Abandon(w), Pumps
    PROVE  Inv'
<1> DEFINE a == [app EXCEPT !.call = "fail"]
<1>1. a \in Apps /\ a.importing = app.importing /\ a.call = "fail"
  BY DEF IInv, TypeOK, Apps
<1>2. GiveUp(a, w)
  BY DEF Abandon
<1> HIDE DEF a
<1>3. app'.held = NoBatch /\ app'.load = 0 /\ app'.importing = app.importing /\ app'.call = "fail"
  BY <1>1, <1>2, GiveUpFacts
<1>4. task' = Canceled(task) /\ queue' = QueueCanceled /\ reader' = reader /\ shown' = shown
  BY DEF Abandon
<1>5. app.importing /\ app.call = "none"
  BY DEF Pumps
<1> QED
  BY <1>3, <1>4, <1>5, ClearedInv

\* Every step of a round keeps the invariant, one case for each action of Round.
LEMMA RoundInv == Whole /\ IInv /\ Round => Inv'
<1> SUFFICES ASSUME Whole, IInv, Round PROVE Inv'
  OBVIOUS
<1>0. /\ task \in Tasks /\ queue \in Seq(BatchType) /\ app \in Apps /\ shown \in Seq(BatchType)
      /\ reader \in Readers
  BY DEF IInv, TypeOK
<1>1. CASE Harvest
  <2>1. app.call = "none" /\ app.importing /\ app.load # 0
    BY <1>1 DEF Harvest, Pumps
  <2>2. CASE answers[app.load] = "ok"
    <3>1. /\ UNCHANGED <<task, queue, reader, shown>>
          /\ app'.held = app.held /\ app'.importing = app.importing
          /\ app'.call = app.call /\ app'.load = 0 /\ app'.prepared
      BY <1>0, <1>1, <2>2 DEF Harvest, Apps
    <3> QED
      BY <3>1, InvFrame DEF IInv
  <2>3. CASE answers[app.load] # "ok"
    <3>1. /\ task' = Canceled(task) /\ queue' = QueueCanceled /\ reader' = reader /\ shown' = shown
          /\ app'.held = NoBatch /\ app'.importing /\ app'.call = "fail" /\ app'.load = 0
      BY <1>0, <1>1, <2>1, <2>3 DEF Harvest, Apps
    <3> QED
      BY <2>1, <3>1, ClearedInv
  <2> QED
    BY <2>2, <2>3
<1>2. ASSUME NEW source \in {"package", "current"}, Prepare(source) PROVE Inv'
  <2>1. MayTake /\ Taken /\ NextBatch.at = 0 /\ reader' = reader /\ shown' = shown
    BY <1>2 DEF Prepare
  <2>2. NewTicket # 0
    BY TicketTyped DEF IInv, TypeOK
  <2>3. /\ app'.held = NextBatch /\ app'.importing = app.importing
        /\ app'.call = app.call /\ app'.load # 0
    BY <1>0, <1>2, <2>2 DEF Prepare, Apps
  <2>4. NextBatch # NoBatch
    BY <2>1, TakenFacts DEF NoBatch
  <2> QED
    BY <2>1, <2>3, <2>4, TakenInv
<1>3. CASE ApplyMetadata \/ \E records \in BOOLEAN : ApplyData(records)
  <2>1. MayTake /\ Taken /\ reader' = reader /\ shown' = Append(shown, NextBatch)
    BY <1>3 DEF ApplyMetadata, ApplyData
  <2>2. /\ app'.importing = app.importing /\ app'.call = app.call
        /\ app'.load = app.load
    BY <1>0, <1>3 DEF ApplyMetadata, ApplyData, Apps
  <2>3. app'.held = NoBatch
    <3>1. CASE ApplyMetadata
      BY <1>0, <3>1 DEF ApplyMetadata, Apps
    <3>2. CASE \E records \in BOOLEAN : ApplyData(records)
      <4>1. NextBatch.at > 0 /\ app'.held = app.held
        BY <1>0, <3>2 DEF ApplyData, Apps
      <4> QED
        BY <2>1, <4>1, TakenFacts
    <3> QED
      BY <1>3, <3>1, <3>2
  <2> QED
    BY <2>1, <2>2, <2>3, ShownInv
<1>4. CASE RefuseMetadata
  <2>1. (\E w : Abandon(w)) /\ Pumps
    BY <1>4 DEF RefuseMetadata, MayTake
  <2> QED
    BY <2>1, AbandonInv
<1>5. CASE HandOverFails
  <2>1. /\ queue' = queue /\ shown' = shown /\ app' = app /\ reader' = reader
        /\ task'.id = task.id /\ task'.active = task.active /\ task'.canceled = task.canceled
        /\ task'.complete = task.complete /\ task'.error
        /\ task'.confirmed = task.confirmed /\ task'.stop = task.stop
    BY <1>0, <1>5 DEF HandOverFails, Tasks
  <2>2. Passed' = Passed /\ Held' = Held
    BY <2>1 DEF Passed, Held
  <2>3. Reading' /\ Counted' /\ Agreement' /\ Quiet'
    BY <2>1, <2>2 DEF IInv, Inv, Reading, Counted, Agreement, Quiet
  <2>4. Chain' /\ Order'
    BY <2>1, <2>2 DEF IInv, Inv, Chain, Order
  <2>5. LateOnes' /\ Window'
    BY <2>1 DEF IInv, Inv, LateOnes, Window, Stopping
  <2> QED
    BY <2>3, <2>4, <2>5 DEF Inv
<1>6. CASE Complete
  <2>1. /\ app.call = "none" /\ app.importing /\ app.load = 0 /\ ~InRound /\ task.complete /\ ~task.active
        /\ UNCHANGED <<task, queue, reader, shown>>
    BY <1>6 DEF Complete, Ready, Pumps, Done
  <2>2. app.held = NoBatch
    BY <2>1 DEF IInv, Inv, Quiet, InRound, Whole
  <2>3. app'.held = NoBatch /\ app'.load = 0 /\ ~app'.importing /\ app'.call = "none"
    <3> DEFINE a == [app EXCEPT !.importing = FALSE]
    <3>1. a \in Apps /\ ~a.importing /\ a.call = app.call
      BY <1>0 DEF Apps
    <3>2. GiveUp(a, worker)
      BY <1>6 DEF Complete
    <3> HIDE DEF a
    <3> QED
      BY <2>1, <3>1, <3>2, GiveUpFacts
  <2>4. Passed' = Passed /\ Held' = Held
    BY <2>1, <2>2, <2>3 DEF Passed, Held
  <2>5. Reading'
    BY <2>1, <2>3 DEF IInv, Inv, Reading, Running
  <2>6. Chain' /\ Order'
    BY <2>1, <2>2, <2>3, <2>4 DEF IInv, Inv, Chain, Order
  <2>7. Counted' /\ Agreement'
    BY <2>1, <2>4 DEF IInv, Inv, Counted, Agreement
  <2>8. LateOnes' /\ Window'
    BY <2>1, <2>2, <2>3 DEF IInv, Inv, LateOnes, Window, Stopping
  <2>9. Quiet'
    BY <2>1, <2>3 DEF IInv, Inv, Quiet, Reading
  <2> QED
    BY <2>5, <2>6, <2>7, <2>8, <2>9 DEF Inv
<1>7. CASE Retire
  <2>1. /\ UNCHANGED <<task, queue, reader, shown>>
        /\ app'.held = app.held /\ app'.importing = app.importing
        /\ app'.call = app.call /\ app'.load = app.load
        /\ app'.prepared = app.prepared
    BY <1>0, <1>7 DEF Retire, Apps
  <2> QED
    BY <2>1, InvFrame DEF IInv
<1> QED
  BY <1>1, <1>2, <1>3, <1>4, <1>5, <1>6, <1>7 DEF Round

\* The invariant is inductive.
LEMMA NextInv == Whole /\ IInv /\ [Next]_vars => IInv'
<1> SUFFICES ASSUME Whole, IInv, [Next]_vars PROVE Inv'
  BY NextTyped DEF IInv
<1>1. CASE UNCHANGED vars
  BY <1>1, InvFrame DEF vars, IInv
<1>2. CASE Work
  BY <1>2, InvFrame DEF Work, IInv
<1>3. CASE Next /\ ~Work
  BY <1>3, ReaderInv, UserInv, RoundInv DEF Next
<1> QED
  BY <1>1, <1>2, <1>3

\* It holds in every behaviour.
LEMMA ImportInv == ASSUME Whole PROVE Spec => []IInv
<1>1. Init => IInv
  BY InitTyped, InitInv DEF IInv
<1>2. IInv /\ [Next]_vars => IInv'
  BY NextInv
<1> QED
  BY <1>1, <1>2, PTL DEF Spec

\* What is shown, held and queued, counted together, gives the order and the completeness.
LEMMA InvApplied == IInv => AppliedInOrder
<1> SUFFICES ASSUME IInv PROVE AppliedInOrder
  OBVIOUS
<1>0. shown \in Seq(BatchType) /\ queue \in Seq(BatchType) /\ Len(shown) \in Nat /\ Len(queue) \in Nat
      /\ Held \in {0, 1}
  BY LenProperties DEF IInv, TypeOK, Held
<1>1. \A k \in 1 .. Len(shown) : shown[k].id = task.id /\ (~shown[k].late => shown[k].at = k - 1)
  BY DEF IInv, Inv, Chain
<1>2. shown # <<>> => task.confirmed
  <2>1. shown # <<>> => Passed # 0
    BY <1>0 DEF Passed
  <2> QED
    BY <2>1 DEF IInv, Inv, Agreement
<1>3. ASSUME task.complete, ~app.importing, ~task.error, ~task.canceled
      PROVE  Len(shown) = Size + 1
  BY <1>0, <1>3 DEF IInv, Inv, Counted, Passed, Held, Quiet
<1>4. \A j, k \in 1 .. Len(shown) : j < k => Follows(shown[j], shown[k], k - j)
  BY DEF IInv, Inv, Order
<1> QED
  BY <1>1, <1>2, <1>3, <1>4 DEF AppliedInOrder

\* For every size of a file but zero and every limit of the queue: what is applied is the file,
\* in order and agreed to; what the thread still pushes while it is being cancelled or while the
\* task fails is a piece of the file that the queue holds; and an import that reports success has
\* applied all of it (Application::pumpDataImport, DataTransferTask).
THEOREM AppliesInOrder == ASSUME Whole PROVE Spec => []AppliedInOrder
  BY ImportInv, InvApplied, PTL

\* After a cancel or a failure no step of the application applies anything that was read before
\* it, neither data nor configuration nor protocol; only a batch that the thread pushed between
\* the two halves of the cancel gets through (Application::cancelDataTransfer,
\* DataTransferTask::cancel).
THEOREM CancelsQuietly == ASSUME Whole PROVE Spec => CanceledIsQuiet
<1> DEFINE Calm ==
        task.canceled => /\ panel' # panel => NextBatch.late
                         /\ shown' \notin {shown, <<>>} => shown'[Len(shown')].late
<1>1. IInv /\ [Next]_vars => [Calm]_vars
  <2> SUFFICES ASSUME IInv, Next, task.canceled
               PROVE  /\ panel' # panel => NextBatch.late
                      /\ shown' \notin {shown, <<>>} => shown'[Len(shown')].late
    OBVIOUS
  <2>1. ASSUME MayTake, Taken, shown' = Append(shown, NextBatch)
        PROVE  NextBatch.late /\ shown'[Len(shown')].late
    <3>1. NextBatch.late /\ NextBatch \in BatchType
      BY <2>1, TakenFacts
    <3>2. shown \in Seq(BatchType) /\ Len(shown) \in Nat
      BY LenProperties DEF IInv, TypeOK
    <3>3. Len(shown') = Len(shown) + 1 /\ shown'[Len(shown) + 1] = NextBatch
      BY <2>1, <3>1, <3>2, AppendProperties
    <3> QED
      BY <3>1, <3>3
  <2>2. CASE Reader \/ Work \/ Confirm \/ Cancel \/ EndCall
    BY <2>2 DEF Reader, Ask, Agreed, Push, EndReading, Work, Confirm, Cancel, EndCall, RequestStop,
                EndCancel, EndFail
  <2>3. ASSUME NEW session \in BOOLEAN, Start(session) PROVE UNCHANGED panel /\ shown' = <<>>
    BY <2>3 DEF Start
  <2>4. CASE Harvest
    <3>1. NextBatch.late
      <4>1. app.held # NoBatch /\ app.call = "none"
        BY <2>4 DEF Harvest, Pumps, IInv, Inv, Quiet
      <4> QED
        BY <4>1 DEF NextBatch, IInv, Inv, LateOnes
    <3> QED
      BY <2>4, <3>1 DEF Harvest
  <2>5. CASE ApplyMetadata \/ \E records \in BOOLEAN : ApplyData(records)
    BY <2>1, <2>5 DEF ApplyMetadata, ApplyData
  <2>6. CASE RefuseMetadata
    <3>1. shown' = shown
      BY <2>6 DEF RefuseMetadata, Abandon
    <3>2. app.prepared => NextBatch.late
      <4>1. ASSUME app.held # NoBatch PROVE app.held.late
        BY <2>6, <4>1 DEF RefuseMetadata, MayTake, Pumps, IInv, Inv, LateOnes
      <4>2. ASSUME app.held = NoBatch PROVE queue[1].late /\ NextBatch = queue[1]
        <5>1. queue \in Seq(BatchType) /\ queue # <<>>
          BY <2>6, <4>2 DEF RefuseMetadata, MayTake, IInv, TypeOK
        <5>2. 1 \in 1 .. Len(queue) /\ Head(queue) = queue[1]
          BY <5>1
        <5>3. queue[1].late
          BY <5>2 DEF IInv, Inv, LateOnes
        <5> QED
          BY <4>2, <5>2, <5>3 DEF NextBatch
      <4> QED
        BY <4>1, <4>2 DEF NextBatch
    <3> QED
      BY <2>6, <3>1, <3>2 DEF RefuseMetadata
  <2>7. CASE \/ \E source \in {"package", "current"} : Prepare(source)
             \/ HandOverFails \/ Complete \/ Retire
    BY <2>7 DEF Prepare, HandOverFails, Complete, Retire
  <2> QED
    BY <2>2, <2>3, <2>4, <2>5, <2>6, <2>7 DEF Next, Round
<1> QED
  BY <1>1, ImportInv, PTL DEF Spec, CanceledIsQuiet

-----------------------------------------------------------------------------
(* The script worker agrees with the application after every import: what  *)
(* the commands in its queue will make of it is what the application shows. *)

-----------------------------------------------------------------------------
(* The inductive invariant                                                  *)

\* The positions of the loads in a queue of commands.
Loads(c) == {k \in 1 .. Len(c) : c[k].op = "load"}

\* When its commands are done, the worker w has this configuration.
Ends(w, dir) ==
    \/ /\ w.config = dir
       /\ \A k \in 1 .. Len(w.commands) : w.commands[k].op # "configure"
    \/ \E k \in 1 .. Len(w.commands) :
          /\ w.commands[k].op = "configure" /\ w.commands[k].dir = dir
          /\ \A j \in k + 1 .. Len(w.commands) : w.commands[j].op # "configure"

Agrees == app.reported \/ panel.protocol = "none" \/ worker.protocol = panel.protocol

\* The loads in the queue are those that are not answered, each once.
Ticketed ==
    \A k \in Loads(worker.commands) :
        /\ worker.commands[k].ticket \in 1 .. Len(answers)
        /\ answers[worker.commands[k].ticket] = "waiting"
        /\ \A j \in Loads(worker.commands) :
              worker.commands[j].ticket = worker.commands[k].ticket => j = k

Idling == app.load = 0 /\ app.retiring = 0 => Loads(worker.commands) = {} /\ Agrees

\* While the protocol of a package is loaded, nothing else is.
Loading ==
    app.load # 0 =>
        /\ app.load \in 1 .. Len(answers) /\ app.retiring = 0
        /\ app.held # NoBatch /\ reader.session /\ app.config = panel.config
        /\ \A k \in Loads(worker.commands) : /\ worker.commands[k].ticket = app.load
                                             /\ worker.commands[k].dir = app.chosen
        /\ answers[app.load] = "ok" => worker.protocol = app.chosen
        /\ answers[app.load] # "ok" => Agrees

\* The metadata of the file is not in the queue any more.
Past == reader.next # 0 /\ \A k \in 1 .. Len(queue) : queue[k].at # 0

\* After an import was given up, the old protocol is the last that is loaded.
Retiring ==
    app.retiring # 0 =>
        /\ app.retiring \in 1 .. Len(answers) /\ app.held = NoBatch
        /\ app.importing => Past
        /\ panel.protocol # "none" =>
              /\ answers[app.retiring] = "ok" => worker.protocol = panel.protocol
              /\ \A k \in Loads(worker.commands) :
                    /\ answers[app.retiring] = "waiting"
                    /\ worker.commands[k].ticket = app.retiring =>
                          /\ worker.commands[k].dir = panel.protocol
                          /\ \A j \in Loads(worker.commands) : j <= k

Preparing == app.prepared /\ app.held # NoBatch

Configured ==
    /\ panel.config # "none"
    /\ app.load # 0 \/ Preparing \/ Ends(worker, panel.config)

\* Where a round of the application or a cancel may stand.
Turns ==
    /\ app.prepared => reader.session
    /\ app.call # "none" => ~Preparing
    /\ ~app.importing => app.load = 0

WorkerInv == Ticketed /\ Idling /\ Loading /\ Retiring /\ Configured /\ Turns
JInv == IInv /\ WorkerInv

-----------------------------------------------------------------------------
(* Queues of commands                                                       *)

\* An empty queue has no load.
LEMMA LoadsOfNone == Loads(<<>>) = {}
BY DEF Loads

\* A configuration that is posted leaves the loads where they are.
LEMMA LoadsAfterConfigure ==
    ASSUME NEW c \in Seq(Commands), NEW dir \in Protocols
    PROVE  /\ Loads(Append(c, Configure(dir))) = Loads(c)
           /\ \A k \in Loads(c) : Append(c, Configure(dir))[k] = c[k]
<1> DEFINE d == Append(c, Configure(dir))
<1>1. /\ Len(c) \in Nat /\ Len(d) = Len(c) + 1
      /\ \A k \in 1 .. Len(c) : d[k] = c[k]
      /\ d[Len(c) + 1] = Configure(dir)
  BY AppendProperties, CommandTyped
<1>2. d[Len(c) + 1].op # "load"
  BY <1>1 DEF Configure
<1> HIDE DEF d
<1>3. Loads(d) = Loads(c)
  BY <1>1, <1>2 DEF Loads
<1>4. \A k \in Loads(c) : d[k] = c[k]
  BY <1>1 DEF Loads
<1> QED
  BY <1>3, <1>4 DEF d

\* A load that is posted is the last one.
LEMMA LoadsAfterLoad ==
    ASSUME NEW c \in Seq(Commands), NEW dir \in Protocols, NEW ticket \in Nat
    PROVE  /\ Loads(Append(c, Load(dir, ticket))) = Loads(c) \cup {Len(c) + 1}
           /\ Append(c, Load(dir, ticket))[Len(c) + 1] = Load(dir, ticket)
           /\ \A k \in Loads(c) : Append(c, Load(dir, ticket))[k] = c[k] /\ k \in 1 .. Len(c)
<1> DEFINE d == Append(c, Load(dir, ticket))
<1>1. /\ Len(c) \in Nat /\ Len(d) = Len(c) + 1
      /\ \A k \in 1 .. Len(c) : d[k] = c[k]
      /\ d[Len(c) + 1] = Load(dir, ticket)
  BY AppendProperties, CommandTyped
<1>2. d[Len(c) + 1].op = "load"
  BY <1>1 DEF Load
<1> HIDE DEF d
<1>3. Loads(d) = Loads(c) \cup {Len(c) + 1}
  BY <1>1, <1>2 DEF Loads
<1>4. \A k \in Loads(c) : d[k] = c[k] /\ k \in 1 .. Len(c)
  BY <1>1 DEF Loads
<1> QED
  BY <1>1, <1>3, <1>4 DEF d

\* When the head is taken, the other loads move up by one.
LEMMA LoadsAfterHead ==
    ASSUME NEW c \in Seq(Commands), c # <<>>
    PROVE  \A k \in Loads(Tail(c)) : k + 1 \in Loads(c) /\ Tail(c)[k] = c[k + 1] /\ k \in Nat \ {0}
<1>1. Len(c) \in Nat /\ Len(Tail(c)) = Len(c) - 1 /\ \A k \in 1 .. Len(Tail(c)) : Tail(c)[k] = c[k + 1]
  OBVIOUS
<1> QED
  BY <1>1 DEF Loads

\* The configuration that was posted last is the one that remains.
LEMMA EndsConfigured ==
    ASSUME NEW w, NEW c \in Seq(Commands), NEW dir \in Protocols,
           w.commands = Append(c, Configure(dir))
    PROVE  Ends(w, dir)
<1>1. /\ Len(c) \in Nat /\ Len(w.commands) = Len(c) + 1
      /\ w.commands[Len(c) + 1] = Configure(dir)
  BY AppendProperties, CommandTyped
<1>2. Configure(dir).op = "configure" /\ Configure(dir).dir = dir
  BY DEF Configure
<1> QED
  BY <1>1, <1>2 DEF Ends

\* A command that is done does not change what the queue will lead to.
LEMMA EndsAfterHead ==
    ASSUME worker \in Workers, worker' \in Workers, worker.commands # <<>>, NEW dir, Ends(worker, dir),
           worker'.commands = Tail(worker.commands),
           worker'.config = IF Head(worker.commands).op = "configure"
                            THEN Head(worker.commands).dir ELSE worker.config
    PROVE  Ends(worker', dir)
<1> DEFINE c == worker.commands
           d == worker'.commands
<1>1. /\ c \in Seq(Commands) /\ c # <<>> /\ d = Tail(c) /\ Len(c) \in Nat \ {0}
      /\ Len(d) = Len(c) - 1 /\ Head(c) = c[1]
      /\ \A k \in 1 .. Len(d) : d[k] = c[k + 1]
  BY DEF Workers
<1>2. CASE \A k \in 1 .. Len(c) : c[k].op # "configure"
  <2>1. worker.config = dir
    BY <1>2 DEF Ends
  <2>2. worker'.config = dir /\ \A k \in 1 .. Len(d) : d[k].op # "configure"
    BY <1>1, <1>2, <2>1
  <2> QED
    BY <2>2 DEF Ends
<1>3. CASE ~ \A k \in 1 .. Len(c) : c[k].op # "configure"
  <2>1. PICK k \in 1 .. Len(c) :
          /\ c[k].op = "configure" /\ c[k].dir = dir
          /\ \A j \in k + 1 .. Len(c) : c[j].op # "configure"
    BY <1>3 DEF Ends
  <2>2. CASE k = 1
    <3>1. worker'.config = dir /\ \A j \in 1 .. Len(d) : d[j].op # "configure"
      BY <1>1, <2>1, <2>2
    <3> QED
      BY <3>1 DEF Ends
  <2>3. CASE k # 1
    <3>1. k - 1 \in 1 .. Len(d) /\ d[k - 1] = c[k]
      BY <1>1, <2>3
    <3>2. \A j \in (k - 1) + 1 .. Len(d) : d[j].op # "configure"
      BY <1>1, <2>1
    <3> QED
      BY <2>1, <3>1, <3>2 DEF Ends
  <2> QED
    BY <2>2, <2>3
<1> QED
  BY <1>2, <1>3

-----------------------------------------------------------------------------
(* The invariant is inductive                                               *)

\* The invariant holds at first.
LEMMA InitWorkerInv == Init => WorkerInv
<1> SUFFICES ASSUME Init PROVE WorkerInv
  OBVIOUS
<1>1. /\ worker.commands = <<>> /\ worker.protocol = panel.protocol
      /\ worker.config = "old" /\ panel.config = "old"
      /\ app.load = 0 /\ app.retiring = 0 /\ app.held = NoBatch /\ ~app.prepared /\ app.call = "none"
  BY DEF Init, NoImport
<1>2. Loads(worker.commands) = {}
  BY <1>1, LoadsOfNone
<1>3. Ends(worker, panel.config)
  BY <1>1 DEF Ends
<1> QED
  BY <1>1, <1>2, <1>3 DEF WorkerInv, Ticketed, Idling, Agrees, Loading, Retiring, Configured, Turns

\* What the steps that leave the worker alone must keep.
LEMMA WorkerFrame ==
    ASSUME WorkerInv, UNCHANGED <<worker, answers, panel>>,
           app'.load = app.load, app'.retiring = app.retiring, app'.held = app.held,
           app'.config = app.config, app'.chosen = app.chosen, app'.prepared = app.prepared,
           app'.reported = app.reported, reader'.session = reader.session,
           app'.importing = app.importing,
           app.importing /\ Past => Past', app'.call # "none" => ~Preparing
    PROVE  WorkerInv'
<1>1. Ticketed' /\ Idling' /\ Loading'
  BY DEF WorkerInv, Ticketed, Idling, Loading, Agrees
<1>2. Retiring'
  BY DEF WorkerInv, Retiring
<1>3. Configured' /\ Turns'
  BY DEF WorkerInv, Configured, Ends, Turns, Preparing
<1> QED
  BY <1>1, <1>2, <1>3 DEF WorkerInv

\* The thread that reads the file leaves the worker and what it is to do alone.
LEMMA ReaderWorker == JInv /\ Reader => WorkerInv'
<1> SUFFICES ASSUME JInv, Reader PROVE WorkerInv'
  OBVIOUS
<1>0. task \in Tasks /\ reader \in Readers /\ queue \in Seq(BatchType)
  BY DEF JInv, IInv, TypeOK
<1>1. UNCHANGED <<worker, answers, panel, app>>
  BY DEF Reader, Ask, Agreed, Push, EndReading
<1>2. reader'.session = reader.session
  BY <1>0 DEF Reader, Ask, Agreed, Push, EndReading, Finish, Readers
<1>3. CASE Push
  <2> DEFINE item == Batch(reader.next)
  <2>1. item \in BatchType /\ item.at = reader.next
    BY <1>0, BatchTyped DEF Batch, Readers
  <2>2. reader.next \in Nat /\ reader'.next = reader.next + 1 /\ queue' = Append(queue, item)
    BY <1>0, <1>3 DEF Push, Readers
  <2> HIDE DEF item
  <2>3. /\ Len(queue) \in Nat /\ Len(queue') = Len(queue) + 1 /\ queue'[Len(queue) + 1] = item
        /\ \A k \in 1 .. Len(queue) : queue'[k] = queue[k]
    BY <1>0, <2>1, <2>2, AppendProperties, LenProperties
  <2>4. Past => Past'
    BY <2>1, <2>2, <2>3 DEF Past
  <2> QED
    BY <1>1, <1>2, <2>4, WorkerFrame DEF JInv, WorkerInv, Turns
<1>4. CASE ~Push
  <2>1. reader'.next = reader.next /\ queue' \in {queue, <<>>}
    BY <1>0, <1>4 DEF Reader, Ask, Agreed, EndReading, Finish, Readers
  <2>2. Past => Past'
    BY <2>1 DEF Past
  <2> QED
    BY <1>1, <1>2, <2>2, WorkerFrame DEF JInv, WorkerInv, Turns
<1> QED
  BY <1>3, <1>4

\* A command of the worker keeps the invariant, whether the load succeeds or not.
LEMMA WorkWorker == JInv /\ Work => WorkerInv'
<1> SUFFICES ASSUME JInv, Work PROVE WorkerInv'
  OBVIOUS
<1> DEFINE c == worker.commands
           d == worker'.commands
           command == Head(c)
<1>0. /\ worker \in Workers /\ answers \in Seq(Replies) /\ worker' \in Workers
      /\ c \in Seq(Commands) /\ c # <<>> /\ command = c[1] /\ command \in Commands
      /\ Len(c) \in Nat \ {0}
  <2>1. /\ worker \in Workers /\ answers \in Seq(Replies) /\ worker' \in Workers
        /\ c \in Seq(Commands) /\ c # <<>>
    BY WorkTyped DEF JInv, IInv, TypeOK, Workers, Work
  <2> QED
    BY <2>1
<1>1. UNCHANGED <<task, queue, reader, app, panel, shown>>
  BY DEF Work
<1>2. /\ d = Tail(c)
      /\ worker'.config = IF command.op = "configure" THEN command.dir ELSE worker.config
  BY <1>0 DEF Work, Workers
<1>3. \A k \in Loads(d) : k + 1 \in Loads(c) /\ d[k] = c[k + 1] /\ k \in Nat \ {0}
  BY <1>0, <1>2, LoadsAfterHead
<1>4. Configured' /\ Turns'
  <2>1. Turns'
    BY <1>1 DEF JInv, WorkerInv, Turns, Preparing
  <2>2. Ends(worker, panel.config) => Ends(worker', panel.config)
    BY <1>0, <1>2, EndsAfterHead
  <2> QED
    BY <1>1, <2>1, <2>2 DEF JInv, WorkerInv, Configured, Preparing
<1>5. CASE command.op = "configure"
  <2>1. worker'.protocol = worker.protocol /\ answers' = answers
    BY <1>0, <1>5 DEF Work, Workers
  <2>2. Ticketed'
    BY <1>3, <2>1 DEF JInv, WorkerInv, Ticketed
  <2>3. Idling'
    BY <1>1, <1>3, <2>1 DEF JInv, WorkerInv, Idling, Agrees
  <2>4. Loading'
    BY <1>1, <1>3, <2>1 DEF JInv, WorkerInv, Loading, Agrees
  <2>5. Retiring'
    <3>1. Past' <=> Past
      BY <1>1 DEF Past
    <3> QED
      BY <1>1, <1>3, <2>1, <3>1 DEF JInv, WorkerInv, Retiring
  <2> QED
    BY <1>4, <2>2, <2>3, <2>4, <2>5 DEF WorkerInv
<1>6. CASE command.op # "configure"
  <2> DEFINE t == command.ticket
  <2>1. PICK reply \in {"ok", "bad"} :
          /\ answers' = [answers EXCEPT ![t] = reply]
          /\ worker'.protocol = IF reply = "ok" THEN command.dir ELSE worker.protocol
    BY <1>0, <1>6 DEF Work, Workers
  <2>2. 1 \in Loads(c)
    BY <1>0, <1>6 DEF Loads, Commands
  <2>3. t \in 1 .. Len(answers) /\ answers[t] = "waiting"
    BY <1>0, <2>2 DEF JInv, WorkerInv, Ticketed
  <2>4. /\ Len(answers') = Len(answers) /\ answers'[t] = reply
        /\ \A u : u # t => answers'[u] = answers[u]
    BY <1>0, <2>1, <2>3
  <2>5. \A k \in Loads(d) : d[k].ticket # t
    <3>1. \A j \in Loads(c) : c[j].ticket = t => j = 1
      BY <1>0, <2>2 DEF JInv, WorkerInv, Ticketed
    <3> QED
      BY <1>3, <3>1
  <2>6. Ticketed'
    <3>1. ASSUME NEW k \in Loads(d), NEW j \in Loads(d), d[j].ticket = d[k].ticket PROVE j = k
      <4>1. j + 1 = k + 1
        BY <1>3, <3>1 DEF JInv, WorkerInv, Ticketed
      <4> QED
        BY <1>3, <4>1
    <3> QED
      BY <1>3, <2>4, <2>5, <3>1 DEF JInv, WorkerInv, Ticketed
  <2>7. Idling'
    BY <1>1, <2>2 DEF JInv, WorkerInv, Idling
  <2>8. Loading'
    <3>1. ASSUME app.load # 0 PROVE t = app.load /\ command.dir = app.chosen /\ Agrees
      BY <1>0, <2>2, <2>3, <3>1 DEF JInv, WorkerInv, Loading
    <3>2. ASSUME app.load # 0, reply = "bad" PROVE Agrees'
      BY <1>1, <2>1, <3>1, <3>2 DEF Agrees
    <3> QED
      BY <1>1, <1>3, <2>1, <2>4, <3>1, <3>2 DEF JInv, WorkerInv, Loading
  <2>9. Retiring'
    <3>1. ASSUME app.retiring # 0, panel.protocol # "none", t = app.retiring
          PROVE  /\ command.dir = panel.protocol /\ Loads(d) = {}
      <4>1. command.dir = panel.protocol /\ \A j \in Loads(c) : j <= 1
        BY <1>0, <2>2, <3>1 DEF JInv, WorkerInv, Retiring
      <4> QED
        BY <1>3, <4>1
    <3>2. ASSUME app.retiring # 0, panel.protocol # "none", t # app.retiring
          PROVE  answers[app.retiring] = "waiting" /\ answers'[app.retiring] = "waiting"
      BY <2>2, <2>4, <3>2 DEF JInv, WorkerInv, Retiring
    <3>3. ASSUME app.retiring # 0, panel.protocol # "none", NEW k \in Loads(d), d[k].ticket = app.retiring
          PROVE  d[k].dir = panel.protocol /\ \A j \in Loads(d) : j <= k
      <4>1. c[k + 1].dir = panel.protocol /\ \A j \in Loads(c) : j <= k + 1
        BY <1>3, <3>3 DEF JInv, WorkerInv, Retiring
      <4> QED
        BY <1>3, <4>1
    <3>4. app.retiring # 0 =>
            /\ app.retiring \in 1 .. Len(answers) /\ app.held = NoBatch
            /\ app.importing => Past
      BY DEF JInv, WorkerInv, Retiring
    <3>5. Past' <=> Past
      BY <1>1 DEF Past
    <3> QED
      BY <1>1, <3>5, <2>1, <2>4, <3>1, <3>2, <3>3, <3>4 DEF Retiring
  <2> QED
    BY <1>4, <2>6, <2>7, <2>8, <2>9 DEF WorkerInv
<1> QED
  BY <1>5, <1>6

\* What an answered load leaves, once the queue is empty.
LEMMA RetiredAgrees ==
    ASSUME JInv, app.retiring # 0, Answered(app.retiring)
    PROVE  /\ worker.commands = <<>> /\ app.load = 0
           /\ answers[app.retiring] = "bad" \/ panel.protocol = "none" \/ worker.protocol = panel.protocol
<1>1. app.retiring \in 1 .. Len(answers) /\ app.load = 0
  BY DEF JInv, WorkerInv, Retiring, Loading
<1>2. answers[app.retiring] \in {"ok", "bad"}
  BY <1>1, ElementOfSeq DEF JInv, IInv, TypeOK, Replies, Answered
<1> QED
  BY <1>1, <1>2 DEF Answered, InputIdle, JInv, WorkerInv, Retiring

\* A step after which no protocol of a package is being loaded.
LEMMA SettledWorker ==
    ASSUME JInv, answers' = answers, app'.load = 0, app'.call # "none" => ~Preparing',
           Loads(worker'.commands) = Loads(worker.commands),
           \A k \in Loads(worker.commands) : worker'.commands[k] = worker.commands[k],
           app'.retiring = 0 => Loads(worker.commands) = {} /\ Agrees',
           app'.retiring # 0 =>
               /\ app'.retiring = app.retiring /\ app'.held = NoBatch
               /\ panel'.protocol = panel.protocol /\ worker'.protocol = worker.protocol
               /\ app'.importing => Past',
           app'.prepared => reader'.session,
           panel'.config # "none", Preparing' \/ Ends(worker', panel'.config)
    PROVE  WorkerInv'
<1>1. Ticketed'
  BY DEF JInv, WorkerInv, Ticketed
<1>2. Idling' /\ Loading'
  BY DEF Idling, Loading
<1>3. Retiring'
  BY DEF JInv, WorkerInv, Retiring
<1>4. Configured' /\ Turns'
  BY DEF Configured, Turns
<1> QED
  BY <1>1, <1>2, <1>3, <1>4 DEF WorkerInv

\* Giving up an import that loads nothing leaves the worker alone.
LEMMA NothingToRetire ==
    ASSUME NEW a \in Apps, NEW w, a.load = 0, GiveUp(a, w)
    PROVE  /\ worker' = w /\ answers' = answers
           /\ app'.held = NoBatch /\ app'.load = 0 /\ ~app'.prepared
           /\ app'.retiring = a.retiring /\ app'.reported = a.reported
           /\ app'.importing = a.importing /\ app'.call = a.call
BY DEF GiveUp, Apps

\* Giving up an import during its load posts the old protocol and its configuration.
LEMMA RetireFacts ==
    ASSUME NEW a \in Apps, a.load # 0, GiveUp(a, worker)
    PROVE  /\ worker' = Restored(worker)
           /\ app'.held = NoBatch /\ app'.load = 0 /\ ~app'.prepared
           /\ app'.call = a.call
           /\ panel.protocol = "none" => answers' = answers /\ app'.retiring = a.load
           /\ panel.protocol # "none" =>
                 answers' = Append(answers, "waiting") /\ app'.retiring = NewTicket
BY DEF GiveUp, Apps

\* The calls of the user keep the invariant; a cancel during a load is the case that matters.
LEMMA UserWorker ==
    Whole /\ JInv /\ ((\E session \in BOOLEAN : Start(session)) \/ Confirm \/ Cancel \/ EndCall)
        => WorkerInv'
<1> SUFFICES ASSUME Whole, JInv,
                    (\E session \in BOOLEAN : Start(session)) \/ Confirm \/ Cancel \/ EndCall
             PROVE  WorkerInv'
  OBVIOUS
<1>0. /\ task \in Tasks /\ app \in Apps /\ worker \in Workers /\ panel \in Panels
      /\ answers \in Seq(Replies) /\ worker.commands \in Seq(Commands)
  BY DEF JInv, IInv, TypeOK, Workers
<1>1. ASSUME NEW session \in BOOLEAN, Start(session) PROVE WorkerInv'
  <2>1. /\ UNCHANGED <<panel, worker, answers>>
        /\ app'.load = 0 /\ app'.retiring = 0 /\ app'.held = NoBatch /\ ~app'.prepared
        /\ app'.call = "none"
        /\ app'.reported = (app.reported \/ (app.retiring # 0 /\ answers[app.retiring] = "bad"))
    BY <1>1 DEF Start, NoImport
  <2>2. app.load = 0 /\ app.held = NoBatch
    BY <1>1 DEF Start, JInv, IInv, Inv, Quiet, WorkerInv, Turns
  <2>3. Loads(worker.commands) = {} /\ Agrees'
    <3>1. CASE app.retiring = 0
      BY <2>1, <2>2, <3>1 DEF JInv, WorkerInv, Idling, Agrees
    <3>2. CASE app.retiring # 0
      BY <1>1, <2>1, <3>2, RetiredAgrees, LoadsOfNone DEF Start, Agrees
    <3> QED
      BY <3>1, <3>2
  <2>4. Ends(worker, panel.config) /\ panel.config # "none"
    BY <2>2 DEF JInv, WorkerInv, Configured, Preparing
  <2>5. Ends(worker, panel.config)'
    BY <2>1, <2>4 DEF Ends
  <2>6. Ticketed' /\ Idling' /\ Loading' /\ Retiring'
    BY <2>1, <2>3 DEF Ticketed, Idling, Loading, Retiring
  <2>7. Configured' /\ Turns'
    BY <2>1, <2>4, <2>5 DEF Configured, Turns, Preparing
  <2> QED
    BY <2>6, <2>7 DEF WorkerInv
<1>2. CASE Confirm
  <2>1. UNCHANGED <<worker, answers, panel, app, reader, queue>>
    BY <1>2 DEF Confirm
  <2> QED
    BY <2>1, WorkerFrame DEF JInv, WorkerInv, Turns, Past
<1>3. CASE Cancel
  <2>1. UNCHANGED <<worker, answers, panel, reader>> /\ ~InRound /\ app.importing
    BY <1>3 DEF Cancel
  <2>2. app' = [app EXCEPT !.call = "cancel"]
    BY <1>3 DEF Cancel
  <2>3. /\ app'.load = app.load /\ app'.retiring = app.retiring /\ app'.held = app.held
        /\ app'.config = app.config /\ app'.chosen = app.chosen /\ app'.prepared = app.prepared
        /\ app'.reported = app.reported /\ app'.importing = app.importing
    BY <1>0, <2>2 DEF Apps
  <2>4. Past => Past'
    BY <1>3 DEF Cancel, QueueCanceled, Past
  <2>5. ~Preparing
    BY <2>1 DEF InRound, Preparing, Whole
  <2> QED
    BY <2>1, <2>3, <2>4, <2>5, WorkerFrame DEF JInv
<1>4. CASE EndCancel
  <2> DEFINE a == [app EXCEPT !.call = "none"]
  <2>1. /\ a \in Apps /\ a.load = app.load /\ a.retiring = app.retiring /\ a.call = "none"
        /\ a.reported = app.reported /\ a.importing = app.importing
    BY <1>0 DEF Apps
  <2>2. GiveUp(a, worker) /\ app.call = "cancel" /\ panel' = panel /\ reader' = reader
        /\ queue' = queue
    BY <1>4 DEF EndCancel
  <2>3. Past' <=> Past
    BY <2>2 DEF Past
  <2>4. ~Preparing /\ panel.config # "none"
    BY <2>2 DEF JInv, WorkerInv, Turns, Configured
  <2> HIDE DEF a
  <2>5. CASE app.load = 0
    <3>1. /\ worker' = worker /\ answers' = answers
          /\ app'.held = NoBatch /\ app'.load = 0 /\ ~app'.prepared
          /\ app'.retiring = app.retiring /\ app'.reported = app.reported
          /\ app'.importing = app.importing /\ app'.call = "none"
      BY <2>1, <2>2, <2>5, NothingToRetire
    <3>2. Ends(worker', panel'.config)
      BY <2>2, <2>4, <2>5, <3>1 DEF JInv, WorkerInv, Configured
    <3>3. app'.retiring = 0 => Loads(worker.commands) = {} /\ Agrees'
      BY <2>2, <2>5, <3>1 DEF JInv, WorkerInv, Idling, Agrees
    <3>4. app'.retiring # 0 /\ app'.importing => Past'
      BY <2>3, <3>1 DEF JInv, WorkerInv, Retiring
    <3> QED
      BY <2>2, <2>4, <3>1, <3>2, <3>3, <3>4, SettledWorker
  <2>6. CASE app.load # 0
    <3> DEFINE c == worker.commands
               d == worker'.commands
               t == NewTicket
    <3>1. /\ worker' = Restored(worker) /\ app'.held = NoBatch /\ app'.load = 0 /\ ~app'.prepared
          /\ app'.call = "none"
          /\ panel.protocol = "none" => answers' = answers /\ app'.retiring = app.load
          /\ panel.protocol # "none" => answers' = Append(answers, "waiting") /\ app'.retiring = t
      BY <2>1, <2>2, <2>6, RetireFacts
    <3>2. /\ app.load \in 1 .. Len(answers) /\ app.config = panel.config
          /\ app.config \in Protocols /\ panel.protocol \in Protocols
      BY <1>0, <2>6 DEF JInv, WorkerInv, Loading, Apps, Panels
    <3>3. /\ t = Len(answers) + 1 /\ t \in Nat /\ Len(answers) \in Nat /\ t # 0
          /\ Append(answers, "waiting") \in Seq(Replies)
          /\ Len(Append(answers, "waiting")) = Len(answers) + 1
          /\ Append(answers, "waiting")[t] = "waiting"
          /\ \A u \in 1 .. Len(answers) : Append(answers, "waiting")[u] = answers[u]
      BY <1>0, AppendProperties DEF NewTicket, Replies
    <3>4. Turns' /\ Past'
      <4>1. app.held # NoBatch
        BY <2>6 DEF JInv, WorkerInv, Loading
      <4>2. app.held.at = 0 /\ reader.next > 0
        BY <4>1 DEF JInv, IInv, Inv, Chain
      <4>3. ASSUME NEW k \in 1 .. Len(queue) PROVE queue[k].at # 0
        BY <4>1, <4>2, <4>3 DEF JInv, IInv, Inv, Order, Follows
      <4>4. Past
        BY <4>2, <4>3 DEF Past, JInv, IInv, TypeOK, Readers
      <4> QED
        BY <2>3, <3>1, <4>4 DEF Turns
    <3>5. CASE panel.protocol = "none"
      <4>1. d = Append(c, Configure(app.config))
        <5>1. d = c \o (<<>> \o <<Configure(app.config)>>) \/ d = (c \o <<>>) \o <<Configure(app.config)>>
          BY <1>0, <2>4, <3>1, <3>2, <3>5 DEF Restored, Workers
        <5> QED
          BY <1>0, <3>2, <5>1, CommandTyped
      <4>2. Loads(d) = Loads(c) /\ \A k \in Loads(c) : d[k] = c[k]
        <5>1. /\ Loads(Append(c, Configure(app.config))) = Loads(c)
              /\ \A k \in Loads(c) : Append(c, Configure(app.config))[k] = c[k]
          BY <1>0, <3>2, LoadsAfterConfigure
        <5> HIDE DEF c, d
        <5> QED
          BY <4>1, <5>1
      <4>3. Ends(worker', panel'.config)
        BY <1>0, <2>2, <3>2, <4>1, EndsConfigured
      <4>4. Ticketed'
        BY <3>1, <3>5, <4>2 DEF JInv, WorkerInv, Ticketed
      <4>5. Retiring'
        BY <2>2, <3>1, <3>2, <3>4, <3>5 DEF Retiring
      <4>6. Idling' /\ Loading' /\ Configured'
        BY <2>2, <2>4, <3>1, <3>2, <3>5, <4>3 DEF Idling, Loading, Configured
      <4> QED
        BY <3>4, <4>4, <4>5, <4>6 DEF WorkerInv
    <3>6. CASE panel.protocol # "none"
      <4> DEFINE e == Append(c, Load(panel.protocol, t))
      <4>1. d = Append(e, Configure(app.config))
        <5>1. \/ d = c \o (<<Load(panel.protocol, t)>> \o <<Configure(app.config)>>)
              \/ d = (c \o <<Load(panel.protocol, t)>>) \o <<Configure(app.config)>>
          BY <1>0, <2>4, <3>1, <3>2, <3>6 DEF Restored, Workers
        <5>2. Load(panel.protocol, t) \in Commands /\ Configure(app.config) \in Commands
          BY <1>0, <3>2, <3>3, CommandTyped
        <5> HIDE DEF d, c
        <5> QED
          BY <1>0, <3>2, <5>1, <5>2, TwoMore
      <4>2. e \in Seq(Commands)
        BY <1>0, <3>2, <3>3, CommandTyped, AppendProperties
      <4>3. /\ Loads(e) = Loads(c) \cup {Len(c) + 1}
            /\ e[Len(c) + 1] = Load(panel.protocol, t)
            /\ \A k \in Loads(c) : e[k] = c[k] /\ k \in 1 .. Len(c)
        <5> HIDE DEF t
        <5> QED
          BY <1>0, <3>2, <3>3, LoadsAfterLoad
      <4>4. Loads(d) = Loads(e) /\ \A k \in Loads(e) : d[k] = e[k]
        <5> HIDE DEF e
        <5>1. /\ Loads(Append(e, Configure(app.config))) = Loads(e)
              /\ \A k \in Loads(e) : Append(e, Configure(app.config))[k] = e[k]
          BY <3>2, <4>2, LoadsAfterConfigure
        <5> HIDE DEF d
        <5> QED
          BY <4>1, <5>1
      <4>5. Ends(worker', panel'.config)
        BY <2>2, <3>2, <4>1, <4>2, EndsConfigured
      <4> HIDE DEF d, e, t
      <4>6. Load(panel.protocol, t).ticket = t /\ Load(panel.protocol, t).dir = panel.protocol
        BY DEF Load
      <4>7. ASSUME NEW k \in Loads(d)
            PROVE  \/ k = Len(c) + 1 /\ d[k].ticket = t /\ d[k].dir = panel.protocol
                   \/ k \in Loads(c) /\ k \in 1 .. Len(c) /\ d[k] = c[k]
                      /\ d[k].ticket \in 1 .. Len(answers)
        BY <4>3, <4>4, <4>6, <4>7 DEF JInv, WorkerInv, Ticketed
      <4>8. Len(c) \in Nat
        BY <1>0, LenProperties
      <4>9. Ticketed'
        <5>1. ASSUME NEW k \in Loads(d)
              PROVE  d[k].ticket \in 1 .. Len(answers') /\ answers'[d[k].ticket] = "waiting"
          <6>1. CASE d[k].ticket = t
            BY <3>1, <3>3, <3>6, <6>1 DEF t
          <6>2. CASE k \in Loads(c) /\ d[k] = c[k] /\ d[k].ticket \in 1 .. Len(answers)
            BY <3>1, <3>3, <3>6, <6>2 DEF JInv, WorkerInv, Ticketed, t
          <6> QED
            BY <4>7, <6>1, <6>2
        <5>2. ASSUME NEW k \in Loads(d), NEW j \in Loads(d), d[j].ticket = d[k].ticket PROVE j = k
          <6>1. d[k].ticket = t => k = Len(c) + 1
            BY <3>3, <4>7
          <6>2. d[j].ticket = t => j = Len(c) + 1
            BY <3>3, <4>7
          <6>3. d[k].ticket # t => j \in Loads(c) /\ k \in Loads(c) /\ d[k] = c[k] /\ d[j] = c[j]
            BY <4>7, <5>2
          <6> QED
            BY <5>2, <6>1, <6>2, <6>3 DEF JInv, WorkerInv, Ticketed
        <5> QED
          BY <5>1, <5>2 DEF Ticketed, d
      <4>10. Retiring'
        <5>1. ASSUME NEW k \in Loads(d), d[k].ticket = t
              PROVE  d[k].dir = panel.protocol /\ \A j \in Loads(d) : j <= k
          <6>1. k = Len(c) + 1 /\ d[k].dir = panel.protocol
            BY <3>3, <4>7, <5>1
          <6> QED
            BY <4>7, <4>8, <6>1
        <5>2. answers'[t] = "waiting" /\ t \in 1 .. Len(answers') /\ app'.retiring = t
          BY <3>1, <3>3, <3>6 DEF t
        <5> QED
          BY <2>2, <3>1, <3>4, <5>1, <5>2 DEF Retiring, d
      <4>11. Idling' /\ Loading' /\ Configured'
        BY <2>2, <2>4, <3>1, <3>3, <3>6, <4>5 DEF Idling, Loading, Configured, t
      <4> QED
        BY <3>4, <4>9, <4>10, <4>11 DEF WorkerInv
    <3> QED
      BY <3>5, <3>6
  <2> QED
    BY <2>5, <2>6
<1>5. CASE RequestStop
  <2>1. UNCHANGED <<worker, answers, panel, app, reader, queue>>
    BY <1>5 DEF RequestStop
  <2> QED
    BY <2>1, WorkerFrame DEF JInv, WorkerInv, Turns, Past
<1>6. CASE EndFail
  <2>1. UNCHANGED <<worker, answers, panel, reader, queue>>
    BY <1>6 DEF EndFail
  <2>2. /\ app'.load = app.load /\ app'.retiring = app.retiring /\ app'.held = app.held
        /\ app'.config = app.config /\ app'.chosen = app.chosen /\ app'.prepared = app.prepared
        /\ app'.reported = app.reported /\ app'.importing = app.importing /\ app'.call = "none"
    BY <1>0, <1>6 DEF EndFail, Apps
  <2> QED
    BY <2>1, <2>2, WorkerFrame DEF JInv, Past
<1> QED
  BY <1>1, <1>2, <1>3, <1>4, <1>5, <1>6 DEF EndCall

\* Metadata is taken only from an import that has not been given up.
LEMMA TakingIsLive ==
    ASSUME JInv, MayTake, NextBatch.at = 0
    PROVE  /\ app.retiring = 0 /\ app.load = 0 /\ app.call = "none" /\ app.importing
           /\ Loads(worker.commands) = {} /\ Agrees
<1>1. app.load = 0 /\ app.call = "none" /\ app.importing /\ (app.held # NoBatch \/ queue # <<>>)
  BY DEF MayTake, Pumps
<1>2. ASSUME app.retiring # 0 PROVE FALSE
  <2>1. app.held = NoBatch /\ Past
    BY <1>1, <1>2 DEF JInv, WorkerInv, Retiring
  <2>2. queue \in Seq(BatchType) /\ queue # <<>>
    BY <1>1, <2>1 DEF JInv, IInv, TypeOK
  <2>3. 1 \in 1 .. Len(queue) /\ Head(queue) = queue[1]
    BY <2>2
  <2> QED
    BY <2>1, <2>3 DEF Past, NextBatch
<1> QED
  BY <1>1, <1>2 DEF JInv, WorkerInv, Idling

\* Posting the load of the protocol of a package keeps the invariant.
LEMMA PrepareWorker ==
    ASSUME Whole, JInv, NEW source \in {"package", "current"}, Prepare(source)
    PROVE  WorkerInv'
<1> DEFINE c == worker.commands
           d == worker'.commands
           t == NewTicket
<1>0. /\ task \in Tasks /\ app \in Apps /\ worker \in Workers /\ panel \in Panels
      /\ answers \in Seq(Replies) /\ c \in Seq(Commands) /\ Len(c) \in Nat
  BY LenProperties DEF JInv, IInv, TypeOK, Workers
<1>1. /\ MayTake /\ Taken /\ reader.session /\ reader' = reader /\ panel' = panel
      /\ NextBatch.at = 0 /\ ~app.prepared
      /\ answers' = Append(answers, "waiting")
  BY DEF Prepare
<1>2. /\ app.retiring = 0 /\ app.load = 0 /\ app.call = "none" /\ app.importing
      /\ Loads(c) = {} /\ Agrees
  BY <1>1, TakingIsLive
<1>3. /\ app'.load = t /\ app'.held = NextBatch /\ app'.chosen = Chosen(source)
      /\ app'.config = panel.config /\ app'.retiring = 0 /\ app'.reported = app.reported
      /\ ~app'.prepared /\ app'.call = "none" /\ app'.importing
  BY <1>0, <1>1, <1>2 DEF Prepare, Apps
<1>4. NextBatch # NoBatch
  BY <1>1, TakenFacts DEF NoBatch, JInv
<1>5. Chosen(source) \in Protocols /\ "package" \in Protocols
  BY <1>0 DEF Chosen, Panels, Protocols
<1>6. /\ t = Len(answers) + 1 /\ t \in Nat /\ Len(answers) \in Nat /\ t # 0
      /\ Len(answers') = t /\ answers'[t] = "waiting"
  BY <1>0, <1>1, AppendProperties DEF NewTicket, Replies
<1> DEFINE e == Append(c, Configure("package"))
<1>7. e \in Seq(Commands) /\ Loads(e) = {}
  <2>1. e \in Seq(Commands)
    BY <1>0, <1>5, CommandTyped, AppendProperties
  <2>2. Loads(e) = Loads(c)
    BY <1>0, <1>5, LoadsAfterConfigure
  <2> QED
    BY <1>2, <2>1, <2>2
<1>8. d = Append(e, Load(Chosen(source), t)) /\ worker'.protocol = worker.protocol
  <2>1. /\ d = c \o <<Configure("package"), Load(Chosen(source), t)>>
        /\ worker'.protocol = worker.protocol
    BY <1>0 DEF Prepare, Workers
  <2> QED
    BY <1>0, <1>5, <1>6, <2>1, CommandTyped
<1>9. Loads(d) = {Len(e) + 1} /\ d[Len(e) + 1] = Load(Chosen(source), t)
  <2> HIDE DEF e, t
  <2>1. /\ Loads(Append(e, Load(Chosen(source), t))) = Loads(e) \cup {Len(e) + 1}
        /\ Append(e, Load(Chosen(source), t))[Len(e) + 1] = Load(Chosen(source), t)
    BY <1>5, <1>6, <1>7, LoadsAfterLoad
  <2> HIDE DEF d
  <2> QED
    BY <1>7, <1>8, <2>1
<1>10. Load(Chosen(source), t).ticket = t /\ Load(Chosen(source), t).dir = Chosen(source)
  BY DEF Load
<1> HIDE DEF d, e, t
<1>11. Ticketed'
  BY <1>6, <1>9, <1>10 DEF Ticketed, d
<1>12. Loading'
  <2>1. Agrees'
    BY <1>1, <1>2, <1>3, <1>8 DEF Agrees
  <2> QED
    BY <1>1, <1>3, <1>4, <1>6, <1>9, <1>10, <2>1 DEF Loading, d
<1>13. Idling' /\ Retiring'
  BY <1>3, <1>6 DEF Idling, Retiring
<1>14. Configured' /\ Turns'
  BY <1>1, <1>3, <1>6 DEF Configured, Turns, JInv, WorkerInv
<1> QED
  BY <1>11, <1>12, <1>13, <1>14 DEF WorkerInv

\* Every step of a round keeps the invariant, one case for each action of Round.
LEMMA RoundWorker == Whole /\ JInv /\ Round => WorkerInv'
<1> SUFFICES ASSUME Whole, JInv, Round PROVE WorkerInv'
  OBVIOUS
<1> DEFINE c == worker.commands
<1>0. /\ task \in Tasks /\ app \in Apps /\ worker \in Workers /\ panel \in Panels
      /\ answers \in Seq(Replies) /\ c \in Seq(Commands)
      /\ "package" \in Protocols /\ panel.config \in Protocols /\ panel.config # "none"
  BY DEF JInv, IInv, TypeOK, Workers, Panels, Protocols, WorkerInv, Configured
<1>1. ASSUME NEW dir \in Protocols, worker' = [worker EXCEPT !.commands = Append(@, Configure(dir))]
      PROVE  /\ worker'.protocol = worker.protocol /\ Loads(worker'.commands) = Loads(c)
             /\ \A k \in Loads(c) : worker'.commands[k] = c[k]
             /\ Ends(worker', dir)
  <2>1. worker'.protocol = worker.protocol /\ worker'.commands = Append(c, Configure(dir))
    BY <1>0, <1>1 DEF Workers
  <2>2. /\ Loads(Append(c, Configure(dir))) = Loads(c)
        /\ \A k \in Loads(c) : Append(c, Configure(dir))[k] = c[k]
    BY <1>0, <1>1, LoadsAfterConfigure
  <2>3. Ends(worker', dir)
    BY <1>0, <2>1, EndsConfigured
  <2> QED
    BY <2>1, <2>2, <2>3
<1>2. CASE Harvest
  <2>1. /\ app.load # 0 /\ app.call = "none" /\ Answered(app.load) /\ c = <<>> /\ Loads(c) = {}
        /\ reader' = reader /\ answers' = answers
    BY <1>2, LoadsOfNone DEF Harvest, Pumps, Answered, InputIdle
  <2>2. /\ app.retiring = 0 /\ app.held # NoBatch /\ reader.session /\ app.config = panel.config
        /\ answers[app.load] = "ok" => worker.protocol = app.chosen
        /\ answers[app.load] # "ok" => Agrees
    BY <2>1 DEF JInv, WorkerInv, Loading
  <2>3. CASE answers[app.load] = "ok"
    <3>1. /\ panel'.protocol = app.chosen /\ panel'.config = panel.config /\ worker' = worker
          /\ app'.load = 0 /\ app'.prepared /\ app'.held = app.held /\ app'.retiring = 0
          /\ app'.call = "none"
      BY <1>0, <1>2, <2>1, <2>2, <2>3 DEF Harvest, Apps, Panels
    <3>2. Agrees' /\ Preparing'
      BY <2>2, <2>3, <3>1 DEF Agrees, Preparing
    <3> QED
      BY <1>0, <2>1, <2>2, <3>1, <3>2, SettledWorker
  <2>4. CASE answers[app.load] # "ok"
    <3>1. /\ panel' = panel
          /\ app'.load = 0 /\ ~app'.prepared /\ app'.retiring = 0
          /\ app'.reported = app.reported
          /\ worker' = [worker EXCEPT !.commands = Append(@, Configure(panel.config))]
      BY <1>0, <1>2, <2>1, <2>2, <2>4 DEF Harvest, Apps
    <3>2. /\ worker'.protocol = worker.protocol /\ Loads(worker'.commands) = Loads(c)
          /\ \A k \in Loads(c) : worker'.commands[k] = c[k]
          /\ Ends(worker', panel.config)
      BY <1>0, <1>1, <3>1
    <3>3. Agrees' /\ ~Preparing'
      BY <2>2, <2>4, <3>1, <3>2 DEF Agrees, Preparing
    <3> QED
      BY <1>0, <2>1, <3>1, <3>2, <3>3, SettledWorker
  <2> QED
    BY <2>3, <2>4
<1>3. ASSUME NEW source \in {"package", "current"}, Prepare(source) PROVE WorkerInv'
  BY <1>3, PrepareWorker
<1>4. CASE ApplyMetadata
  <2>1. MayTake /\ NextBatch.at = 0 /\ answers' = answers /\ reader' = reader
    BY <1>4 DEF ApplyMetadata
  <2>2. /\ app.retiring = 0 /\ app.load = 0 /\ app.call = "none" /\ Loads(c) = {} /\ Agrees
    BY <2>1, TakingIsLive
  <2>3. /\ app'.load = 0 /\ app'.retiring = 0 /\ app'.call = "none" /\ app'.held = NoBatch
        /\ app'.prepared = app.prepared /\ app'.reported = app.reported
    BY <1>0, <1>4, <2>2 DEF ApplyMetadata, Apps
  <2>4. app.prepared => reader.session
    BY DEF JInv, WorkerInv, Turns
  <2>5. CASE reader.session
    <3>1. /\ panel'.config = "package" /\ panel'.protocol = panel.protocol
          /\ worker' = [worker EXCEPT !.commands = Append(@, Configure("package"))]
      BY <1>0, <1>4, <2>5 DEF ApplyMetadata, Panels
    <3>2. /\ worker'.protocol = worker.protocol /\ Loads(worker'.commands) = Loads(c)
          /\ \A k \in Loads(c) : worker'.commands[k] = c[k]
          /\ Ends(worker', "package")
      BY <1>0, <1>1, <3>1
    <3>3. Agrees'
      BY <2>2, <2>3, <3>1, <3>2 DEF Agrees
    <3> QED
      BY <2>1, <2>2, <2>3, <2>4, <3>1, <3>2, <3>3, SettledWorker
  <2>6. CASE ~reader.session
    <3>1. UNCHANGED <<panel, worker>>
      BY <1>4, <2>6 DEF ApplyMetadata
    <3>2. Ends(worker, panel.config)
      BY <2>2, <2>4, <2>6 DEF JInv, WorkerInv, Configured, Preparing
    <3>3. Agrees' /\ Ends(worker', panel'.config)
      BY <2>2, <2>3, <3>1, <3>2 DEF Agrees
    <3> QED
      BY <1>0, <2>1, <2>2, <2>3, <2>4, <3>1, <3>3, SettledWorker
  <2> QED
    BY <2>5, <2>6
<1>5. CASE RefuseMetadata
  <2>1. MayTake /\ NextBatch.at = 0
    BY <1>5 DEF RefuseMetadata
  <2>2. /\ app.retiring = 0 /\ app.load = 0 /\ app.call = "none" /\ Loads(c) = {} /\ Agrees
    BY <2>1, TakingIsLive
  <2>3. PICK w : /\ Abandon(w)
                 /\ IF app.prepared
                    THEN /\ w = [worker EXCEPT !.commands = Append(@, Configure("package"))]
                         /\ panel' = [panel EXCEPT !.config = "package"]
                    ELSE w = worker /\ panel' = panel
    BY <1>5 DEF RefuseMetadata
  <2>4. /\ worker' = w /\ answers' = answers /\ reader' = reader
        /\ app'.held = NoBatch /\ app'.load = 0 /\ ~app'.prepared
        /\ app'.retiring = 0 /\ app'.reported = app.reported /\ ~Preparing'
    <3> DEFINE a == [app EXCEPT !.call = "fail"]
    <3>1. a \in Apps /\ a.load = 0 /\ a.retiring = 0 /\ a.reported = app.reported
      BY <1>0, <2>2 DEF Apps
    <3>2. GiveUp(a, w) /\ reader' = reader
      BY <2>3 DEF Abandon
    <3> HIDE DEF a
    <3> QED
      BY <3>1, <3>2, NothingToRetire DEF Preparing
  <2>5. CASE app.prepared
    <3>1. panel'.config = "package" /\ panel'.protocol = panel.protocol
      BY <1>0, <2>3, <2>5 DEF Panels
    <3>2. /\ worker'.protocol = worker.protocol /\ Loads(worker'.commands) = Loads(c)
          /\ \A k \in Loads(c) : worker'.commands[k] = c[k]
          /\ Ends(worker', "package")
      BY <1>0, <1>1, <2>3, <2>4, <2>5
    <3>3. Agrees'
      BY <2>2, <2>4, <3>1, <3>2 DEF Agrees
    <3> QED
      BY <2>2, <2>4, <3>1, <3>2, <3>3, SettledWorker
  <2>6. CASE ~app.prepared
    <3>1. UNCHANGED <<panel, worker>> /\ Ends(worker, panel.config)
      BY <2>2, <2>3, <2>4, <2>6 DEF JInv, WorkerInv, Configured, Preparing
    <3>2. Agrees' /\ Ends(worker', panel'.config)
      BY <2>2, <2>4, <3>1 DEF Agrees
    <3> QED
      BY <1>0, <2>2, <2>4, <3>1, <3>2, SettledWorker
  <2> QED
    BY <2>5, <2>6
<1>6. ASSUME NEW records \in BOOLEAN, ApplyData(records) PROVE WorkerInv'
  <2>1. /\ MayTake /\ Taken /\ UNCHANGED <<reader, panel, worker, answers>>
        /\ app' = [app EXCEPT !.records = @ \/ records]
    BY <1>6 DEF ApplyData
  <2>2. app.load = 0 /\ app.call = "none" /\ app.importing
    BY <2>1 DEF MayTake, Pumps
  <2>3. /\ app'.load = 0 /\ app'.call = "none" /\ app'.retiring = app.retiring
        /\ app'.held = app.held /\ app'.prepared = app.prepared
        /\ app'.reported = app.reported /\ app'.importing
    BY <1>0, <2>1, <2>2 DEF Apps
  <2>4. /\ app.retiring = 0 => Loads(c) = {} /\ Agrees
        /\ Preparing \/ Ends(worker, panel.config)
        /\ app.prepared => reader.session
        /\ app.retiring # 0 => app.held = NoBatch /\ Past
    BY <2>2 DEF JInv, WorkerInv, Idling, Configured, Turns, Retiring
  <2>5. app.retiring = 0 => Agrees'
    BY <2>1, <2>3, <2>4 DEF Agrees
  <2>6. Past => Past'
    <3>1. queue \in Seq(BatchType)
      BY DEF JInv, IInv, TypeOK
    <3>2. queue' = queue \/ (queue # <<>> /\ queue' = Tail(queue))
      BY <2>1, TakenFacts DEF JInv
    <3>3. ASSUME queue # <<>>, queue' = Tail(queue)
          PROVE  \A k \in 1 .. Len(queue') : k + 1 \in 1 .. Len(queue) /\ queue'[k] = queue[k + 1]
      BY <3>1, <3>3
    <3> QED
      BY <2>1, <3>2, <3>3 DEF Past
  <2>7. Preparing' \/ Ends(worker', panel'.config)
    BY <2>1, <2>3, <2>4 DEF Preparing
  <2> QED
    BY <1>0, <2>1, <2>3, <2>4, <2>5, <2>6, <2>7, SettledWorker
<1>7. CASE Complete
  <2> DEFINE a == [app EXCEPT !.importing = FALSE]
  <2>1. /\ a \in Apps /\ a.load = app.load /\ a.retiring = app.retiring
        /\ a.call = app.call /\ a.reported = app.reported /\ ~a.importing
    BY <1>0 DEF Apps
  <2>2. GiveUp(a, worker) /\ app.load = 0 /\ app.call = "none" /\ ~InRound /\ UNCHANGED <<reader, panel>>
    BY <1>7 DEF Complete, Ready, Pumps
  <2> HIDE DEF a
  <2>3. /\ worker' = worker /\ answers' = answers
        /\ app'.held = NoBatch /\ app'.load = 0 /\ ~app'.prepared
        /\ app'.retiring = app.retiring /\ app'.reported = app.reported
        /\ ~app'.importing /\ app'.call = "none"
    BY <2>1, <2>2, NothingToRetire
  <2>4. Ends(worker', panel'.config)
    BY <2>2, <2>3 DEF JInv, WorkerInv, Configured, Preparing, InRound, Whole
  <2>5. app'.retiring = 0 => Loads(c) = {} /\ Agrees'
    BY <2>2, <2>3 DEF JInv, WorkerInv, Idling, Agrees
  <2> QED
    BY <1>0, <2>2, <2>3, <2>4, <2>5, SettledWorker
<1>8. CASE Retire
  <2>1. /\ app.retiring # 0 /\ Answered(app.retiring) /\ ~app.importing /\ app.call = "none"
        /\ UNCHANGED <<task, reader, panel, worker, answers>>
    BY <1>8 DEF Retire
  <2>2. /\ app'.retiring = 0 /\ app'.load = app.load /\ app'.held = app.held /\ app'.call = "none"
        /\ app'.prepared = app.prepared
        /\ app'.reported = (app.reported \/ answers[app.retiring] = "bad")
    BY <1>0, <1>8, <2>1 DEF Retire, Apps
  <2>3. /\ c = <<>> /\ app.load = 0
        /\ answers[app.retiring] = "bad" \/ panel.protocol = "none" \/ worker.protocol = panel.protocol
    BY <2>1, RetiredAgrees
  <2>4. Loads(c) = {} /\ Agrees'
    BY <2>1, <2>2, <2>3, LoadsOfNone DEF Agrees
  <2>5. Preparing' \/ Ends(worker', panel'.config)
    BY <2>1, <2>2, <2>3 DEF JInv, WorkerInv, Configured, Preparing
  <2>6. app.prepared => reader.session
    BY DEF JInv, WorkerInv, Turns
  <2> QED
    BY <1>0, <2>1, <2>2, <2>3, <2>4, <2>5, <2>6, SettledWorker
<1>9. CASE HandOverFails
  <2>1. UNCHANGED <<worker, answers, panel, app, reader, queue>>
    BY <1>9 DEF HandOverFails
  <2> QED
    BY <2>1, WorkerFrame DEF JInv, WorkerInv, Turns, Past
<1> QED
  BY <1>2, <1>3, <1>4, <1>5, <1>6, <1>7, <1>8, <1>9 DEF Round

\* The invariant is inductive.
LEMMA NextWorker == Whole /\ JInv /\ [Next]_vars => JInv'
<1> SUFFICES ASSUME Whole, JInv, [Next]_vars PROVE WorkerInv'
  BY NextInv DEF JInv
<1>1. CASE UNCHANGED vars
  BY <1>1, WorkerFrame DEF vars, JInv, WorkerInv, Turns, Past
<1>2. CASE Next
  BY <1>2, ReaderWorker, WorkWorker, UserWorker, RoundWorker DEF Next
<1> QED
  BY <1>1, <1>2

\* When the queue is empty, what it would lead to is what there is.
LEMMA SettledAgrees == JInv => WorkerAgrees
<1> SUFFICES ASSUME JInv, ~app.importing, app.retiring = 0, InputIdle, ~app.reported
             PROVE  /\ worker.protocol = panel.protocol \/ panel.protocol = "none"
                    /\ worker.config = panel.config
  BY DEF WorkerAgrees
<1>1. app.load = 0 /\ app.held = NoBatch
  BY DEF JInv, IInv, Inv, Quiet, WorkerInv, Turns
<1>2. Agrees /\ Ends(worker, panel.config)
  BY <1>1 DEF JInv, WorkerInv, Idling, Configured, Preparing
<1>3. worker.commands = <<>>
  BY DEF InputIdle
<1> QED
  BY <1>2, <1>3 DEF Agrees, Ends

\* After every import, whether it was applied, refused, cancelled or had failed, the worker runs
\* the protocol and the configuration that the application shows, unless it reported that the old
\* protocol could not be loaded again (Application::resetDataImportGenerationState).
THEOREM WorkerReturns == ASSUME Whole PROVE Spec => []WorkerAgrees
<1>1. Init => JInv
  BY InitTyped, InitInv, InitWorkerInv DEF JInv, IInv
<1>2. JInv /\ [Next]_vars => JInv'
  BY NextWorker
<1>3. JInv => WorkerAgrees
  BY SettledAgrees
<1> QED
  BY <1>1, <1>2, <1>3, PTL DEF Spec
=============================================================================
