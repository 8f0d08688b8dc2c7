----------------------------- MODULE DataImport -----------------------------
(* The import of a recording or of a session package: the thread that reads *)
(* the file, the queue of batches it fills, the application that confirms,  *)
(* cancels and applies them, and the script worker that loads the protocol  *)
(* of the package meanwhile and the old one again when it was in vain.      *)
(* Source: src/app/data_transfer_task.cc, src/app/application_data.cc.      *)
EXTENDS Naturals, Sequences

CONSTANTS
    Size,          \* batches of data in a file, after its metadata
    QueueLimit,    \* batches that wait for the application
    MaxImports,    \* imports in a run, for TLC
    Previous,      \* protocols that may be loaded at first, "none" among them if none may be
    Risky          \* what may happen besides, a subset of Risks (README, section 3)

Risks == {"slow round"}

ASSUME ImportAssumption ==
    /\ Size \in Nat /\ QueueLimit \in Nat \ {0} /\ MaxImports \in Nat
    /\ Previous \subseteq {"old", "none"} /\ Risky \subseteq Risks

VARIABLES
    task,      \* DataTransferTask: status_, confirmed_ and the stop token
    queue,     \* batches_
    reader,    \* the thread of the task: where it is, and the next batch
    app,       \* the import as the application sees it
    panel,     \* luaState().protocolDir and runtimeConfig_
    worker,    \* scriptWorker_: its commands, and what it runs under
    answers,   \* the loads that were asked for, and their answers
    shown      \* history: the batches of this import that were applied

vars == <<task, queue, reader, app, panel, worker, answers, shown>>

NoTask == [id |-> 0, active |-> FALSE, awaiting |-> FALSE, canceled |-> FALSE,
           complete |-> FALSE, error |-> FALSE, confirmed |-> FALSE, stop |-> FALSE]
NoBatch == [id |-> 0, at |-> 0, late |-> FALSE]

\* Number 0 is the metadata.  A batch that is pushed after the queue was cleared is late: the
\* code does not tell it from any other.
Batch(at) == [id |-> task.id, at |-> at, late |-> task.canceled]

-----------------------------------------------------------------------------
(* The task, each operation under its lock                                  *)

\* Fault: a task whose thread has ended stays active.
KeepsActive(t) == [t EXCEPT !.canceled = TRUE]

\* Fault: the batches stay in the queue.
KeepsQueue == queue

\* cancel, up to where it lets go of the lock; RequestStop is the rest.
Canceled(t) ==
    IF t.active THEN [t EXCEPT !.canceled = TRUE, !.active = ~t.complete] ELSE t
QueueCanceled == IF task.active THEN <<>> ELSE queue

\* finish; what was read is kept for the application only if the whole file was.
Spoiled(error, canceled) == task.error \/ error \/ task.canceled \/ canceled
Finish(error, canceled) ==
    /\ queue' = IF Spoiled(error, canceled) THEN <<>> ELSE queue
    /\ task' = [task EXCEPT
           !.error = @ \/ error, !.canceled = @ \/ canceled, !.complete = TRUE,
           !.awaiting = FALSE, !.active = queue' # <<>>]
    /\ reader' = [reader EXCEPT !.at = "done"]

-----------------------------------------------------------------------------
(* The thread that reads the file                                           *)

\* The metadata is found, and the thread waits until the user agrees.
Ask ==
    /\ reader.at = "reading"
    /\ task' = [task EXCEPT !.awaiting = TRUE]
    /\ reader' = [reader EXCEPT !.at = "asking"]
    /\ UNCHANGED <<queue, app, panel, worker, answers, shown>>

Agreed ==
    /\ reader.at = "asking" /\ task.confirmed
    /\ reader' = [reader EXCEPT !.at = "pushing"]
    /\ UNCHANGED <<task, queue, app, panel, worker, answers, shown>>

\* push waits for room or for the end of the task.
MayPush == Len(queue) < QueueLimit /\ ~task.stop

Push ==
    /\ reader.at = "pushing" /\ MayPush
    /\ queue' = Append(queue, Batch(reader.next))
    /\ reader' = [reader EXCEPT !.next = @ + 1,
                                !.at = IF reader.next = Size THEN "finishing" ELSE @]
    /\ UNCHANGED <<task, app, panel, worker, answers, shown>>

\* The end of the file, an error in it, or the end of the task; a reading that is stopped
\* may or may not call this an error.
EndReading ==
    /\ \/ reader.at = "finishing" /\ Finish(FALSE, FALSE)
       \/ reader.at \in {"reading", "pushing", "finishing"} /\ Finish(TRUE, FALSE)
       \/ reader.at \in {"reading", "asking", "pushing"} /\ task.stop
             /\ \E error \in BOOLEAN : Finish(error, TRUE)
    /\ UNCHANGED <<app, panel, worker, answers, shown>>

-----------------------------------------------------------------------------
(* The script worker                                                        *)

Load(dir, ticket) == [op |-> "load", dir |-> dir, ticket |-> ticket]
Configure(dir) == [op |-> "configure", dir |-> dir, ticket |-> 0]
InputIdle == worker.commands = <<>>
NewTicket == Len(answers) + 1

\* A load that fails leaves the old script in place.
Work ==
    /\ worker.commands # <<>>
    /\ LET command == Head(worker.commands)
       IN  IF command.op = "configure"
           THEN /\ worker' = [worker EXCEPT !.commands = Tail(@), !.config = command.dir]
                /\ UNCHANGED answers
           ELSE \E ok \in BOOLEAN :
                   /\ worker' = [worker EXCEPT !.commands = Tail(@),
                                               !.protocol = IF ok THEN command.dir ELSE @]
                   /\ answers' = [answers EXCEPT ![command.ticket] = IF ok THEN "ok" ELSE "bad"]
    /\ UNCHANGED <<task, queue, reader, app, panel, shown>>

Answered(ticket) == answers[ticket] # "waiting" /\ InputIdle

-----------------------------------------------------------------------------
(* The application: the generation of an import is given up                 *)

NoImport == [importing |-> FALSE,
             call |-> "none",                                    \* inside "cancel" or "fail"
             load |-> 0, held |-> NoBatch, prepared |-> FALSE,   \* the protocol of the package
             chosen |-> "none",                                  \* pendingImportProtocol_
             config |-> "none",                                  \* pendingImportPreviousConfig_
             records |-> FALSE,                                  \* pendingImportedCapture_.events
             retiring |-> 0, reported |-> FALSE]

\* A load cannot be taken back: the old protocol and its configuration are queued behind it.
Restored(w) ==
    [w EXCEPT !.commands = @
        \o (IF panel.protocol = "none" THEN <<>> ELSE <<Load(panel.protocol, NewTicket)>>)
        \o (IF app.config = "none" THEN <<>> ELSE <<Configure(app.config)>>)]

\* Fault: a load that is under way is forgotten.
ForgetsLoad(a, w) ==
    /\ worker' = w /\ UNCHANGED answers
    /\ app' = [a EXCEPT !.load = 0, !.held = NoBatch, !.prepared = FALSE, !.chosen = "none",
                         !.config = "none", !.records = FALSE]

\* resetDataImportGenerationState; a is the rest of what changes in the application.
GiveUp(a, w) ==
    LET retires == a.load # 0
        reloads == retires /\ panel.protocol # "none"
    IN  /\ worker' = IF retires THEN Restored(w) ELSE w
        /\ answers' = IF reloads THEN Append(answers, "waiting") ELSE answers
        /\ app' = [a EXCEPT
               !.load = 0, !.held = NoBatch, !.prepared = FALSE, !.chosen = "none",
               !.config = "none", !.records = FALSE,
               !.retiring = IF reloads THEN NewTicket ELSE IF retires THEN a.load ELSE @]

-----------------------------------------------------------------------------
(* The application: calls of the user                                       *)

\* startDataImport; it waits for the thread of the last import, and refuses while a protocol
\* that was given up is still being loaded.
Start(session) ==
    /\ app.call = "none" /\ task.id < MaxImports
    /\ ~task.active /\ ~app.importing /\ reader.at \in {"none", "done"}
    /\ app.retiring # 0 => Answered(app.retiring)
    /\ task' = [NoTask EXCEPT !.id = task.id + 1, !.active = TRUE]
    /\ queue' = <<>> /\ shown' = <<>>
    /\ reader' = [at |-> "reading", next |-> 0, session |-> session]
    /\ app' = [NoImport EXCEPT
           !.importing = TRUE,
           !.reported = app.reported \/ (app.retiring # 0 /\ answers[app.retiring] = "bad")]
    /\ UNCHANGED <<panel, worker, answers>>

Confirm ==
    /\ app.call = "none" /\ task.awaiting
    /\ task' = [task EXCEPT !.confirmed = TRUE, !.awaiting = FALSE]
    /\ UNCHANGED <<queue, reader, app, panel, worker, answers, shown>>

\* The metadata that waited for the protocol is applied in the round that sees the protocol
\* loaded, unless that round has used up its time.
InRound == app.prepared /\ app.held # NoBatch /\ "slow round" \notin Risky

\* cancelDataTransfer
Cancel ==
    /\ app.importing /\ app.call = "none" /\ ~InRound
    /\ task' = Canceled(task)
    /\ queue' = QueueCanceled
    /\ app' = [app EXCEPT !.call = "cancel"]
    /\ UNCHANGED <<reader, panel, worker, answers, shown>>

\* Inside cancel the lock is let go before the thread is told to stop; a task that is not active
\* is not told.
Stopping == task.canceled /\ ~task.stop
RequestStop ==
    /\ app.call # "none" /\ Stopping
    /\ task' = [task EXCEPT !.stop = TRUE]
    /\ UNCHANGED <<queue, reader, app, panel, worker, answers, shown>>

EndCancel ==
    /\ app.call = "cancel" /\ ~Stopping
    /\ GiveUp([app EXCEPT !.call = "none"], worker)
    /\ UNCHANGED <<task, queue, reader, panel, shown>>

\* fail is cancel, and the error under the lock again.
EndFail ==
    /\ app.call = "fail" /\ ~Stopping
    /\ task' = [task EXCEPT !.error = TRUE]
    /\ app' = [app EXCEPT !.call = "none"]
    /\ UNCHANGED <<queue, reader, panel, worker, answers, shown>>

-----------------------------------------------------------------------------
(* The application: rounds of pumpDataImport                                *)

Pumps == app.importing /\ app.call = "none"

\* An exception: everything that was prepared is given up, and fail is called.
Abandon(w) ==
    /\ task' = Canceled(task)
    /\ queue' = QueueCanceled
    /\ GiveUp([app EXCEPT !.call = "fail"], w)
    /\ UNCHANGED <<reader, shown>>

\* The load of the protocol of the package is answered.
Harvest ==
    /\ Pumps /\ app.load # 0 /\ Answered(app.load)
    /\ IF answers[app.load] = "ok"
       THEN /\ panel' = [panel EXCEPT !.protocol = app.chosen]
            /\ app' = [app EXCEPT !.load = 0, !.prepared = TRUE]
            /\ UNCHANGED <<task, queue, reader, worker, answers, shown>>
       ELSE /\ task' = Canceled(task) /\ queue' = QueueCanceled
            /\ worker' = IF app.config = "none" THEN worker
                         ELSE [worker EXCEPT !.commands = Append(@, Configure(app.config))]
            /\ app' = [app EXCEPT !.call = "fail", !.load = 0, !.held = NoBatch,
                                  !.prepared = FALSE, !.chosen = "none", !.config = "none",
                                  !.records = FALSE]
            /\ UNCHANGED <<reader, panel, answers, shown>>

\* take: the last batch of a file that was read ends the activity of the task.  (The round also
\* compares the id of a batch with the task's; AppliedInOrder shows that they never differ.)
NextBatch == IF app.held # NoBatch THEN app.held ELSE Head(queue)
Taken ==
    IF app.held # NoBatch THEN UNCHANGED <<task, queue>>
    ELSE /\ queue' = Tail(queue)
         /\ task' = [task EXCEPT !.active = ~(Tail(queue) = <<>> /\ task.complete)]
MayTake == Pumps /\ app.load = 0 /\ (app.held # NoBatch \/ queue # <<>>)

\* The metadata of a package: the protocol is chosen, configured and loaded first.
Chosen(source) == IF source = "package" THEN "package" ELSE panel.protocol
Prepare(source) ==
    /\ MayTake /\ NextBatch.at = 0 /\ reader.session /\ ~app.prepared
    /\ Chosen(source) # "none"
    /\ Taken
    /\ worker' = [worker EXCEPT !.commands =
                     @ \o <<Configure("package"), Load(Chosen(source), NewTicket)>>]
    /\ answers' = Append(answers, "waiting")
    /\ app' = [app EXCEPT !.load = NewTicket, !.held = NextBatch,
                          !.chosen = Chosen(source), !.config = panel.config]
    /\ UNCHANGED <<reader, panel, shown>>

\* The metadata is applied, with the configuration of the package.
ApplyMetadata ==
    /\ MayTake /\ NextBatch.at = 0
    /\ reader.session => app.prepared \/ panel.protocol = "none"
    /\ Taken
    /\ shown' = Append(shown, NextBatch)
    /\ app' = [app EXCEPT !.held = NoBatch]
    /\ IF reader.session
       THEN /\ panel' = [panel EXCEPT !.config = "package"]
            /\ worker' = [worker EXCEPT !.commands = Append(@, Configure("package"))]
       ELSE UNCHANGED <<panel, worker>>
    /\ UNCHANGED <<reader, answers>>

\* The metadata is refused before anything of it is applied; the marks of a package are looked at
\* after its configuration was.
RefuseMetadata ==
    /\ MayTake /\ NextBatch.at = 0
    /\ IF app.prepared
       THEN /\ Abandon([worker EXCEPT !.commands = Append(@, Configure("package"))])
            /\ panel' = [panel EXCEPT !.config = "package"]
       ELSE /\ Abandon(worker)
            /\ UNCHANGED panel

\* A batch of samples, or of records, which wait for the end of the import.
ApplyData(records) ==
    /\ MayTake /\ NextBatch.at > 0
    /\ Taken
    /\ shown' = Append(shown, NextBatch)
    /\ app' = [app EXCEPT !.records = @ \/ records]
    /\ UNCHANGED <<reader, panel, worker, answers>>

\* Fault: the batches that are left are not waited for.
ReadMeansDone == task.complete

Done == ~task.active /\ task.complete

Ready == Pumps /\ app.load = 0 /\ ~InRound /\ Done

\* The records cannot be handed over to a replay, or the replay fails: the task, which is not
\* active any more, has failed, and the import ends in a later round.
HandOverFails ==
    /\ Ready /\ app.records
    /\ task' = [task EXCEPT !.error = TRUE]
    /\ UNCHANGED <<queue, reader, app, panel, worker, answers, shown>>

Complete ==
    /\ Ready
    /\ GiveUp([app EXCEPT !.importing = FALSE], worker)
    /\ UNCHANGED <<task, queue, reader, panel, shown>>

\* pumpOnce after an import: the protocol that is loaded again.
Retire ==
    /\ ~app.importing /\ app.call = "none"
    /\ app.retiring # 0 /\ Answered(app.retiring)
    /\ app' = [app EXCEPT !.retiring = 0,
                          !.reported = @ \/ answers[app.retiring] = "bad"]
    /\ UNCHANGED <<task, queue, reader, panel, worker, answers, shown>>

-----------------------------------------------------------------------------
Init ==
    /\ task = NoTask /\ queue = <<>> /\ shown = <<>> /\ answers = <<>>
    /\ reader = [at |-> "none", next |-> 0, session |-> FALSE]
    /\ app = NoImport
    /\ panel \in [protocol : Previous, config : {"old"}]
    /\ worker = [commands |-> <<>>, protocol |-> panel.protocol, config |-> "old"]

Reader == Ask \/ Agreed \/ Push \/ EndReading
Round == Harvest \/ (\E source \in {"package", "current"} : Prepare(source))
         \/ ApplyMetadata \/ RefuseMetadata \/ (\E records \in BOOLEAN : ApplyData(records))
         \/ HandOverFails \/ Complete \/ Retire
EndCall == RequestStop \/ EndCancel \/ EndFail

Next == (\E session \in BOOLEAN : Start(session)) \/ Confirm \/ Cancel \/ EndCall
        \/ Reader \/ Work \/ Round
Spec == Init /\ [][Next]_vars

\* Threads run, calls return, and the application pumps in every frame, whatever the user clicks
\* between them.
FairSpec == Spec /\ WF_vars(Reader) /\ WF_vars(Work) /\ SF_vars(Round) /\ WF_vars(EndCall)

-----------------------------------------------------------------------------
(* Properties                                                               *)

\* The batch b is applied n batches after a; after a late one, the file goes on without a gap,
\* and there are no more of them than the queue holds.
Follows(a, b, n) ==
    /\ a.at < b.at
    /\ a.late => b.late /\ b.at - a.at = n /\ n < QueueLimit

\* What is applied is the file, batch after batch, of this import and no other, after the user
\* agreed; after a cancel or a failure at most what the thread pushed before it was told to stop,
\* which is as much as the queue holds; an import that reports success has applied all of the
\* file (data_transfer_task.cc:22, application_data.cc:1002).
AppliedInOrder ==
    /\ \A k \in 1 .. Len(shown) : shown[k].id = task.id /\ (~shown[k].late => shown[k].at = k - 1)
    /\ \A j, k \in 1 .. Len(shown) : j < k => Follows(shown[j], shown[k], k - j)
    /\ shown # <<>> => task.confirmed
    /\ task.complete /\ ~app.importing /\ ~task.error /\ ~task.canceled
          => Len(shown) = Size + 1

\* After a cancel or a failure nothing that was read before it reaches the display, the
\* configuration or the protocol panel any more: not what was queued, not the metadata that was
\* held for a protocol, and not that protocol, whose load goes on (application_data.cc:757).
CanceledIsQuiet ==
    [][task.canceled => /\ panel' # panel => NextBatch.late
                        /\ shown' \notin {shown, <<>>} => shown'[Len(shown')].late]_vars

\* It does not hold that nothing at all is applied after a cancel or a failure.
QuietAtOnce == [][task.canceled => UNCHANGED panel /\ shown' \in {shown, <<>>}]_vars

\* When nothing is under way, the worker runs the protocol and the configuration that the
\* application shows (application_data.cc:710), unless it reported that the old protocol could not
\* be loaded again.  Where no protocol was loaded before, that of a cancelled package stays.
WorkerAgrees ==
    ~app.importing /\ app.retiring = 0 /\ InputIdle /\ ~app.reported
        => /\ worker.protocol = panel.protocol \/ panel.protocol = "none"
           /\ worker.config = panel.config

\* An import that waits for no answer of the user ends, also when it is cancelled while the
\* thread waits for room or for the answer.
ImportEnds == app.importing ~> ~app.importing \/ task.awaiting
=============================================================================
