# ProtoScope: TLA+ models, model checking and proofs

ProtoScope is a desktop tool for debugging serial, TCP and UDP protocols. A
protocol is a directory of Lua scripts that parses what a device sends, draws
it, and talks back. This directory holds the TLA+ project kept beside the C++
code: models of the parts whose behaviour depends on who runs first, the TLC
configurations that check them, and machine-checked proofs about them.

Paths are those of the repository; `application_transport.cc` stands for
`src/app/application_transport.cc`, `script_runtime_worker.cc` for
`src/scripting/script_runtime_worker.cc`, and so on. `PROJECT.json` lists, for
every definition that models code, the lines it models; for every run, its
configuration and properties; for every property, a mutation of the model that
the property catches; and the hazards of the code, line by line.

    cd tla
    tlc -workers 2 -config worker_pump.cfg MCScriptWorker.tla
    tlc -workers 2 -config data_import.cfg MCDataImport.tla
    tlapm ScriptWorkerProofs.tla
    tlapm TxSchedulerProofs.tla
    tlapm DataImportProofs.tla
    tlapm RecordRotationProofs.tla
    tlapm ConnectionProofs.tla
    tlapm OfflineReplayProofs.tla
    tlapm FrameParserProofs.tla

## 1. Inventory

### 1.1 Threads

| thread | owner | talks to the others through |
|---|---|---|
| application (UI) thread | `Application::pumpOnce`, every frame | everything below |
| script worker | `ScriptRuntimeWorker::Impl::run`, owns the Lua host | FIFO of commands in, bounded queue of output batches out, one mutex and three condition variables |
| transport I/O thread | one per open transport (asio) | posted writes in, a locked vector of events out |
| offline script worker | a second `ScriptRuntimeWorker`, for replays | as the first |
| storage writer and reader | `storage::Store` | a queue of commands and a queue of queries in, completions out |
| transfer, rebuild and parsing tasks | `DataTransferTask`, `parseHistory`, `RecordImport`, `RecordExport` | a bounded queue, a stop token, a status under a mutex |

### 1.2 Components

For each: its state, its operations, what is hard, what makes it correct.

**Script runtime worker** (`script_runtime_worker.cc`).
State: configuration, command queue, output queue, `pendingRxBytes`,
`executingRxBytes`, warning/stopping/executing/failed flags, `wakeRequested`,
promises of synchronous calls, the connection the host is bound to.
Operations: non-blocking and blocking posts of received bytes, open, close,
some ten fire-and-forget callbacks, reconfiguration, stream reset, synchronous
calls, `waitIdle`, draining, clearing the outputs, loading a protocol, stop.
Hard: two threads that block on each other's queues in opposite directions, a
snapshot that others take decisions on, bytes that must be accounted for
exactly while they are merged, cleared, executed and dropped as stale.
Correct when: every byte is counted exactly once and in order; `idle` and
`waitIdle` mean what they say; budgets hold; a reload sees nothing of the old
script; no wait is for ever.

**TX scheduler** (`application_transport.cc:1734-2167`).
State: `pendingTxQueue_`, `activeWrite_`, `activeHalfDuplexRequest_`,
`txRequestGuardHalted_`, and the host's own idea of whether a request waits.
Operations: queue a request (three overflow policies), hand the head to the
transport, process write results, `request_done`, time-outs and retries,
guard halt and reset, cancel everything on open, close, disconnect and reload.
Hard: three threads with queues between them; `request_done` names no request;
time-outs race with answers; a retry re-enters a full queue.
Correct when: the link is half-duplex, requests are sent in order, each ends
exactly once, nothing guarded is sent while the guard is halted, an answer
completes the request it answers, and every request ends unless it was discarded before it
was sent.

**Transport event pump** (`application_transport.cc:1370-1732`).
State: `pendingTransportEvents_`, pending and detached received chunks, the
byte and event budgets of a round, `activeConnection_`. Operations: pull, order,
split, deliver, detach at close. Hard: the worker may take a part of a chunk,
and the connection may be closed before the rest goes. Correct when: every byte
keeps its order and its connection and reaches the script once, callbacks nest
(open, bytes, close), and only a close or an open throws bytes away.

**Transports** (`transport.cc`, `udp_transport.cc`). State: open/error state,
sockets, the current connection context and its generation, events. Operations:
open, close, send (posted to the I/O thread), receive; the TCP server accepts,
rejects, and lets a new client take the connection over. Hard: closing discards
posted writes and events; a read started for the old client completes after the
take-over; a posted write may meet the next client. Correct when: bytes are
reported for the connection they were sent on, the close of the old client comes
before the open of the new one.

**Script host and its API modules** (`src/scripting/host/`). State: the Lua
state, timers, controls, docks, `requestAwaitingCompletion_`, collected
outputs. Operations: callbacks and the `proto.*` functions.

**Frame stream parser** (`frame_stream_parser.cc`). State: the schema, a ring
with two overflow policies and a growth limit, the lengths set at run time.
Operations: push, set and clear the run-time lengths, reset. Hard: headers split
between pushes, several frames with a common header, lengths and counts computed
from received bytes in machine integers, a ring that wraps, grows or overwrites.
Correct when: the frames are those of a scan of the whole stream, no byte is lost
without a report, the parser never waits with a buffer that can take no more, and
decoded fields lie inside their frame.

**Application: settings, reload, transfer history** (`application.cc`,
`application_settings.cc`, `application_transport.cc:614-1118`). State: the
configuration in force and the one being tried, the rebuild task of the
history with its generation. Correct when: a rebuild that is out of date never
replaces rows, and a failed load falls back.

**Application: data, sessions, transfer task** (`application_data.cc`,
`data_transfer_task.cc`, `session_package.cc`). State: the status of the task,
its queue of batches and its stop token; the generation of an import in the
application, with the metadata it holds while the protocol of a package is
loaded; the protocol and configuration that the panel shows and those the worker
has. Operations: start, confirm, cancel; the thread's push and finish; a round
of `pumpDataImport`; the retirement of a load that was given up. Hard: three
threads and the user; a load cannot be taken back; an error may fall anywhere.
Correct when: what is applied is the file in its order, after the user agreed;
nothing that was read before a cancel is applied after it; the worker returns to what
the panel shows; an import ends.

**Offline replay** (`application_replay.cc`). State: the timeline (position,
phase, target of a seek, pacing, the profile fence), a script worker of its own,
samples not yet drawn. Operations: load, unload, play, pause, step, seek; a round
prepares, flushes, submits and drains under budgets. Hard: a recorded profile
must take effect exactly between the bytes around it although another thread
parses them; idleness of the worker is only seen between rounds. Correct when:
what is seen was made of the events in their order and under their own profile,
a drain ends only when all is drawn, and a seek or a replay ends.

**Record storage** (`src/storage/`). State: key/value database, session
database (active volume, pending rotation, last committed id), catalogue of
sealed volumes, volumes in directories of their own (SQLite in WAL mode with
`synchronous=FULL`), the writer's queue. Operations: publish in batches,
rotate, seal, index, retain, query, import, export, migrate, suspend, resume.
Hard: crashes between any two of the databases, retention against queries,
failures in the middle of a batch. Correct when: ids are dense and never
reused, a committed record survives, a rotation is finished after a restart,
and a pinned volume is not deleted.

**Waveform** (`src/plot/`, `application_wave.cc`). The sample ring buffer, raw
capture files and their stream writer, CSV, mathematics, FFT, queries.

**The rest.** Data model and record files, configuration and embedded
protocols, dock stores, logging, protocol utilities (CRC and codecs), the ELF
plug-in bridge, adaptive performance, start-up diagnostics, the user interface.

### 1.3 How they interact

    transport I/O thread --events--> Application --commands--> script worker
            ^                        |   ^                          |
            '------posted writes-----'   '-----output batches-------'
                                     |
                                     '--records--> storage writer

One round of `pumpOnce` (application.cc:364) handles transport events, flushes
the outputs of the worker, advances replays, looks at request deadlines and
drives the TX scheduler. An output batch is applied in a fixed order
(application.cc:859): transport statistics, TX outputs (guard resets, then
requests, then the first `request_done`), stream profiles, logs and dialogs,
samples, plot, and the scheduler once more.

## 2. Plan

Order of work, by what depends most on who runs first. Done:

1. `ScriptWorker` with its abstract specification `RxLedger`;
   `ScriptWorkerProofs`.
2. `TxScheduler` with its abstract specification `RequestLife`;
   `TxSchedulerProofs`.
3. `RecordRotation`: session, volumes and catalogue with a crash between any
   two commits, with imports, pins and retention, against `RecordLog`, an
   abstract log of records; `RecordRotationProofs`.
4. `FrameParser`: the parser against a reference scan of the whole stream;
   `FrameParserProofs`.
5. `Connection`: connection generations, take-over, posted writes that meet the
   next client; composed with the event pump and the worker's acceptance;
   `ConnectionProofs`.
6. `OfflineReplay`: timeline, rounds, and the second worker;
   `OfflineReplayProofs`.
7. `DataImport`: the import task, the application and the load of a package's
   protocol; `DataImportProofs`.

Left: the two queues of the store and its key-value commands; protocol reload in
`TxScheduler` (application.cc:298-317, which discards outputs as a close may); the ring of
samples.

## 3. Modules

| module | what it is |
|---|---|
| `SeqPick` | the subsequence of a sequence at a set of positions; used for clearing bytes out of a queue (`ScriptWorker`, `TxScheduler`, `Connection`) |
| `SeqPickProofs` | its type, length, elements and order, proved |
| `ScriptWorker` | the worker thread and the calls the application makes |
| `RxLedger` | what the worker promises about received bytes |
| `ScriptWorkerProofs` | exact counters, an empty worker after a stop, the refinement of `RxLedger`, and what `waitIdle`, a reload, a snapshot of the counters and a blocking post rely on, proved |
| `MCScriptWorker` | configurations and sets of calls for TLC |
| `TxScheduler` | scheduler, transport and host as three threads |
| `RequestLife` | what the scheduler promises about requests |
| `MCTxScheduler` | the root module of its runs |
| `TxSchedulerProofs` | types, the bound of the queue, half-duplex and the guard; the refinement of `RequestLife`, and who waits for an answer and who gets it, proved |
| `RecordRotation` | the record storage: session, volumes, catalogue, snapshots |
| `RecordLog` | what the storage promises about records |
| `MCRecordRotation` | the root module of its runs |
| `RecordRotationProofs` | all its safety properties and the refinement of `RecordLog`, proved |
| `FrameParser` | ring, headers, lengths, checks, fields and resynchronisation of the parser |
| `MCFrameParser` | schemas for TLC |
| `FrameParserProofs` | the frames are those of a scan of the whole stream, no byte is lost without a report, the parser always has room, fields lie in their frame, proved |
| `Connection` | I/O thread, event pump and acceptance by the worker |
| `MCConnection` | the root module of its runs |
| `ConnectionProofs` | every byte once, in order and on its own connection, and the nesting of the callbacks, proved |
| `OfflineReplay` | the timeline of a capture, its rounds and its worker |
| `MCOfflineReplay` | captures for TLC |
| `OfflineReplayProofs` | the order and the profiles of what is drawn, and that a drain draws all of it, proved |
| `DataImport` | import task, application and script worker |
| `MCDataImport` | the root module of its runs |
| `DataImportProofs` | types, order of application, silence after a cancel and the return of the worker to what the panel shows, proved |

### 3.1 ScriptWorker

The state of `Impl` is one variable per field the control depends on. Every
lock section is one step, so that everything the other thread can see in
between is a state: `pushCommand` appends in one step and raises the wake flag
in another (`Signal`); `pushBytes` accepts, signals, and checks the watermark in
three steps; `publishOutputs` waits and publishes; the counters of a command in
execution are settled after its output is published and before it is
reported finished (`Settle`, `Finish`, `Fulfil`). `pc` is the program counter of
the worker thread, `at` and `resume` those of the application thread inside a
call.

Condition variables are modelled with their losses: a waiter re-evaluates its
predicate only after a notification (`outNotified`, `rxNotified`) or, for the
poster, after a spurious wake-up that nothing is entitled to. Which step
notifies whom is copied from the code, the missing notifications included.

Bytes are numbered in the order of acceptance and a chunk is the set of its
numbers: merging is union, size is cardinality, and the ledger below can be
stated without a payload. A callback into Lua is one step that may leave an
output or not, except that a callback on bytes always leaves one (it reports
transport statistics). The calls differ only in what they wait for: the
fire-and-forget callbacks are one action (`Post`), the synchronous ones two
(`sync`, answered in the command; `toggle`, answered after the publication).

An exception ends the thread between two places: out of the callback on bytes after these
were subtracted (`ThrowOnBytes`, script_runtime_worker.cc:754 and 760), out of any other command
before it had an effect on the counters (`ThrowElsewhere`).

`RxLedger` is the abstract specification: bytes arrive in order, wait, and are
delivered in order or dropped. `ImplementsLedger` is the refinement: what waits
there is what is queued here or in the hand of the worker. The ledger knows the order of
bytes and not their connections: that a chunk is not merged into one of another connection is
seen by it only where the merge also overtakes.

### 3.2 TxScheduler

`queue`, `write`, `half` and `halted` are the four fields of the application.
`step` and `batch` are the application inside a handler: between two steps of a
handler the other threads run. `pulled`, `events` and `posted` are the queues between
application and transport; `toHost`, `exec` and `fromHost` those between
application and worker, without the budgets and the back-pressure, which are
`ScriptWorker`'s. `awaiting` is `requestAwaitingCompletion_` in the host.

`request_done` carries no request in the code (script_host_core.cc:4512). The
model keeps, as history only, for which attempt the host accepted the call; no
guard reads it except the bound `OneDone`, which states that a script counts
its answers. `wire`, `written`, `ended`, `issued` and `doneFor` are history too.
`NoneAssumption` says that `None`, an empty slot, is no request, command, call or batch.

`pumpOnce` is not one step: its stages may run in any order and stop anywhere,
which covers every setting of the event and flush budgets. Time is not
modelled: a deadline may pass whenever a request waits, provided that nothing
that could carry its answer is in flight (`NoAnswerInFlight`, the condition at
application_transport.cc:1912-1927).

`link` is the transport as the scheduler meets it: a failed write or read (`ReadFails`: a TCP
client or a serial port, which report no close) leaves it in its error state, a lost client of
the TCP server without a peer. The two directions of a socket end apart: a write may
succeed on a client whose read side has ended. `enqueueSend` refuses a request with
an empty payload (`Empty`) as it refuses one without a peer.

Closing has two branches (application_transport.cc:429). Without `discard_backlog_on_disconnect` the
received bytes that were pulled are kept. With it, in responsive mode (`MayDiscard`), pulled
events are dropped, and `clearPendingRealtimeOutputs` has the application wait (`step =
"clearing"`) until the worker has run every command it was given, while all output batches, those
published meanwhile too, are thrown away with the requests, guard resets and calls of `request_done`
in them (`Cleared`). A request in such a batch never ends: nobody has accepted it. It is kept in
the history variable `discarded`.

Abstractions: a callback calls `request_done` at most once (only the first of a
batch counts, application_transport.cc:1868); received bytes carry no content; batches with nothing
but logs or samples, which a tick may publish, are left out (they hold a deadline up
as any batch does); the loss of a TCP client and the arrival of the next one are two steps, a
take-over is the one followed by the other; live mode only. The same backlog is
cleared by a reload and when a capture is loaded or left (application.cc:311,
application_replay.cc:288 and 337, application_wave.cc:424 and 620); of these the reload is in
`ScriptWorker`, and the others belong to the offline mode; none is in this module.

`RequestLife` is the abstract specification: requests are made, become active
one at a time and in order, are sent again only before every later request, and end at most
once; a request that was never sent may be forgotten, and then it neither is sent nor
ends. `ImplementsRequestLife` is the refinement.

`EndsInAnyTraffic`, that every request ends or is discarded whatever the device does, is not so:
`processRequestTimeouts` looks at a deadline only when no received byte is pulled, queued
or in execution and no output waits (application_transport.cc:1913-1924), and a device that goes on
sending may leave it no such moment (`tx_stream.cfg`). Strong fairness of `RequestTimesOut` would hide
that, and so would a bound on what the device sends in all; the code justifies neither.
So `Receive` and `PostCall` may go on for ever, `MaxRx` and `MaxCalls` bound only what is under way
at a time, the deadline has weak fairness, and `EveryRequestEnds` states the condition: from some moment on
the device sends nothing and the script publishes nothing (`FallsSilent`). Ticks and controls may
still follow each other without an end, as the comment at application_transport.cc:1912 has it.

### 3.3 RecordRotation

A volume is a directory `vol-<identity>` with an owner file and a database. Here
it is a record: how far it exists (`unused`, `dir`, `blank`, `active`, `sealed`,
and the stages of its deletion) and the ids it holds. `session` is
`RecordSessionState`; `index`, `retiring`, `high`, `allocated` and `importNext`
are the tables `volumes` and `metadata` of the catalogue.

One step is one committed SQLite transaction or one change of a directory. A
rotation is eight of them: the session notes the identity and the first id of
the next volume (`Prepare`), the directory, the file and the first transaction
of that volume are made (`MakeDirectory`, `MakeFile`, `Fill`), the old one is sealed
and indexed (`Seal`, `Index`), the session's pointer moves (`Point`). An append is
three: ids are reserved in the catalogue, the records are written, the session
notes the position (`Reserve`, `Write`, `Position`). `Crash` may fall after each of
them, `Fail` in the place of each of them; the constructors that run at the next
start are the actions of `Opening`, which use the same steps of the rotation.
`pc` is where the thread is, `ctx` for whom it rotates: a batch, a pending rotation
found at start, or a renewal.

The second thread of the store takes snapshots, imports and retires volumes at
any moment at which it can have the locks: not while the active volume is being
replaced (the query service's mutex, `Switching`), not while a retirement runs (the
mutex of the catalogue, `retire`). A retirement deletes a volume in stages and may
itself be cut short. After a crash nothing in memory is left; after `Close` the
snapshots that somebody holds are; after `Suspend`, which a
protocol reload uses, the snapshots and the query service survive, and
`queried`, the volume the service reads, may differ from the session's.

Abstractions: a snapshot holds references until it is released (the cache
that expires unused ones is the release); the boundary checks of a reopened
database are that its state and its ids fit; records have no content, so that
the schemas of a volume are one choice, `Reconcile(differs)`; a store that refuses to
open stays closed, since nothing it does would change what is on disk.

`RecordLog` is the abstract specification: live ids grow from below, imported ones
from above, records are given up by retention only. `ImplementsRecordLog` is the
refinement: what is stored there is what a restart would serve here.

### 3.4 FrameParser

The parser has no concurrency: a step is one push, one run-time length, one
clearing of them or a reset. What is hard is that the outcome must not depend on
how the bytes were cut into pushes, so that the model keeps the ring as the
code has it (cells, head, size, the two pieces of an append and of a growth) and
the loop of `pushBytes` (`Parse`) with its candidates, the longest first. Bytes
are digits of a base and integers have `IntBits` bits, so that lengths,
products and the ends of fields overflow where the code's do. A checksum is one
byte, the sum; formats of numbers and the texts of errors are left out.

A count is a fixed number or an expression: the sequence of its nodes, each of
which names those it is computed from by their places before its own, with all nine
operators of the code (`CountOf`). Loops and recursion of the code are recursive
functions here (`Parse`, `DecodeFields`, `SumOf`), so that they can be reasoned
about. `ParserAssumption` says what the loader of a script checks of a schema
(`SchemaOk`, from `stream_schema_module.cc`). It does not compare headers and
length fields with the capacity of the buffer, so that a schema may declare a frame
that never arrives; `WithinReach` names those that do.

Not modelled: signed length fields, floating-point fields, maps of channels, and
the warning of a buffer that is nearly full.

`Scan` is the reference: the stream read once from its start, one byte
skipped where no frame begins. `FramesAsScanned` compares with it under the conditions
under which the code promises it: no header is complete before the end of another
(`Unambiguous`), no run-time lengths, nothing overwritten.

### 3.5 Connection

`transport` is the open transport with the connection it has, its generation,
the read that is outstanding and those that the system completed but whose
handler has not run (`done`); `pending` and `chunks` are the queues of the
application, `commands` that of the worker. Kind "stream" stands for TCP client,
serial port and UDP, "server" for the TCP server, whose `Accept` takes over or
rejects and whose `ReadDone` compares generations. One step is one handler of the
I/O thread, one event that the application passes on (`Pump`) or one command
of the worker (`Run`). A chunk is split by the budget of the pump and by what the
worker accepts, and its rest stays in front. Bytes are numbered in the order in
which peers send them and a chunk is the set of its numbers, as in
`ScriptWorker`: its first bytes are those with the lowest numbers (`FirstOf`).
`NoneAssumption` says that `None` is no transport. `origin`, `received`, `lost`, `told` and `heard` are history.

### 3.6 OfflineReplay

`replay` is `rawCaptureReplay_`, `worker` the offline worker with its input, the
command in its hand and its outputs, `pending` the samples that wait for the
budget of the application. A round of `pumpRawCaptureReplay` is not one step:
`stage` is where it is, and the worker runs in between, which is what the guards on
control events are for. Every budget may be used up anywhere (`LeaveLoop`,
`Flushes`). A piece of the waveform is an event, a slice of it and the profile
under which it was parsed, so that order and profile can be compared with the
capture (`Expected`). `Faithful` and `DrainedMeansShown` are proved for every capture
(section 5).

`Risky` adds what the user can do and what breaks the properties below; the
passing run leaves it empty, and each is shown by a configuration of its own:

* "pause in preparation" (`replay_pause.cfg`): pausing while the protocol is loaded ends
  the phase `Preparing`, and the timeline goes on over a display that was not cleared.
* "resume failed" (`replay_failed.cfg`): a timeline that failed is played or stepped
  further, past a profile that never took effect or a display never prepared.
* "resume cancelled" (`replay_cancelled.cfg`): cancelling an export takes the offline
  worker away; played again, the timeline waits for a worker that is not there.
* "step ahead" (`replay_step.cfg`): a single step does not look at the fence nor
  at the outputs, so that a profile or a setup is stepped over the bytes before it.

### 3.7 DataImport

`task` is the status of `DataTransferTask` with its stop token, `queue` its
batches, `reader` the place of its thread. `app` is the generation of the import in
the application: the batch it holds while a protocol is loaded, the ticket of
that load, the one of a load that retires. `panel` is what the application shows,
`worker` what the script worker has and is still to do, `answers` the answers to
its loads. Batch 0 is the metadata; the batches of data carry no content. An
operation of the task under its lock is one step. `cancel` is several: the status and
the queue under the lock, then the request to stop (`RequestStop`), then what the
application does after it (`EndCancel`); so is `fail`, which is `cancel` and then
the error under the lock again (`EndFail`); `app.call` says which of the two the application
is in. Between the halves the thread still pushes: a batch that it pushes after the status says
"canceled" carries the mark `late`, a history variable that no guard reads, and it stays in
the queue and is taken by later rounds like any other, metadata included. So
`CanceledIsQuiet` does not say that nothing is applied after a cancel, which the code does
not do (`QuietAtOnce`, `import_slow_cancel.cfg`), but that nothing
that was read before it is, and `AppliedInOrder` bounds the rest: one contiguous
piece of the file, of the same import, behind what was applied, and no longer than
the queue. A round takes one
batch, since its budgets may end it after each. An error of the file, of the
metadata, of a load, of the application of a package and of the hand-over of records to a
replay (`HandOverFails`) is possible wherever the code can throw or refuse; a hand-over that
failed leaves a timeline behind, so that the next round ends the import and does not hand over
again. Synchronous hand-over of records without a replay cannot fail: a transport is refused while
an import is active (application_transport.cc:358).

`Risky` is here, too, what the passing run leaves out, a single thing:

* "slow round" (`import_slow_round.cfg`): the round that sees the protocol loaded has used
  up its time, and a cancel falls before the next one applies the metadata: the
  panel and the worker then differ.

### 3.8 Faults

Definitions marked "Fault" are plausible mistakes; no action uses them. Put in
the place of the definition that follows, each makes the property named in
`PROJECT.json` fail.

## 4. Runs

| run | what it shows | about |
|---|---|---|
| `worker_pump` | `RxAccounting`, `SnapshotIsSound`, `ReloadStartsClean`, `ImplementsLedger` | two connections, three bytes, clear and reload |
| `worker_calls` | `WaitIdleIsBarrier`, `StoppedIsEmpty` | synchronous and asynchronous modes, a budget that shrinks under queued bytes, exceptions, stop |
| `worker_live` | `RxBound`, `CallsReturn`, `RxSettles` | either the poster or the publisher may block |
| `worker_lost_wakeup` | `PostReturns` fails | a close clears the bytes a poster waits for |
| `tx_life` | `TypeOK`, `QueueBound`, `OneAtATime`, `ImplementsRequestLife`, `DoneCompletesCurrent` | three requests, one of them empty, two attempts, a queue of two, eviction, a close that discards |
| `tx_link` | `WaitsOnlyForWritten`, `HostAgreesWhoWaits`, `HaltedGuardHoldsBack` | two openings, a lost peer, late writes, failed reads, duplicated answers, a guard reset, a close that discards |
| `tx_live` | `EveryRequestEnds` | three requests, retries, failed writes and reads, closes that discard, any number of chunks and ticks |
| `record_rotation` | `TypeOK`, `EachRecordOnce`, `SnapshotIntact`, `StartsUnlessHalfMade`, `ImplementsRecordLog`, `SnapshotIsExact` | four volumes, four ids, a crash and a failure, a snapshot held |
| `frame_parser` | `FramesAsScanned`, `StreamIntact`, `NeverStarves`, `FieldsInPayload` | every input of six bytes over three digits, in every split, under five schemas |
| `conn_pump` | `EachByteOnce`, `BytesOfTheirOwn`, `ActiveIsCurrent`, `CallbacksNest`, `BytesArrive` | two connections, three bytes, two openings, a take-over or a rejection |
| `offline_replay` | `Faithful`, `DrainedMeansShown`, `ReplaySettles` | six events of every kind, five calls of the user, loads and profiles that fail |
| `data_import` | `AppliedInOrder`, `WorkerAgrees`, `CanceledIsQuiet`, `ImportEnds` | three imports of four batches through a queue of two |

Fourteen more configurations demonstrate what section 6 describes; they are
expected to end with a counterexample: `worker_mutual_wait`, `tx_late_write`,
`tx_late_done`, `tx_stream`, `record_restart`, `parser_split_frame`, `conn_unheard_close`,
`replay_pacing`, `replay_pause`, `replay_failed`, `replay_step`,
`replay_cancelled`, `import_slow_cancel`, `import_slow_round`.

**Bounds.** Three bytes suffice to have one in the callback, one queued and one
refused, and a chunk that is split by the watermark; two commands suffice for a
call and one that overtakes or follows it; two connections for bytes that are
stale. The budgets are chosen so that every watermark is reached: a limit of
four bytes with watermarks at two and one. An output queue of one batch is full as
soon as one callback has run. In the scheduler two or three requests with a queue
of two fill the queue, evict from it and leave one behind the one in progress; two
attempts give one retry; two openings let the result of a write of the first
meet the second. One chunk and one tick under way at a time give all places where an answer can
be, and as many of them after each other as the device and the application like; `tx_link`, with two
openings and a lost peer, has no received bytes and answers from ticks. In the storage four ids let a live and an imported range meet;
four volumes give a sealed, an active and a pending one and one that was
imported or retired; one crash and one failure, in any order and at any step,
give every single fault, a fault in the recovery from a crash and a crash after
a fault that left the rotation half way. In the parser six bytes are a frame and
a half in a ring of four, so that the ring wraps, grows and overflows; three
digits suffice for two headers that overlap and a filler; five-bit integers overflow
in a product of a received byte. In `Connection` a read of two bytes is split by
a budget of two and a worker that accepts one; a second connection is a take-over
or a new client, a second opening meets what the first left. In the replay six
events have a profile before and after bytes, a setup between samples and a
legacy event of two slices; five calls are, for instance, a load, a seek, a seek
during it, a pause and a step. In the import three batches of data overrun a queue of
two, and three imports let the load that was given up in the first meet the
second and third.

`MaxCrashes`, `MaxFaults`, `MaxSnapshots`, `MaxBurst`, `MaxCalls`, `MaxRx`,
`MaxOpens`, `MaxDrops`, `MaxResets`, `MaxConns`, `MaxExtras`, `MaxInput`,
`MaxChunk` and `MaxImports` bound the environment only (`MaxCalls` and `MaxRx` what it has under
way at a time, the others what it does in all); `MaxVolumes` stops the
program too, when no identity is left, and `MaxId` stands for the largest 64-bit
integer. No other action of the program is guarded by a bound except through the
number of requests, bytes or commands it makes.

**Deadlock.** The check is off where the system really stops: in
`worker_calls` an exception has ended the worker while the application waits for
it; in `record_rotation` a store that refuses to open stays as it is, and a
rotation stops where the volumes of the model are used up; in `conn_pump`,
`offline_replay` and `data_import` nothing is left to do once the user makes no
more calls.

**Fairness.** `ScriptWorker`: weak fairness of the worker thread and of the
application inside a call (the operating system runs both; a notified waiter
proceeds); strong fairness of draining, because every round of `pumpOnce` drains
outputs whenever the application is not inside a call; weak fairness of joining, because
`stop` joins right after it has asked to stop. Submitting work is not fair, nor is the
spurious wake-up. `TxScheduler`: weak fairness of the I/O thread (a
posted write returns: the code has no deadline for it, see the hazards), of the worker, and
of every stage of `pumpOnce` including the deadline (a waiting request times out
if nothing is in flight from some moment on: section 3.2). `Connection`: weak fairness of the pump, which runs in
every frame, and of the worker thread. `OfflineReplay`: weak fairness of the
worker and of the rounds; strong fairness of the steps inside a round that
submit, end a seek and see a failed fence, because a round looks at them
before its budget is used up, and every frame has a round. `DataImport`: weak fairness of the
thread that reads the file, of the worker and of the rest of a cancel or a failure, which is the
same call; strong fairness of the rounds, because the user's clicks fall between frames and
every frame pumps. The device, the user and the peer are not fair.

## 5. What is proved

For all values of the constants that satisfy `TxAssumption` and `NoneAssumption` (any queue length,
any number of attempts, any overflow policy, any script behaviour the model
allows), in `TxSchedulerProofs`:

* `TypeCorrect`: `Spec => []TypeOK`. Attempts stay within `max_attempts`; a
  request, an event or a command is always made of ids that were issued.
* `QueueBounded`: `Spec => []QueueBound`. Queue, write and waiting request
  together never exceed `max_pending`, retries included.
* `HalfDuplex`: `Spec => []OneAtATime`.
* `GuardHoldsBack`: `Spec => HaltedGuardHoldsBack`.

The argument is one inductive invariant,
`IInv == TypeOK /\ BatchInHand /\ OneAtATime /\ QueueBound`. `QueueBound` alone is
not inductive: that a retry fits follows from the place its own request frees,
and handing over frees a place in the queue only while nothing is in flight, which
is `OneAtATime`. `TypeOK` alone is not inductive either: applying a batch reads
`batch.requests`, so that the application must have a batch in hand whenever
it applies one (`BatchInHand`). There is one lemma per action and one for the
commands that cancel; stuttering and the steps of the I/O thread that touch none
of these variables are covered by one frame lemma. `GuardHoldsBack` needs only the types:
the single step that appends to `wire` is `HandOver`, and its guard refuses.

Its second part follows a request through the queues of the three threads, for the same
values of the constants:

* `RequestsLive`: `Spec => ImplementsRequestLife`, the refinement of `RequestLife`.
* `WaitsForWritten`, `HostAgrees`: `WaitsOnlyForWritten` and `HostAgreesWhoWaits` always
  hold.
* `DoneFindsItsRequest`: `Spec => DoneCompletesCurrent`, assuming `OneSession`.
* `RetriesArePromised`: `Spec => RetryingMeansRequeued`, assuming that no write exceeds its
  timeout. Without that it is false, as `tx_late_write` shows (section 6).

That requests are sent in order needs to know of every request where it stands. `InLine`
says that a request is in one place only - in progress, queued, in the batch in hand or
in a batch on its way - and that these places follow each other in the order in which
the script made the requests; `Attempts` that what was sent of a request were earlier
attempts, or the one in progress; `Unended` that nothing that somebody still works on has
ended. Each action is then one of the moves of `RequestLife` (make, send, repeat, end, forget) or a
stutter, and one lemma per move does the mapping.

A result carries an id, and a retry has the id of the attempt before it. `Piped` says that
a request is underway in the transport at most once, and not while it waits or is to be sent
again; `Answers` that a result with the id of the active write is therefore its result, and that
a result other than a rejection is of a write that was made. So a result that a cancelled
write left behind is ignored because its id is gone for good.

What the host knows is read off the commands that are on their way to it. `HeardBy(q, n, a, b)`
says that after the first `n` commands of `q` a host that awaited `a` awaits `b`; the lemmas say how
commands are joined, taken and cleared. `Posts` is what every step of the application and the
transport does: it posts commands that lead from who waited before the step to who waits after
it (`StepPosts`, with a case for each of the actions that post). `Hearing`, that all
commands together lead the host to who waits, is then inductive.

`request_done` names no request, so that `DoneCompletesCurrent` rests on timing. `OneSession` says
that the script calls it only from the callback on received bytes and at most once for an
attempt, that the transport is opened once, and that no peer is lost. Under it `DoneOnce` says that
at most one call is on its way, and that it is for the request that waits; `BytesHeard` that
a chunk finds the host awaiting nobody, an attempt the script has answered already, or
the one that waits. A request cannot time out meanwhile because `processRequestTimeouts` looks for
bytes and batches on their way (`NoAnswerInFlight`). TLC refutes the property when any
of the four is dropped: a second call for one attempt, or a call from another callback, meets
the next request; and a cancel, on a disconnect or when the transport is opened again, does not look
for answers on their way.

`SeqPickProofs` proves, for every sequence and every set of positions, what
`Pick` returns; `TypeCorrect` rests on it for the commands a close removes, and
`ScriptWorkerProofs` for the bytes that are cleared from the queue.

`ScriptWorkerProofs` proves of `ScriptWorker`, for all connections, configurations and
bounds that satisfy `WorkerAssumption`, exceptions of the host included:

* `CountersExact`: `Spec => []RxAccounting`.
* `EmptyWhenStopped`: `Spec => []StoppedIsEmpty`.
* `ImplementsTheLedger`: `Spec => ImplementsLedger`, the refinement of `RxLedger`.

`RxAccounting` is not inductive: that the counter drops by the size of the chunk handed
to the callback is right only if no other chunk holds one of its bytes, and that a merge
adds the size of the chunk only if its bytes are new. `Ordered` says so: the chunks in the queue follow each
other in the order of arrival, behind the one in hand, which is behind all that was
parsed, and no byte is numbered above `accepted`. This is also what the ledger asks
of a delivery. The lemmas about `QueuedBytes` say what an append, a merge, a `Head` and
`Tail` and a clear do to the bytes of a queue and to their order; each action is
then one of three moves, `NoBytes`, `NewBytes` or `FrontBytes`, and a move is a step
of the ledger or a stutter. `EmptyWhenStopped` needs `Halting` as well: a stopping
application is in no call that still has a command to post.

Its second part proves the other four invariants of `ScriptWorker`, on top of that:

* `SnapshotSound`, `WaitIdleIsABarrier`, `ReloadsStartClean`: `SnapshotIsSound`,
  `WaitIdleIsBarrier` and `ReloadStartsClean` always hold.
* `QueueBounded`: `Steady => (Spec => []RxBound)`.

A snapshot needs `Traced`, where a byte can be: still in the queue or in the hand
of the worker, given up, or parsed; and if it is parsed, carried by the batch that is being
published, in an output, or seen. `Produced` adds that a batch carries only bytes of its
command, which is still counted in `executingRx`: it is because `Settle` comes after
`PublishOutputs` that no byte falls between the two counters. That a batch differs from no batch is
`NoneAssumption`.

The two calls need that an answer belongs to the question. A caller that timed out
leaves its command in the queue, and the next call posts another. `Numbered` says
that tickets grow along the queue, behind the one in hand, and that only issued
tickets are answered. So the command of the current call is the last one (`Asked`), and
when the worker takes it nothing is left behind it. For `waitIdle` it stays so until
`AwaitReturns` (`Idling`), because only the application posts; for a reload the clear is
answered in the step that empties the outputs, and from then on nothing is published
(`Clearing`).

`RxBound` needs `Throttled`: while the queue is above its watermark a poster blocks, or is
about to look, or the worker is stopping. `Steady` says that no call changes the configuration, that
the high watermark is not 0 and that the mode is not synchronous. `RxBound` is false
without each of them, as TLC shows with four chunks of one byte: the budget shrinks under a queue that was
within the larger one; a watermark of 0 blocks nobody (`PosterBlocks`); and in synchronous mode a
post waits for the answer to `waitIdle` and not for the watermark, so that after a timeout the next
chunk comes on top.

`DataImportProofs` proves of `DataImport`, for every length of file, every
limit of the queue and any number of imports:

* `ImportTypeCorrect`: `Spec => []TypeOK`, without further assumptions.
* `AppliesInOrder`: `Spec => []AppliedInOrder`, assuming `Whole`.
* `CancelsQuietly`: `Spec => CanceledIsQuiet`, assuming `Whole`.

`Whole` is what the run assumes too: no round is cut in two
(`Risky = {}`), and a file has a batch of data besides its metadata. It says nothing of
cancels and failures, whose halves every other step may come between. Without the first part
`WorkerReturns` is false (section 3.7); without the second so is `AppliesInOrder`: a package
without data that is cancelled during its load has already been taken from the
queue in full, and reports success having applied nothing.

The inductive invariant is `IInv == TypeOK /\ Inv`, with eight parts. Those batches that are
not late, shown, held and queued in this order, are consecutive (`Chain`), and together as many as
the thread has read, unless the task was cancelled (`Counted`); so a batch that is
taken is the next one, and when the queue is empty after the end of the file all
of it has been shown. `Order` compares any two of them, late or not: their places in the
file increase, and after a late one without a gap. `LateOnes` says that after a cancel the queue has late batches only, `Window`
that between the halves no round takes any and that the queue ends where the thread reads on,
which is why they are contiguous and fit the queue. `Reading` ties the place of the thread to the status,
`Agreement` says that batches exist only after the user agreed, and `Quiet` where the
application may be inside a cancel or a failure. One lemma for the thread, one for the
user and one for the round, each with a case per action.

The last is `WorkerReturns`: `Spec => []WorkerAgrees`, assuming `Whole`. `WorkerAgrees` speaks of a worker with nothing to do, and is far from
inductive: what matters is what the commands in the queue will lead to.
`WorkerInv` therefore says, of the queue: each load in it carries a ticket
of its own that is not answered (`Ticketed`); while a package is loaded there is no other load
(`Loading`); after an import was given up the load of the old protocol is the last one, its
answer decides, and the metadata of the file is gone, so that a late batch starts no
other load (`Retiring`); otherwise there is none and the two agree (`Idling`); the
last configuration in the queue, or that of the worker if there is none, is the one shown,
except during a load (`Configured`). `Ends` and `Loads` and the lemmas about them say how
an `Append` and a `Tail` change this.

`RecordRotationProofs` proves of `RecordRotation`, for any number of volumes, ids,
crashes, failures and snapshots:

* `StorageTyped`, `IdsAreUnique`, `SnapshotsStayIntact`, `OtherStartsSucceed`: `TypeOK`,
  `EachRecordOnce`, `SnapshotIntact` and `StartsUnlessHalfMade` always hold.
* `SnapshotsAreExact`: `Spec => SnapshotIsExact`.
* `StorageIsALog`: `Spec => ImplementsRecordLog`, the refinement of `RecordLog`.

The inductive invariant has seven parts besides the properties. `DiskTyped` and `ThreadTyped` are
the types; `Phases` says what the thread has in hand at each of its steps. `Disk` and
`Progress` say how far each volume exists on disk at each step of a rotation, and so what
a start finds after a crash there: this is why `StartsUnlessHalfMade` needs them.
`EachRecordOnce` rests on `Division`: ids written live lie below `high` or between it and
what is reserved, imported ones lie above `importNext`, and an indexed volume is wholly on one side, so
that a new id, from below or from above, is in no volume. `Held` keeps the volumes of a
snapshot whole and out of retirement. Frame lemmas say what a step leaves alone that
touches neither the records (`RecordsFrame`) nor the ids (`LedgerFrame`); in the
refinement a write, an import and a retirement are steps of the log and everything else,
crashes and failures included, is a stutter (`LogStutters`).

`ConnectionProofs` proves of `Connection`, for any number of connections, bytes,
openings and writes and for every budget:

* `EachByteIsOnce`, `BytesAreTheirOwn`, `ActiveIsTheOne`: `EachByteOnce`,
  `BytesOfTheirOwn` and `ActiveIsCurrent` always hold.
* `CallbacksAreNested`: `Spec => CallbacksNest`.

None of them is inductive. `Kept` is `EachByteOnce` queue by queue and `Own` is
`BytesOfTheirOwn` of the elements. Both need `Reads`: the reads that are completed follow all
that was reported, and those of the present generation are of the present connection; this is
what the comparison of generations in `ReadDone` keeps. That no filter refuses a byte
needs `Lines`, which says where each of the three threads takes the connection to be:
read in order, the commands lead from what the script was told to the active
connection, unless that is closed, and the waiting events from the active connection to that of
the transport (`Follows`, `Ends`). So a byte in the queue of the worker is of the
connection told of just before it, and a byte among the events of the connection that will be
active then. The lemmas say how such a line behaves when queues are joined
(`ConcatFollows`), when one event is taken or added (`OneLess`, `AppendFollows`), when a close
clears the bytes (`WithoutBytesFollows`), and what a part of a chunk is (`TakePart`, by
`Rank`).

`OfflineReplayProofs` proves of `OfflineReplay`, for every capture, every number of slices
and any calls of the user:

* `ReplayIsFaithful`: `Spec => []Faithful`, assuming `Careful`.
* `DrainShowsAll`: `Spec => DrainedMeansShown`, assuming `Risky = {}`.

`Careful` leaves out three of the four things of section 3.6 that the user can do: pausing a
preparation, resuming what failed, stepping ahead. Each makes `Faithful` false, as
`replay_pause.cfg`, `replay_failed.cfg` and `replay_step.cfg` show. Playing on after a cancelled transfer
spoils nothing that is drawn, so that it is allowed; but it leaves a drain without its
worker, which then ends with less than all drawn, and `DrainShowsAll` leaves it out as well.

The heart of the invariant is `DisplayOK`: what is drawn, what waits in front of the
plot, the outputs of the worker, the callback in its hand and the commands in its input
are, one behind the other, exactly what the timeline has submitted
(`shown \o OnTheWay = Submitted`). A flush, a turn of the worker and a publication move a
piece along this row, and a submitted event comes behind it; but only if the worker
parses a command under the profile it was recorded with. This is `ProfileOK`: a change of
profile is alone on its way, because a control event waits until everything before it is
drawn and the fence holds back what comes after it. A setup is drawn at once, past
the row, which is right only because the row is empty then. `Unprepared` says that before the
display is cleared nothing was submitted; `DrawingOK` that the worker may draw until the timeline is
complete; `NothingRuns` that without a worker nothing is left in the row. When the worker was taken
away the row is lost, and what was drawn before is still the beginning of
what was submitted, which is what `Faithful` needs.

`Expected` is a `FlattenSeq`, a recursive function, and what it computes for the next event
takes an induction. The library's induction theorems take an operator, which the installed
provers cannot instantiate. `NatSet` is the same for a set: a set of naturals with 0 and the successors of
its members is all of them, by counting (`FS_Injection` and the pigeonhole of the library). With it,
that a function with the equations of `FlattenSeq` exists and is the only one is proved for
this one function (`FlattensExists`, `FlattensAgree`), and `FlattenStep` is all that is used of it.

`FrameParserProofs` proves of `FrameParser`, for every schema that satisfies `ParserAssumption`,
every base and width of the integers, and any sequence of pushes, settings and resets:

* `StreamStaysIntact`: `Spec => []StreamIntact`.
* `ParserNeverStarves`: `Spec => []NeverStarves`.
* `FieldsStayInPayload`: `Spec => []FieldsInPayload`.
* `FramesAreAsScanned`: `Spec => []FramesAsScanned`.
* `PlainFramesSurviveSplits`: `Spec => [](Unambiguous => SplitsDoNotMatter)`. Run
  `parser_split_frame` shows that `SplitsDoNotMatter` fails for a header that two frames
  share; for all schemas of `Unambiguous` it holds.

The first three follow from one invariant, `IInv` (`ParserInvariant`). The ring is well formed and within
`max_capacity`, what it holds is the end of the stream, the events account for every other byte,
frames lie apart and in order behind each other, and the fields of each lie before its
check. It is stated of a ring, a list of events and a length of stream (`EndOf`, `Accounts`), so
that the same formula speaks of the state between two pushes and of the middle of the loop. One
push is an append and a loop: the lemmas about the ring say that growing keeps its
contents, that `DiscardFront` removes from the front, and that an append in two pieces puts the
bytes behind those that remain, wherever the head is and with or without `drop_oldest`. Then
`PassKeeps`, one pass of the loop, has a case for each way it ends: noise is skipped, a
candidate waits, fails or is cut out.

`ParserNeverStarves` needs two facts more. A pass that does not end the loop takes at least a byte,
so that after as many passes as there are bytes the loop has ended or the ring is empty; and a
ring that waits has fewer bytes than `capacity`: a candidate that needs more bytes has a
length that was found valid, or has not got its length field yet, which lies within the buffer
by `WithinReach`. Without `WithinReach` the second half is false: the schema `Flags` has a
length field beyond the buffer, and the parser waits for it with the ring full.

The loop, the decoding of fields and the sum of the counts are unfolded by the same `NatSet` as
above, used for each of these functions on its own.

`FramesAsScanned` is not inductive: that the frames found are those of a scan of the bytes so far
says nothing of a frame whose end has not come. `ScanInv` says it of every stream that goes on where
this one ends (`Tracks`): each scan of it is the frames reported, followed by its frames from the
first byte that waits. It says besides that what waits holds no complete frame in a scan of the bytes
so far (`Settled`); the two together are `FramesAsScanned`. `Scan` chooses a function with a
recursive equation; `ScanIs` proves that there is one and that it has the equations `IsScan`, which
is all the rest uses. Both parts are carried through one pass of the loop (`PassFollows`), the
whole loop (`ParseFollows`) and a push (`PushFollows`). The steps that carry them:

* more bytes change no answer that was "parsed" or "error" (`AnalyzeStable`): digits, check,
  counts and fields depend on the bytes of the frame alone (`DigitsSame`, `SumSame`,
  `DecodeFieldsSame`);
* at most one frame of the schema has its header at a place (`OneHead`), so that the choice among
  candidates is the analysis of that one (`FrontIs`); here `Unambiguous` is needed;
* a header that only a longer stream completes cannot hide in front of one that is complete
  (`NothingHides`, `NothingBefore`): it would contain it, which `Unambiguous` excludes. So what is
  skipped as noise is skipped by every scan. And where no header is complete, the last
  `MaxHeader - 1` bytes stay, and one that has yet to be completed starts among them;
* a frame of the scan can be missing only where the oldest bytes are overwritten. That
  leaves an overflow event (`Lossy`), and the property excludes it. Without `drop_oldest` the bytes
  refused are the newest ones and no part of the stream.

`PlainFramesSurviveSplits` applies the same lemmas about the loop to a ring that takes the whole stream
at once (`TakesAll`, `AllFollows`); `Bounded` says that a stream is no longer than that ring.

With this every invariant, action property and refinement that a passing run checks is proved, except
what this prover cannot reach. Only model-checked are the liveness properties
(`CallsReturn`, `RxSettles`, `EveryRequestEnds`, `BytesArrive`, `ReplaySettles`, `ImportEnds`), which
rest on fairness and ENABLED, and the disagreements of section 6.

## 6. Where the code and its documents disagree

* `worker_lost_wakeup`: `clearQueuedRxLocked` (script_runtime_worker.cc:600) notifies
  nobody. A poster blocked on the high watermark whose bytes a close, reset or
  load clears sleeps although the queue is empty.

The rest is demonstrated by configurations that are not among the runs:

* `worker_mutual_wait`: bytes detached from a closed connection are posted with the blocking
  call by the application thread (application_transport.cc:1721), which is the only
  thread that drains the outputs. With a bounded output queue both threads wait.
* `tx_late_write`: a guarded request whose write was late is reported to the script
  with `guard_state = "retrying"`, but only `processRequestTimeouts` re-queues;
  `protocols/README.md:518` promises the next attempt.
* `tx_late_done`: the deadline looks for received bytes in flight only; a
  `request_done` on its way from a TX callback, which names no request, completes the next one.
* `tx_stream`: a device that streams may keep every deadline from being looked at
  (section 3.2). The comment at application_transport.cc:1912 excuses the wait for received bytes and
  promises only that ticks do not hold a deadline up, which `EveryRequestEnds` confirms.
* `record_restart`: `RecordVolume::create` makes the directory of the pending
  volume, then its database, then the first transaction. A crash or a full disk
  between the first and the last makes the next start fail, and every later
  one: without a database file the directory cannot be made again, and one
  without the transaction has no identity. The comment in `finishPending`
  (record_volume_coordinator.cc:80) says that the pending identity suffices to retry;
  the tests cover a prepared identity, a complete volume and a sealed and indexed
  source, but not this stage, and `docs/industrial-storage-progress.md:60` lists it as not yet
  accepted. `StartsUnlessHalfMade` shows that, within the bounds,
  it is the only such stage (a start that needs a new volume is refused as well
  when the ids are used up).
* `parser_split_frame`: of two frames with a common header the longer one is preferred
  (the test `prefers_longer_same_header_candidate`), but only if its bytes are there: the
  same bytes in two pushes give the shorter frame. The code cannot wait without
  delaying every short frame. `PlainFramesSurviveSplits` (section 5) proves that
  this cannot happen where the headers tell the frames apart (`Unambiguous`).
* `conn_unheard_close`: closing a transport, or opening the next one, discards the events
  that were not pulled; a connection whose open was told may get no close, while
  `docs/user-manual.md:434` has `on_close(ctx, reason)` called when the connection closes.
* `replay_pacing`: `seekRawCaptureReplay` replaces the pacing by "fast" until the seek
  ends, but a seek to the start or to the end never ends that way and a second
  seek saves the replaced value, so that "继续回放" no longer plays "按原始时间轴"
  (offline_replay_dock.cc:225, main_menu.cc:120).
* `replay_pause`, `replay_failed`, `replay_step`, `replay_cancelled`: section 3.6;
  `docs/module-design.md:360` has the event stream replayed along its timeline.
* `import_slow_cancel`: a batch that is pushed between the two halves of a cancel or of a failure
  (data_transfer_task.cc:22-33, 43-48) is applied afterwards, and metadata that is
  pushed there even loads the protocol of the package and configures the worker with it.
* `import_slow_round`: section 3.7; the comment at
  application_data.cc:758 says that a cancelled preparation must not commit anything.

Not shown by a configuration, but met while modelling: without `drop_oldest` a full
ring refuses the newest bytes, while the report of frame_stream_parser.cc:692 says
that the oldest were dropped; `importReset_` and `importProfile_` are read and never
assigned; after a failure that follows a successful load the panel keeps the
package's protocol although the message says that the old data is kept; where no
protocol was loaded before, that of a cancelled package stays in the worker.

## 7. What is not modelled

Lua itself and the API modules other than `proto.send`, `request`,
`request_done` and `reset_request_guard`; socket I/O; the content of bytes
except in the parser; time; the migration of an old record database, the
key-value store and the queues of the storage; the offline mode and the reload in
the scheduler; in the replay the protocol switch, the files of a package and the
speed; in the import the one that is parsed again (it becomes a replay), exports
and the synchronous import of a package.

The rebuild of the history is left out because nothing of it interleaves: one
task computes rows with the parser (`FrameParser`) from a copy, and its generation is
compared before they are taken. The waveform, the user interface, the
configuration, the dock stores and most of the Lua API are sequential code:
rendering, parsing, formatting and floating-point mathematics, which the
repository's tests cover better than a model would. They make up most of the
source, which is why the definitions of these modules stand for a small share of its
lines: they cover the places where threads, queues, crashes and budgets meet.
The components without a module, with the reason, are in `PROJECT.json`.
