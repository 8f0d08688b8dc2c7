---------------------------- MODULE ScriptWorker ----------------------------
(***************************************************************************)
(* ScriptRuntimeWorker: the thread that owns the Lua host, and the         *)
(* application (UI) thread that talks to it.  Commands travel through one  *)
(* FIFO queue, results come back through a bounded queue of output         *)
(* batches, and received bytes are counted from the moment they are        *)
(* accepted until the output of their callback is published.               *)
(*                                                                         *)
(* Received bytes are numbered 1, 2, 3, ... in the order in which the      *)
(* worker accepts them, and a chunk is the set of its byte numbers: its    *)
(* size is its cardinality.  The last five variables are history: they     *)
(* record what became of every byte and constrain nothing but the bounds.  *)
(*                                                                         *)
(* A definition marked "Fault" is the definition after it with a           *)
(* plausible mistake; no action uses it, and checking a run with it in     *)
(* place of the right one shows which property catches the mistake.        *)
(***************************************************************************)
EXTENDS SeqPick

CONSTANTS
    Conns,        \* connection ids that carry live traffic
    Detached,     \* the context of bytes whose connection is gone (readyForIo = false)
    None,         \* no connection, no command, no batch
    Configs,      \* worker configurations the application may apply
    Ops,          \* the calls the application thread makes
    MaxBytes,     \* bound: bytes accepted in a behaviour
    MaxChunk,     \* bound: bytes offered by one call
    MaxCommands,  \* bound: commands without bytes posted in a behaviour
    MayThrow      \* whether a host callback may kill the worker thread

AllOps == {"try", "push", "post", "open", "close", "configure", "reset",
           "sync", "toggle", "idle", "clear", "reload", "drain", "stop"}

ConfigType == [rxLimit : Nat, memory : Nat \ {0}, highPct : Nat, lowPct : Nat,
               outLimit : Nat, batch : Nat, enabled : BOOLEAN, backpressure : BOOLEAN]

ASSUME WorkerAssumption ==
    /\ Configs \subseteq ConfigType /\ Configs # {}
    /\ Ops \subseteq AllOps
    /\ MaxBytes \in Nat /\ MaxChunk \in Nat /\ MaxCommands \in Nat
    /\ MayThrow \in BOOLEAN
    /\ Detached \notin Conns /\ None \notin Conns /\ None # Detached

\* None is not the output of a callback.
ASSUME NoneAssumption == \A bytes \in SUBSET (1 .. MaxBytes) : bytes # None

VARIABLES
    cfg, commands, outputs, pendingRx, executingRx,   \* Impl, under its mutex
    warning, stopping, executing, failed,
    answered,     \* tickets of the promises that have been fulfilled
    wake,         \* wakeRequested, under waitMutex
    pc, cmd, out, active,                             \* the worker thread
    outNotified,  \* it was notified while waiting on outputBackpressureChanged
    at, resume, ticket, waitLow,                      \* the application thread
    rxNotified,   \* it was notified while waiting on rxBackpressureChanged
    accepted, issued, parsed, seen, lost              \* history

mutexVars == <<cfg, commands, outputs, pendingRx, executingRx, warning, stopping,
               executing, failed, answered, wake>>
workerVars == <<pc, cmd, out, active, outNotified>>
appVars == <<at, resume, ticket, waitLow, rxNotified>>
history == <<accepted, issued, parsed, seen, lost>>
vars == <<mutexVars, workerVars, appVars, history>>

Smaller(a, b) == IF a <= b THEN a ELSE b
Larger(a, b) == IF a >= b THEN a ELSE b

-----------------------------------------------------------------------------
(* Budgets and watermarks.                                                  *)

RxBudget(c) == IF c.rxLimit = 0 THEN c.memory ELSE Smaller(c.rxLimit, c.memory)

Watermark(budget, pct) ==
    IF pct >= 100 THEN budget ELSE (budget * pct) \div 100

HighWater(c) ==
    IF ~c.backpressure THEN RxBudget(c)
    ELSE IF c.highPct = 0 THEN 0
    ELSE Larger(1, Watermark(RxBudget(c), c.highPct))

LowWater(c) ==
    IF ~c.backpressure THEN HighWater(c)
    ELSE Smaller(HighWater(c), Watermark(RxBudget(c), c.lowPct))

OutputsFull == cfg.outLimit > 0 /\ Len(outputs) >= cfg.outLimit

-----------------------------------------------------------------------------
(* Commands.  Only "bytes" carries a chunk; a ticket names the promise of   *)
(* a command and is the number of the command.                              *)

Command(op, conn, rx, config) ==
    [op |-> op, conn |-> conn, rx |-> rx, config |-> config, ticket |-> issued + 1]

QueuedBytes(q) == UNION {q[i].rx : i \in DOMAIN q}

WithoutBytes(q) == Pick(q, {i \in DOMAIN q : q[i].op # "bytes"})

\* Fault: bytes in execution are not counted.
CountsNothing(c) == 0

\* What a command adds to executingRxBytes.
Counted(c) == Cardinality(c.rx)

NextBytes(n) == (accepted + 1) .. (accepted + n)

\* Fault: a chunk overtakes the queue.
EnqueueInFront(conn, rx, merge) ==
    <<Command("bytes", conn, rx, None)>> \o commands

\* Append a chunk, or merge it into a chunk of the same context at the tail
\* of the queue when the two fit in one batch.
Enqueue(conn, rx, merge) ==
    LET tail == commands[Len(commands)]
    IN  IF /\ merge /\ commands # <<>>
           /\ tail.op = "bytes" /\ tail.conn = conn
           /\ Cardinality(tail.rx) + Cardinality(rx) <= cfg.batch
        THEN [commands EXCEPT ![Len(commands)].rx = @ \cup rx]
        ELSE Append(commands, Command("bytes", conn, rx, None))

\* Fault: cleared bytes stay in the queue.
ClearsPartly ==
    /\ commands' = commands
    /\ pendingRx' = pendingRx - Smaller(pendingRx, Cardinality(QueuedBytes(commands)))
    /\ lost' = lost \cup QueuedBytes(commands)

\* clearQueuedRxLocked: neither notifies rxBackpressureChanged nor resets the
\* warning.
ClearQueuedRx ==
    /\ commands' = WithoutBytes(commands)
    /\ pendingRx' = pendingRx - Smaller(pendingRx, Cardinality(QueuedBytes(commands)))
    /\ lost' = lost \cup QueuedBytes(commands)

InOutputs(q) == UNION {q[i] : i \in DOMAIN q}

\* Fault: waiters are not notified.
NotifiesNoPublisher == outNotified' = outNotified
NotifiesNoPoster == rxNotified' = rxNotified

NotifyPublisher == outNotified' = (outNotified \/ pc = "outWait")
NotifyPoster == rxNotified' = (rxNotified \/ at = "rxWait")

-----------------------------------------------------------------------------
(* The application thread.                                                  *)

AppIdle(op) == at = "idle" /\ op \in Ops

SignalThen(next) ==
    /\ at' = "signal"
    /\ resume' = next

\* pushCommand: the lock section; the wake flag is raised by Signal.
PushCommand(c, next) ==
    /\ issued < MaxCommands
    /\ commands' = Append(commands, c)
    /\ issued' = issued + 1
    /\ SignalThen(next)
    /\ UNCHANGED <<cfg, outputs, pendingRx, executingRx, warning, stopping, executing,
                   failed, answered, wake, workerVars, waitLow, rxNotified,
                   accepted, parsed, seen, lost>>

Signal ==
    /\ at = "signal"
    /\ wake' = TRUE
    /\ at' = resume
    /\ UNCHANGED <<cfg, commands, outputs, pendingRx, executingRx, warning, stopping,
                   executing, failed, answered, workerVars, resume, ticket, waitLow,
                   rxNotified, history>>

\* Control, menu, table, tick, TX event, dialog and transport-error commands:
\* a callback into the host and nothing else.  A stopping worker drops them.
Post ==
    /\ AppIdle("post") /\ ~stopping
    /\ PushCommand(Command("post", None, {}, None), "idle")
    /\ UNCHANGED ticket

PostOpen(c) ==
    /\ AppIdle("open") /\ ~stopping
    /\ PushCommand(Command("open", c, {}, None), "idle")
    /\ UNCHANGED ticket

PostClose(c) ==
    /\ AppIdle("close") /\ ~stopping
    /\ PushCommand(Command("close", c, {}, None), "idle")
    /\ UNCHANGED ticket

\* configure and applyBudgetSettingsAsync.
Configure(c) ==
    /\ AppIdle("configure") /\ ~stopping
    /\ PushCommand(Command("configure", None, {}, c), "idle")
    /\ UNCHANGED ticket

PostReset ==
    /\ AppIdle("reset") /\ ~stopping
    /\ PushCommand(Command("reset", None, {}, None), "idle")
    /\ UNCHANGED ticket

\* runSync (setControlValue, profile events, oscilloscope toggle) and waitIdle
\* poll a promise; a stopping worker drops the command and the caller times out.
Await(op) ==
    /\ AppIdle(op) /\ ~stopping
    /\ ticket' = issued + 1
    /\ PushCommand(Command(op, None, {}, None), IF op = "idle" THEN "awaitIdle" ELSE "await")

AwaitReturns ==
    /\ at \in {"await", "awaitIdle"}
    /\ ticket \in answered \/ failed
    /\ at' = "idle"
    /\ UNCHANGED <<mutexVars, workerVars, resume, ticket, waitLow, rxNotified, history>>

\* The 30 s limit: the caller gives up, the command stays in the queue.
AwaitTimesOut ==
    /\ at \in {"await", "awaitIdle"}
    /\ ticket \notin answered
    /\ at' = "idle"
    /\ UNCHANGED <<mutexVars, workerVars, resume, ticket, waitLow, rxNotified, history>>

\* pushBytes: accept the whole chunk, then wait for the queue to drain.
PushBytes(conn, n, merge) ==
    /\ AppIdle("push") /\ ~stopping
    /\ n > 0 /\ accepted + n <= MaxBytes
    /\ pendingRx' = pendingRx + n
    /\ commands' = Enqueue(conn, NextBytes(n), merge)
    /\ accepted' = accepted + n
    /\ SignalThen(IF cfg.enabled THEN "rxCheck" ELSE "idleCall")
    /\ UNCHANGED <<cfg, outputs, executingRx, warning, stopping, executing, failed,
                   answered, wake, workerVars, ticket, waitLow, rxNotified,
                   issued, parsed, seen, lost>>

\* Synchronous mode: waitIdle after every chunk.
IdleAfterPush ==
    /\ at = "idleCall"
    /\ ticket' = issued + 1
    /\ commands' = Append(commands, Command("idle", None, {}, None))
    /\ issued' = issued + 1
    /\ SignalThen("awaitIdle")
    /\ UNCHANGED <<cfg, outputs, pendingRx, executingRx, warning, stopping, executing,
                   failed, answered, wake, workerVars, waitLow, rxNotified,
                   accepted, parsed, seen, lost>>

\* Fault: the poster blocks at the budget, not at the watermark.
BlocksAtBudget == cfg.backpressure /\ HighWater(cfg) > 0 /\ pendingRx > RxBudget(cfg)

PosterBlocks == cfg.backpressure /\ HighWater(cfg) > 0 /\ pendingRx > HighWater(cfg)

\* waitUntilRxQueueBelowLowWatermark up to its wait.
CheckRxQueue ==
    LET blocks == PosterBlocks
        warns == blocks /\ ~warning
    IN  /\ at = "rxCheck"
        /\ at' = IF blocks THEN "rxWait" ELSE "idle"
        /\ waitLow' = LowWater(cfg)
        /\ rxNotified' = FALSE
        /\ warning' = (warning \/ blocks)
        /\ outputs' = IF warns /\ ~OutputsFull THEN Append(outputs, {}) ELSE outputs
        /\ UNCHANGED <<cfg, commands, pendingRx, executingRx, stopping, executing, failed,
                       answered, wake, workerVars, resume, ticket, history>>

RxWaitOver == stopping \/ pendingRx <= waitLow

\* A notified poster re-evaluates its predicate under the lock.
RxWake ==
    /\ at = "rxWait" /\ rxNotified
    /\ rxNotified' = FALSE
    /\ at' = IF RxWaitOver THEN "idle" ELSE at
    /\ warning' = (warning /\ pendingRx > waitLow)
    /\ UNCHANGED <<cfg, commands, outputs, pendingRx, executingRx, stopping, executing,
                   failed, answered, wake, workerVars, resume, ticket, waitLow, history>>

\* A condition variable may wake without a notification; nothing makes it do so.
RxSpuriousWake ==
    /\ at = "rxWait" /\ ~rxNotified /\ RxWaitOver
    /\ at' = "idle"
    /\ warning' = (warning /\ pendingRx > waitLow)
    /\ UNCHANGED <<cfg, commands, outputs, pendingRx, executingRx, stopping, executing,
                   failed, answered, wake, workerVars, resume, ticket, waitLow,
                   rxNotified, history>>

\* The queue has been at its high watermark and is not yet down to the low one.
Hot == warning /\ pendingRx > LowWater(cfg)

AcceptablePrefix(n) ==
    IF pendingRx < HighWater(cfg) /\ ~Hot THEN Smaller(n, HighWater(cfg) - pendingRx) ELSE 0

\* tryPushBytes: the prefix of n bytes that fits below the high watermark is
\* accepted in the lock section that checks it; a queue that reached the
\* watermark takes nothing until it is down to the low one.
TryPushBytes(conn, n) ==
    LET high == HighWater(cfg)
        count == AcceptablePrefix(n)
        heats == cfg.backpressure /\ ~Hot /\ pendingRx + count >= high
        warns == heats /\ ~OutputsFull
    IN  /\ AppIdle("try") /\ ~stopping /\ cfg.enabled
        /\ n > 0 /\ high > 0 /\ accepted + count <= MaxBytes
        /\ warning' = (Hot \/ heats)
        /\ pendingRx' = pendingRx + count
        /\ commands' = IF count > 0 THEN Enqueue(conn, NextBytes(count), FALSE) ELSE commands
        /\ accepted' = accepted + count
        /\ outputs' = IF warns THEN Append(outputs, {}) ELSE outputs
        /\ IF count > 0 \/ warns THEN SignalThen("idle") ELSE UNCHANGED <<at, resume>>
        /\ UNCHANGED <<cfg, executingRx, stopping, executing, failed, answered, wake,
                       workerVars, ticket, waitLow, rxNotified, issued, parsed, seen, lost>>

\* drainOutputs and drainOneOutput.
Drain(n) ==
    /\ AppIdle("drain")
    /\ n \in {1, Len(outputs)} /\ outputs # <<>>
    /\ outputs' = SubSeq(outputs, n + 1, Len(outputs))
    /\ seen' = seen \cup InOutputs(SubSeq(outputs, 1, n))
    /\ NotifyPublisher
    /\ UNCHANGED <<cfg, commands, pendingRx, executingRx, warning, stopping, executing,
                   failed, answered, wake, pc, cmd, out, active, appVars,
                   accepted, issued, parsed, lost>>

\* Fault: a reload does not wait for the clear to be answered.
LoadsWithoutWaiting(op) ==
    /\ AppIdle(op) /\ op \in {"clear", "reload"} /\ ~stopping
    /\ ticket' = issued + 1
    /\ PushCommand(Command("clear", None, {}, None),
                   IF op = "clear" THEN "awaitClear" ELSE "load")

\* clearPendingRealtimeOutputs: post the command, then keep draining until it
\* is answered, so that a full output queue cannot hold up the worker.  A
\* protocol reload clears first and loads afterwards.
ClearOutputs(op) ==
    /\ AppIdle(op) /\ op \in {"clear", "reload"} /\ ~stopping
    /\ ticket' = issued + 1
    /\ PushCommand(Command("clear", None, {}, None),
                   IF op = "clear" THEN "awaitClear" ELSE "awaitReload")

AwaitingClear == at \in {"awaitClear", "awaitReload"}

DiscardWhileWaiting ==
    /\ AwaitingClear /\ ticket \notin answered /\ ~failed
    /\ outputs # <<>>
    /\ outputs' = <<>>
    /\ lost' = lost \cup InOutputs(outputs)
    /\ NotifyPublisher
    /\ UNCHANGED <<cfg, commands, pendingRx, executingRx, warning, stopping, executing,
                   failed, answered, wake, pc, cmd, out, active, appVars,
                   accepted, issued, parsed, seen>>

\* An exception out of the call is logged by the reload, which goes on to load.
ClearReturns ==
    /\ AwaitingClear
    /\ ticket \in answered \/ failed
    /\ at' = IF at = "awaitClear" THEN "idle" ELSE "load"
    /\ UNCHANGED <<mutexVars, workerVars, resume, ticket, waitLow, rxNotified, history>>

\* On a stopping worker the queue is cleared at once.
ClearStopped ==
    /\ AppIdle("clear") /\ stopping /\ outputs # <<>>
    /\ outputs' = <<>>
    /\ lost' = lost \cup InOutputs(outputs)
    /\ UNCHANGED <<cfg, commands, pendingRx, executingRx, warning, stopping, executing,
                   failed, answered, wake, workerVars, appVars,
                   accepted, issued, parsed, seen>>

\* loadProtocolDirectory: waits on the future without a limit.
PostLoad ==
    /\ at = "load"
    /\ ticket' = issued + 1
    /\ commands' = Append(commands, Command("load", None, {}, None))
    /\ issued' = issued + 1
    /\ SignalThen("awaitLoad")
    /\ UNCHANGED <<cfg, outputs, pendingRx, executingRx, warning, stopping, executing,
                   failed, answered, wake, workerVars, waitLow, rxNotified,
                   accepted, parsed, seen, lost>>

LoadReturns ==
    /\ at = "awaitLoad" /\ ticket \in answered
    /\ at' = "idle"
    /\ UNCHANGED <<mutexVars, workerVars, resume, ticket, waitLow, rxNotified, history>>

\* requestStop, then its three notifications; stop also joins the thread.
RequestStop ==
    /\ AppIdle("stop") /\ ~stopping
    /\ stopping' = TRUE
    /\ at' = "stopSignal"
    /\ UNCHANGED <<cfg, commands, outputs, pendingRx, executingRx, warning, executing,
                   failed, answered, wake, workerVars, resume, ticket, waitLow,
                   rxNotified, history>>

NotifyStop ==
    /\ at = "stopSignal"
    /\ wake' = TRUE
    /\ NotifyPublisher
    /\ at' = "idle"
    /\ UNCHANGED <<cfg, commands, outputs, pendingRx, executingRx, warning, stopping,
                   executing, failed, answered, pc, cmd, out, active, resume, ticket,
                   waitLow, rxNotified, history>>

Join ==
    /\ at = "idle" /\ "stop" \in Ops /\ stopping
    /\ at' = "joining"
    /\ UNCHANGED <<mutexVars, workerVars, resume, ticket, waitLow, rxNotified, history>>

Joined ==
    /\ at = "joining" /\ pc \in {"done", "failed"}
    /\ at' = "stopped"
    /\ UNCHANGED <<mutexVars, workerVars, resume, ticket, waitLow, rxNotified, history>>

-----------------------------------------------------------------------------
(* The worker thread.                                                       *)

PopCommand ==
    /\ pc = "pop" /\ commands # <<>>
    /\ cmd' = Head(commands)
    /\ commands' = Tail(commands)
    /\ executingRx' = executingRx + Counted(cmd')
    /\ executing' = TRUE
    /\ pc' = "run"
    /\ UNCHANGED <<cfg, outputs, pendingRx, warning, stopping, failed, answered, wake,
                   out, active, outNotified, appVars, history>>

\* Fault: a stopping worker leaves its queue behind.
ExitsAtOnce ==
    /\ pc = "pop" /\ (commands = <<>> \/ stopping)
    /\ pc' = IF stopping THEN "done" ELSE "sleep"
    /\ UNCHANGED <<mutexVars, cmd, out, active, outNotified, appVars, history>>

NoCommand ==
    /\ pc = "pop" /\ commands = <<>>
    /\ pc' = IF stopping THEN "done" ELSE "sleep"
    /\ UNCHANGED <<mutexVars, cmd, out, active, outNotified, appVars, history>>

WakeUp ==
    /\ pc = "sleep" /\ wake
    /\ wake' = FALSE
    /\ pc' = "pop"
    /\ UNCHANGED <<cfg, commands, outputs, pendingRx, executingRx, warning, stopping,
                   executing, failed, answered, cmd, out, active, outNotified,
                   appVars, history>>

Running(op) == pc = "run" /\ cmd.op = op

\* subtractPendingRxBytes, then the callback unless the bytes belong to another
\* connection than the active one.  A callback on bytes always yields a batch,
\* because it reports transport statistics.
RunBytes ==
    LET stale == active # None /\ cmd.conn # Detached /\ cmd.conn # active
        left == pendingRx - Smaller(pendingRx, Cardinality(cmd.rx))
    IN  /\ Running("bytes")
        /\ pendingRx' = left
        /\ warning' = (warning /\ left > LowWater(cfg))
        /\ IF left < pendingRx THEN NotifyPoster ELSE UNCHANGED rxNotified
        /\ active' = IF stale \/ cmd.conn = Detached THEN active ELSE cmd.conn
        /\ parsed' = IF stale THEN parsed ELSE parsed \cup cmd.rx
        /\ lost' = IF stale THEN lost \cup cmd.rx ELSE lost
        /\ out' = IF stale THEN None ELSE cmd.rx
        /\ pc' = "publish"
        /\ UNCHANGED <<cfg, commands, outputs, executingRx, stopping, executing, failed,
                       answered, wake, cmd, outNotified, at, resume, ticket, waitLow,
                       accepted, issued, seen>>

\* A callback that may or may not leave something to publish, and answers
\* the promise of a synchronous call.
RunCallback(emits) ==
    /\ pc = "run" /\ cmd.op \in {"post", "open", "sync", "toggle"}
    /\ out' = IF emits THEN {} ELSE None
    /\ active' = IF cmd.op = "open" THEN cmd.conn ELSE active
    /\ answered' = IF cmd.op = "sync" THEN answered \cup {cmd.ticket} ELSE answered
    /\ pc' = "publish"
    /\ UNCHANGED <<cfg, commands, outputs, pendingRx, executingRx, warning, stopping,
                   executing, failed, wake, cmd, outNotified, appVars, history>>

\* Fault: waitIdle is answered before the command has finished.
AnswersIdleEarly ==
    /\ Running("idle")
    /\ out' = None
    /\ answered' = answered \cup {cmd.ticket}
    /\ pc' = "publish"
    /\ UNCHANGED <<cfg, commands, outputs, pendingRx, executingRx, warning, stopping,
                   executing, failed, wake, cmd, active, outNotified, appVars, history>>

RunIdle ==
    /\ Running("idle")
    /\ out' = None
    /\ pc' = "publish"
    /\ UNCHANGED <<mutexVars, cmd, active, outNotified, appVars, history>>

RunClose(emits) ==
    /\ Running("close")
    /\ ClearQueuedRx
    /\ active' = IF active = cmd.conn THEN None ELSE active
    /\ out' = IF emits THEN {} ELSE None
    /\ pc' = "publish"
    /\ UNCHANGED <<cfg, outputs, executingRx, warning, stopping, executing, failed,
                   answered, wake, cmd, outNotified, appVars,
                   accepted, issued, parsed, seen>>

RunConfigure ==
    /\ Running("configure")
    /\ cfg' = cmd.config
    /\ out' = None
    /\ pc' = "publish"
    /\ UNCHANGED <<commands, outputs, pendingRx, executingRx, warning, stopping, executing,
                   failed, answered, wake, cmd, active, outNotified, appVars, history>>

RunReset ==
    /\ Running("reset")
    /\ ClearQueuedRx
    /\ active' = None
    /\ out' = None
    /\ answered' = answered \cup {cmd.ticket}
    /\ pc' = "publish"
    /\ UNCHANGED <<cfg, outputs, executingRx, warning, stopping, executing, failed,
                   wake, cmd, outNotified, appVars, accepted, issued, parsed, seen>>

RunClear ==
    /\ Running("clear")
    /\ outputs' = <<>>
    /\ lost' = lost \cup InOutputs(outputs)
    /\ answered' = answered \cup {cmd.ticket}
    /\ out' = None
    /\ pc' = "publish"
    /\ UNCHANGED <<cfg, commands, pendingRx, executingRx, warning, stopping, executing,
                   failed, wake, cmd, active, outNotified, appVars,
                   accepted, issued, parsed, seen>>

\* reloadHostProtocol: the queue is cleared before the script loads, the
\* promise is fulfilled before the outputs of the load are published.
RunLoadClear ==
    /\ Running("load")
    /\ ClearQueuedRx
    /\ pc' = "loading"
    /\ UNCHANGED <<cfg, outputs, executingRx, warning, stopping, executing, failed,
                   answered, wake, cmd, out, active, outNotified, appVars,
                   accepted, issued, parsed, seen>>

RunLoad(emits) ==
    /\ pc = "loading"
    /\ active' = None
    /\ answered' = answered \cup {cmd.ticket}
    /\ out' = IF emits THEN {} ELSE None
    /\ pc' = "publish"
    /\ UNCHANGED <<cfg, commands, outputs, pendingRx, executingRx, warning, stopping,
                   executing, failed, wake, cmd, outNotified, appVars, history>>

\* An exception out of a host callback ends the thread with failed = true.  Bytes
\* are subtracted before their callback; nobody gets what it made of them.
ThrowOnBytes ==
    LET left == pendingRx - Smaller(pendingRx, Cardinality(cmd.rx))
    IN  /\ MayThrow /\ Running("bytes")
        /\ pendingRx' = left
        /\ warning' = (warning /\ left > LowWater(cfg))
        /\ IF left < pendingRx THEN NotifyPoster ELSE UNCHANGED rxNotified
        /\ lost' = lost \cup cmd.rx
        /\ failed' = TRUE
        /\ pc' = "failed"
        /\ UNCHANGED <<cfg, commands, outputs, executingRx, stopping, executing, answered,
                       wake, cmd, out, active, outNotified, at, resume, ticket, waitLow,
                       accepted, issued, parsed, seen>>

\* A load promise is destroyed with its command, which releases the caller.
ThrowElsewhere ==
    /\ MayThrow /\ pc \in {"run", "loading"} /\ cmd.op # "bytes"
    /\ failed' = TRUE
    /\ answered' = IF cmd.op = "load" THEN answered \cup {cmd.ticket} ELSE answered
    /\ pc' = "failed"
    /\ UNCHANGED <<cfg, commands, outputs, pendingRx, executingRx, warning, stopping,
                   executing, wake, cmd, out, active, outNotified, appVars, history>>

Throw == ThrowOnBytes \/ ThrowElsewhere

\* publishOutputs: wait for room, unless stopping, which drops the batch.
PublishOutputs ==
    LET blocked == OutputsFull /\ ~stopping
        drops == stopping /\ cfg.outLimit > 0
    IN  /\ pc = "publish" \/ (pc = "outWait" /\ outNotified)
        /\ outNotified' = FALSE
        /\ IF out = None
           THEN pc' = "settle" /\ UNCHANGED <<outputs, lost>>
           ELSE IF blocked
           THEN pc' = "outWait" /\ UNCHANGED <<outputs, lost>>
           ELSE /\ pc' = "settle"
                /\ outputs' = IF drops THEN outputs ELSE Append(outputs, out)
                /\ lost' = IF drops THEN lost \cup out ELSE lost
        /\ UNCHANGED <<cfg, commands, pendingRx, executingRx, warning, stopping, executing,
                       failed, answered, wake, cmd, out, active, appVars,
                       accepted, issued, parsed, seen>>

\* The bytes stop counting as executing only once their output is published.
Settle ==
    /\ pc = "settle"
    /\ executingRx' = executingRx - Smaller(executingRx, Counted(cmd))
    /\ pc' = "finish"
    /\ UNCHANGED <<cfg, commands, outputs, pendingRx, warning, stopping, executing, failed,
                   answered, wake, cmd, out, active, outNotified, appVars, history>>

Finish ==
    /\ pc = "finish"
    /\ executing' = FALSE
    /\ pc' = "fulfil"
    /\ UNCHANGED <<cfg, commands, outputs, pendingRx, executingRx, warning, stopping,
                   failed, answered, wake, cmd, out, active, outNotified, appVars, history>>

Fulfil ==
    /\ pc = "fulfil"
    /\ answered' = IF cmd.op \in {"idle", "toggle"}
                   THEN answered \cup {cmd.ticket} ELSE answered
    /\ pc' = "pop" /\ cmd' = None /\ out' = None
    /\ UNCHANGED <<cfg, commands, outputs, pendingRx, executingRx, warning, stopping,
                   executing, failed, wake, active, outNotified, appVars, history>>

-----------------------------------------------------------------------------
Init ==
    /\ cfg \in Configs
    /\ commands = <<>> /\ outputs = <<>>
    /\ pendingRx = 0 /\ executingRx = 0
    /\ warning = FALSE /\ stopping = FALSE /\ executing = FALSE /\ failed = FALSE
    /\ answered = {} /\ wake = FALSE
    /\ pc = "pop" /\ cmd = None /\ out = None /\ active = None /\ outNotified = FALSE
    /\ at = "idle" /\ resume = "idle" /\ ticket = 0 /\ waitLow = 0 /\ rxNotified = FALSE
    /\ accepted = 0 /\ issued = 0 /\ parsed = {} /\ seen = {} /\ lost = {}

\* New work, which the application may or may not submit.
Submit ==
    \/ Post \/ PostReset
    \/ \E c \in Conns : PostOpen(c) \/ PostClose(c)
    \/ \E c \in Configs : Configure(c)
    \/ \E op \in {"sync", "toggle", "idle"} : Await(op)
    \/ \E op \in {"clear", "reload"} : ClearOutputs(op)
    \/ \E conn \in Conns \cup {Detached}, n \in 1..MaxChunk, merge \in BOOLEAN :
           PushBytes(conn, n, merge)
    \/ \E conn \in Conns, n \in 1..MaxChunk : TryPushBytes(conn, n)
    \/ RequestStop

\* The rest of a call the application has started.
Continue ==
    \/ Signal \/ IdleAfterPush \/ CheckRxQueue \/ RxWake
    \/ AwaitReturns \/ AwaitTimesOut
    \/ DiscardWhileWaiting \/ ClearReturns \/ PostLoad \/ LoadReturns
    \/ NotifyStop \/ Joined

Pump == \E n \in 1..Len(outputs) : Drain(n)

App == Submit \/ Continue \/ Pump \/ RxSpuriousWake \/ ClearStopped \/ Join

Worker ==
    \/ PopCommand \/ NoCommand \/ WakeUp
    \/ RunBytes \/ RunIdle \/ RunConfigure \/ RunReset \/ RunClear \/ RunLoadClear
    \/ \E emits \in BOOLEAN : RunCallback(emits) \/ RunClose(emits) \/ RunLoad(emits)
    \/ PublishOutputs \/ Settle \/ Finish \/ Fulfil

\* The application has stopped the worker and joined its thread.
Stopped == at = "stopped" /\ UNCHANGED vars

Next == App \/ Worker \/ Throw \/ Stopped

Spec == Init /\ [][Next]_vars

\* The operating system runs both threads; every pump drains the outputs; an
\* application that asked for a stop joins.
Fairness ==
    /\ WF_vars(Worker)
    /\ WF_vars(Continue)
    /\ SF_vars(Pump)
    /\ WF_vars(Join)

FairSpec == Spec /\ Fairness

-----------------------------------------------------------------------------
(* Properties.                                                              *)

Accepted == 1..accepted

\* Bytes the worker has taken from the queue and still counts as pending.
InHand == IF pc = "run" THEN cmd.rx ELSE {}

\* pendingRxBytes is exactly the bytes queued or taken but not yet handed to
\* the callback, and executingRxBytes those of the command in progress: none
\* of the saturating subtractions ever hides a miscount.
RxAccounting ==
    /\ pendingRx = Cardinality(QueuedBytes(commands) \cup InHand)
    /\ executingRx = IF pc \in {"run", "loading", "publish", "outWait", "settle", "failed"}
                     THEN Cardinality(cmd.rx) ELSE 0

\* What one snapshot of the counters says is so.  A byte whose result the
\* application has not drained is visible in it, so that a request timeout never
\* misses an answer in flight between the queue, the callback and the output
\* queue; and inputIdle() means that every accepted byte is through its callback
\* and its output published.
SnapshotIsSound ==
    /\ Accepted \ (seen \cup lost) # {} => pendingRx + executingRx + Len(outputs) > 0
    /\ ~executing /\ commands = <<>> =>
           Accepted \subseteq seen \cup lost \cup InOutputs(outputs) /\ pendingRx = 0

\* When waitIdle returns without an error nothing posted before it is left.
WaitIdleIsBarrier ==
    at = "awaitIdle" /\ ticket \in answered =>
        /\ commands = <<>> /\ pendingRx = 0 /\ executingRx = 0 /\ ~executing
        /\ Accepted \subseteq parsed \cup lost

\* A stopped worker leaves no command and no byte counted.
StoppedIsEmpty ==
    pc = "done" => commands = <<>> /\ pendingRx = 0 /\ executingRx = 0 /\ ~executing

\* A reload loads the new protocol only after every output of the old one is
\* gone, so that no request, status or dialog of the old script survives.
ReloadStartsClean ==
    at = "load" /\ ~failed => outputs = <<>> /\ commands = <<>> /\ out = None

\* With backpressure the queue exceeds the high watermark by at most the one
\* chunk whose poster then blocks.
RxBound == cfg.backpressure => pendingRx <= HighWater(cfg) + MaxChunk

\* The worker implements the ledger of received bytes: what waits there is
\* what is queued here or in the hand of the worker.
Ledger == INSTANCE RxLedger WITH
    arrived <- accepted, waiting <- QueuedBytes(commands) \cup InHand,
    delivered <- parsed, dropped <- Accepted \ (parsed \cup QueuedBytes(commands) \cup InHand)

ImplementsLedger == Ledger!Spec

\* A blocking post of received bytes returns.
PostReturns == at = "rxWait" ~> at # "rxWait"

\* Every call that waits for the worker returns, wherever the worker is blocked:
\* stop joins it, clearPendingRealtimeOutputs drains in front of its command, the
\* load of a reload, which drains nothing and waits without a limit, is answered,
\* and a blocking post finds room.
CallsReturn ==
    /\ at = "joining" ~> at = "stopped"
    /\ AwaitingClear ~> ~AwaitingClear
    /\ at = "awaitLoad" ~> at # "awaitLoad"
    /\ PostReturns

\* Every accepted byte is parsed and its result drained, or given up by a
\* close, reset, reload, clear or stop.
RxSettles ==
    \A b \in 1..MaxBytes : b \in Accepted ~> b \in seen \cup lost \/ at = "stopped"
=============================================================================
