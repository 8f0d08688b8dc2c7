--------------------------- MODULE OfflineReplay ---------------------------
(* The timeline of a recorded capture: loading, playing, pausing, stepping  *)
(* and seeking, with a script worker of its own that is thrown away and     *)
(* made anew at every seek.                                                 *)
(* Source: src/app/application_replay.cc.                                   *)
(*                                                                          *)
(* One round of Application::pumpRawCaptureReplay is several steps, between *)
(* which the worker runs; stage is where the application is in it.          *)
EXTENDS Naturals, Sequences, SequencesExt

CONSTANTS
    Capture,       \* the recorded events, a sequence of EventKinds
    Slices,        \* callbacks that a "legacy" event is cut into
    MaxCalls,      \* calls of the user in a run, for TLC
    MayFail,       \* BOOLEAN: a load and a profile event may fail
    Risky          \* what the user does besides, a subset of Risks (README, section 3)

EventKinds == {"rx", "legacy", "tx", "profile", "setup"}

Risks == {"pause in preparation", "resume failed", "resume cancelled", "step ahead"}

ASSUME ReplayAssumption ==
    /\ Capture \in Seq(EventKinds) /\ Capture # <<>>
    /\ Slices \in Nat \ {0} /\ MaxCalls \in Nat
    /\ MayFail \in BOOLEAN /\ Risky \subseteq Risks

VARIABLES
    replay,    \* rawCaptureReplay_
    worker,    \* offlineScriptWorker_
    pending,   \* pendingScriptPlotAppends_
    stage,     \* where the application is in a round: "free" between rounds
    shown,     \* what the waveform was drawn from, in order
    rows,      \* the events with a row in the transfer log, in order
    prepared,  \* history: the display was cleared for this timeline
    chosen,    \* history: the pacing chosen when the timeline was loaded
    calls      \* calls of the user

vars == <<replay, worker, pending, stage, shown, rows, prepared, chosen, calls>>

-----------------------------------------------------------------------------
(* What each event should show                                              *)

Events == DOMAIN Capture
Total == Len(Capture)
HasBytes(i) == Capture[i] \in {"rx", "tx", "legacy"}
IsControl(i) == Capture[i] \in {"tx", "profile", "setup"}   \* type != RxBytes

\* One piece of the waveform: from which event, which slice of it, and under which profile.
Piece(i, part, profile) == [at |-> i, part |-> part, profile |-> profile]

ProfileBefore(i) ==
    LET before == {j \in Events : j < i /\ Capture[j] = "profile"}
    IN  IF before = {} THEN 0 ELSE CHOOSE j \in before : \A k \in before : k <= j

PiecesOf(mode, i) ==
    CASE Capture[i] = "setup" -> <<Piece(i, 0, 0)>>
      [] Capture[i] = "rx" /\ mode = "lua" -> <<Piece(i, 1, ProfileBefore(i))>>
      [] Capture[i] = "legacy" /\ mode = "lua" ->
            [p \in 1 .. Slices |-> Piece(i, p, ProfileBefore(i))]
      [] OTHER -> <<>>

\* What the first k events show, and the rows they leave.
Expected(mode, k) == FlattenSeq([i \in 1 .. k |-> PiecesOf(mode, i)])
ExpectedRows(k) == FlattenSeq([i \in 1 .. k |-> IF HasBytes(i) THEN <<i>> ELSE <<>>])

-----------------------------------------------------------------------------
(* The offline worker: commands in, one batch of output out of each         *)

NoWorker == [alive |-> FALSE, input |-> <<>>, exec |-> <<>>, profile |-> 0, outputs |-> <<>>]
LoadCommand == [op |-> "load", at |-> 0, part |-> 0]
ProfileCommand(i) == [op |-> "profile", at |-> i, part |-> 0]
BytesCommand(i, part) == [op |-> "bytes", at |-> i, part |-> part]
NewWorker == [NoWorker EXCEPT !.alive = TRUE, !.input = <<LoadCommand>>]

InputIdle == worker.input = <<>> /\ worker.exec = <<>>
Idle == InputIdle /\ worker.outputs = <<>>
Posted(w, command) == [w EXCEPT !.input = Append(@, command)]

\* The worker takes a command and runs it. A load and a profile answer their future here,
\* before the output is published; a load may leave output of the script's initialisation.
Take ==
    /\ worker.alive /\ worker.exec = <<>> /\ worker.input # <<>>
    /\ \E ok \in IF MayFail THEN BOOLEAN ELSE {TRUE} :
          LET command == Head(worker.input)
              answer == IF ok THEN "ok" ELSE "bad"
          IN  /\ worker' = [worker EXCEPT
                     !.input = Tail(@), !.exec = <<command>>,
                     !.profile = IF command.op = "profile" /\ ok THEN command.at ELSE @]
              /\ replay' = [replay EXCEPT
                     !.prep = IF command.op = "load" THEN answer ELSE @,
                     !.fence = IF command.op = "profile" /\ command.at = replay.fenceOf
                               THEN answer ELSE @]
    /\ UNCHANGED <<pending, stage, shown, rows, prepared, chosen, calls>>

OutputOf(command) ==
    IF command.op = "profile" THEN <<>>
    ELSE <<Piece(command.at, command.part, worker.profile)>>

\* The output is published; the command counts as running until then.
Publish ==
    /\ worker.alive /\ worker.exec # <<>>
    /\ worker' = [worker EXCEPT !.exec = <<>>,
                                !.outputs = @ \o OutputOf(Head(worker.exec))]
    /\ UNCHANGED <<replay, pending, stage, shown, rows, prepared, chosen, calls>>

-----------------------------------------------------------------------------
(* The state of the timeline                                                *)

Fresh == [loaded |-> FALSE, mode |-> "browse", phase |-> "Paused", playing |-> FALSE,
          index |-> 0, started |-> FALSE, offset |-> 0,   \* events and slices submitted
          target |-> 0, done |-> 0, resume |-> FALSE,
          pacing |-> "timeline", pacingAfter |-> "timeline",
          prep |-> "none", fence |-> "none", fenceOf |-> 0, rebuilding |-> FALSE]

Lua == replay.mode = "lua"
Current == replay.index + 1       \* the event at eventIndex, counted from one
AtEnd == replay.index >= Total
Seeking == replay.target > 0
SeekReached == Seeking /\ replay.index >= replay.target

\* cleanupOfflineReplayResources: the worker retires in the background, nothing of it is seen.
CleanedUp(r) == [r EXCEPT !.prep = "none", !.fence = "none", !.fenceOf = 0, !.rebuilding = FALSE]

\* The display of this timeline starts empty.
ClearDisplay ==
    /\ shown' = <<>> /\ rows' = <<>> /\ pending' = <<>>
    /\ prepared' = TRUE

\* prepareOfflineReplayProtocol and what its callers do after it; without a protocol it refuses.
\* left is what of pendingScriptPlotAppends_ the caller leaves until the display is cleared.
Prepare(r, ok, left) ==
    IF r.mode = "browse"
    THEN /\ replay' = [r EXCEPT !.phase = IF r.playing THEN "Replaying" ELSE "Paused"]
         /\ worker' = NoWorker
         /\ ClearDisplay
    ELSE /\ pending' = left
         /\ replay' = IF ok THEN [r EXCEPT !.phase = "Preparing", !.prep = "waiting"]
                      ELSE [r EXCEPT !.phase = "Failed"]
         /\ worker' = IF ok THEN NewWorker ELSE [NewWorker EXCEPT !.input = <<>>]
         /\ prepared' = FALSE
         /\ UNCHANGED <<shown, rows>>

-----------------------------------------------------------------------------
(* One round: preparing                                                     *)

Pump ==
    /\ stage = "free" /\ replay.loaded
    /\ stage' = CASE replay.phase = "Preparing" -> "preparing"
                  [] replay.phase = "Draining" -> "draining"
                  [] OTHER -> IF Lua THEN "flushing" ELSE "marked"
    \* What the script draws while it is being loaded is thrown away.
    /\ worker' = IF replay.phase = "Preparing" THEN [worker EXCEPT !.outputs = <<>>] ELSE worker
    /\ UNCHANGED <<replay, pending, shown, rows, prepared, chosen, calls>>

\* The load is answered before its output is published, hence the second condition.
Loaded == replay.prep \in {"ok", "bad"} /\ InputIdle

EndPreparation ==
    /\ stage = "preparing"
    /\ stage' = "free"
    /\ IF ~Loaded THEN UNCHANGED <<replay, worker, pending, shown, rows, prepared>>
       ELSE IF replay.prep = "bad"
       THEN /\ replay' = [replay EXCEPT !.prep = "none", !.phase = "Failed", !.playing = FALSE]
            /\ UNCHANGED <<worker, pending, shown, rows, prepared>>
       ELSE /\ ClearDisplay
            /\ worker' = [worker EXCEPT !.outputs = <<>>]
            /\ replay' = [replay EXCEPT
                   !.prep = "none", !.rebuilding = TRUE,
                   !.playing = Seeking \/ @,
                   !.phase = IF Seeking \/ replay.playing THEN "Replaying" ELSE "Paused"]
    /\ UNCHANGED <<chosen, calls>>

-----------------------------------------------------------------------------
(* One round: replaying                                                     *)

\* Outputs are taken while the time lasts, what they draw while its own budget lasts; only the
\* worker of the timeline that is being rebuilt may draw.
Flushes ==
    UNION {LET drawn == pending \o SubSeq(worker.outputs, 1, n)
               left == SubSeq(worker.outputs, n + 1, Len(worker.outputs))
           IN  IF ~replay.rebuilding THEN {[outputs |-> left, pending |-> pending, shown |-> shown]}
               ELSE {[outputs |-> left, pending |-> SubSeq(drawn, k + 1, Len(drawn)),
                      shown |-> shown \o SubSeq(drawn, 1, k)] :
                        k \in IF drawn = <<>> THEN {0} ELSE 1 .. Len(drawn)} :
           n \in IF worker.outputs = <<>> THEN {0} ELSE 1 .. Len(worker.outputs)}

Flush ==
    \E f \in Flushes :
        /\ worker' = [worker EXCEPT !.outputs = f.outputs]
        /\ pending' = f.pending /\ shown' = f.shown

FlushOutputs ==
    /\ stage = "flushing"
    /\ Flush /\ stage' = "flushed"
    /\ UNCHANGED <<replay, rows, prepared, chosen, calls>>

\* Fault: what was parsed is not noted.
KeepsDone == replay.done

\* An idle worker has parsed everything that was submitted.
DoneInputs == IF Idle THEN replay.index ELSE replay.done

MarkDone ==
    /\ stage = "flushed"
    /\ replay' = [replay EXCEPT !.done = DoneInputs]
    /\ stage' = "marked"
    /\ UNCHANGED <<worker, pending, shown, rows, prepared, chosen, calls>>

BeginLoop ==
    /\ stage = "marked"
    /\ IF replay.playing /\ replay.phase \notin {"Failed", "Cancelled"}
       THEN replay' = [replay EXCEPT !.phase = "Replaying"] /\ stage' = "looping"
       ELSE UNCHANGED replay /\ stage' = "free"
    /\ UNCHANGED <<worker, pending, shown, rows, prepared, chosen, calls>>

\* The timeline passes the event; a step past the last one begins to drain, as a round would.
Passed(r) == [r EXCEPT !.index = @ + 1, !.started = FALSE, !.offset = 0,
                       !.phase = IF ~r.playing /\ r.index + 1 = Total THEN "Draining" ELSE @]

\* replayRawCaptureEventAt for a legacy event: the outputs are flushed, and an idle worker is given
\* the next slice; after the last one the timeline passes on.
ReplaySlice(r) ==
    \E f \in Flushes :
        LET i == r.index + 1
            posts == InputIdle /\ r.offset < Slices
        IN  /\ pending' = f.pending /\ shown' = f.shown
            /\ rows' = IF InputIdle /\ ~r.started THEN Append(rows, i) ELSE rows
            /\ worker' = [worker EXCEPT
                   !.outputs = f.outputs,
                   !.input = IF posts THEN Append(@, BytesCommand(i, r.offset + 1)) ELSE @]
            /\ replay' = IF ~InputIdle THEN r
                         ELSE IF posts THEN [r EXCEPT !.started = TRUE, !.offset = @ + 1]
                         ELSE Passed(r)

\* replayRawCaptureEventAt for the others.
ReplayWhole(r) ==
    LET i == r.index + 1
        kind == Capture[i]
        lua == r.mode = "lua"
    IN  /\ UNCHANGED pending
        /\ rows' = IF HasBytes(i) THEN Append(rows, i) ELSE rows
        /\ shown' = IF kind = "setup" THEN Append(shown, Piece(i, 0, 0)) ELSE shown
        /\ worker' = CASE lua /\ kind = "rx" -> Posted(worker, BytesCommand(i, 1))
                       [] lua /\ kind = "profile" -> Posted(worker, ProfileCommand(i))
                       [] OTHER -> worker
        /\ replay' = IF lua /\ kind = "profile"
                     THEN [Passed(r) EXCEPT !.fence = "waiting", !.fenceOf = i]
                     ELSE Passed(r)

ReplayEvent(r) ==
    IF Capture[r.index + 1] = "legacy" /\ r.mode = "lua" THEN ReplaySlice(r) ELSE ReplayWhole(r)

\* Fault: the outputs of the bytes before a control event are not waited for.
PassesWhenParsed == InputIdle

\* A control event takes effect only after everything before it was parsed and drawn.
ControlMayPass == Idle /\ pending = <<>>
FenceOpen == replay.fence \in {"none", "ok"}

\* The loop goes on while nothing holds it; the pacing holds it until the recorded instant.
Submit ==
    /\ stage = "looping" /\ ~AtEnd /\ FenceOpen /\ ~SeekReached
    /\ Lua => /\ worker.alive
              /\ IsControl(Current) => ControlMayPass
              /\ Capture[Current] = "legacy" => InputIdle
    /\ ReplayEvent([replay EXCEPT !.fence = "none"])
    /\ UNCHANGED <<stage, prepared, chosen, calls>>

FenceFails ==
    /\ stage = "looping" /\ ~AtEnd /\ replay.fence = "bad"
    /\ replay' = [replay EXCEPT !.fence = "none", !.phase = "Failed", !.playing = FALSE]
    /\ stage' = "free"
    /\ UNCHANGED <<worker, pending, shown, rows, prepared, chosen, calls>>

\* The target is reached and everything before it was parsed: the seek is over.
EndSeek ==
    /\ stage = "looping" /\ ~AtEnd /\ FenceOpen
    /\ SeekReached /\ (Lua => replay.done >= replay.target)
    /\ replay' = [replay EXCEPT !.fence = "none", !.playing = replay.resume, !.phase = "Draining",
                                !.pacing = replay.pacingAfter, !.target = 0, !.resume = FALSE]
    /\ stage' = "free"
    /\ UNCHANGED <<worker, pending, shown, rows, prepared, chosen, calls>>

\* The loop stops: a budget is used up, the recorded instant has not come, or a guard holds.
LeaveLoop ==
    /\ stage = "looping" /\ ~AtEnd
    /\ stage' = "free"
    /\ UNCHANGED <<replay, worker, pending, shown, rows, prepared, chosen, calls>>

ReachEnd ==
    /\ stage = "looping" /\ AtEnd
    /\ replay' = [replay EXCEPT !.playing = FALSE, !.phase = "Draining"]
    /\ stage' = "draining"
    /\ UNCHANGED <<worker, pending, shown, rows, prepared, chosen, calls>>

-----------------------------------------------------------------------------
(* One round: draining                                                      *)

Drain ==
    /\ stage = "draining"
    /\ CASE replay.fence = "waiting" ->
              stage' = "free" /\ UNCHANGED <<replay, worker, pending, shown>>
         [] replay.fence = "bad" ->
              /\ replay' = [replay EXCEPT !.fence = "none", !.phase = "Failed"]
              /\ stage' = "free" /\ UNCHANGED <<worker, pending, shown>>
         [] OTHER ->
              /\ replay' = [replay EXCEPT !.fence = "none"]
              /\ stage' = "drained"
              /\ IF Lua THEN Flush ELSE UNCHANGED <<worker, pending, shown>>
    /\ UNCHANGED <<rows, prepared, chosen, calls>>

\* Fault: outputs that are published and not drawn yet are forgotten.
DrainedWhenParsed == Lua => InputIdle

Drained == Lua => Idle /\ pending = <<>>

EndDrain ==
    /\ stage = "drained"
    /\ stage' = "free"
    /\ replay' =
          IF ~Drained THEN replay
          ELSE IF AtEnd THEN [replay EXCEPT !.rebuilding = FALSE, !.playing = FALSE,
                                            !.phase = "Completed"]
          ELSE [replay EXCEPT !.phase = IF replay.playing THEN "Replaying" ELSE "Paused"]
    /\ UNCHANGED <<worker, pending, shown, rows, prepared, chosen, calls>>

-----------------------------------------------------------------------------
(* Calls of the user, between two rounds                                    *)

Call ==
    /\ stage = "free" /\ calls < MaxCalls
    /\ calls' = calls + 1 /\ stage' = stage

Outcomes == IF MayFail THEN BOOLEAN ELSE {TRUE}

\* loadRawCaptureReplayTimeline.
Load(mode, pacing, ok) ==
    /\ Call
    /\ Prepare([Fresh EXCEPT !.loaded = TRUE, !.mode = mode, !.pacing = pacing], ok, <<>>)
    /\ chosen' = pacing

\* unloadRawCaptureReplayTimeline.
Unload ==
    /\ Call /\ replay.loaded
    /\ replay' = [Fresh EXCEPT !.phase = "Cancelled"]
    /\ worker' = NoWorker /\ pending' = <<>> /\ prepared' = FALSE
    /\ UNCHANGED <<shown, rows, chosen>>

\* seekRawCaptureReplay: a copy of the timeline starts again in front of the first event.
Sought(target) ==
    CleanedUp([replay EXCEPT
        !.index = 0, !.offset = 0, !.started = FALSE, !.target = target,
        !.resume = replay.playing, !.pacingAfter = replay.pacing, !.pacing = "fast",
        !.playing = target > 0, !.phase = "Paused"])

Seek(target, ok) ==
    /\ Call /\ replay.loaded
    /\ Prepare(Sought(target), ok, pending)
    /\ UNCHANGED chosen

\* cancelDataTransfer, called for an export that runs meanwhile: it takes the worker of the
\* timeline away as well.
CancelTransfer ==
    /\ Call /\ replay.loaded
    /\ replay' = CleanedUp([replay EXCEPT !.phase = "Cancelled", !.playing = FALSE])
    /\ worker' = NoWorker /\ pending' = <<>>
    /\ UNCHANGED <<shown, rows, prepared, chosen>>

\* What is left of a timeline that failed or was cancelled.
Resumable ==
    /\ replay.phase = "Failed" => "resume failed" \in Risky
    /\ Lua /\ ~worker.alive => "resume cancelled" \in Risky

\* playRawCaptureReplay; a completed timeline is played again from its start.
Play(ok) ==
    /\ Call /\ replay.loaded /\ ~replay.playing
    /\ Resumable
    /\ UNCHANGED chosen
    /\ IF replay.phase = "Completed"
       THEN Prepare([Sought(0) EXCEPT !.playing = ok \/ ~Lua], ok, pending)
       ELSE /\ replay' = [replay EXCEPT !.playing = TRUE,
                             !.phase = IF @ = "Preparing" THEN @ ELSE "Replaying"]
            /\ UNCHANGED <<worker, pending, shown, rows, prepared>>

\* pauseRawCaptureReplay; the button is there while the timeline plays.
Pause ==
    /\ Call /\ replay.loaded /\ replay.playing
    /\ replay.phase = "Preparing" => "pause in preparation" \in Risky
    /\ replay' = [replay EXCEPT !.playing = FALSE,
                     !.phase = IF @ \in {"Completed", "Failed"} THEN @ ELSE "Paused"]
    /\ UNCHANGED <<worker, pending, shown, rows, prepared, chosen>>

\* stepRawCaptureReplay; the button is there while events are left.  Without a worker it reports
\* an error.
Step ==
    /\ Call /\ replay.loaded /\ ~AtEnd /\ replay.phase # "Preparing" /\ (Lua => worker.alive)
    /\ Resumable
    /\ "step ahead" \notin Risky => FenceOpen /\ (Lua /\ IsControl(Current) => ControlMayPass)
    /\ ReplayEvent([replay EXCEPT !.playing = FALSE, !.phase = "Paused"])
    /\ UNCHANGED <<prepared, chosen>>

-----------------------------------------------------------------------------
Init ==
    /\ replay = Fresh /\ worker = NoWorker
    /\ pending = <<>> /\ shown = <<>> /\ rows = <<>>
    /\ stage = "free" /\ prepared = FALSE
    /\ chosen = "timeline" /\ calls = 0

Round == Pump \/ EndPreparation \/ FlushOutputs \/ MarkDone \/ BeginLoop \/ Submit \/ FenceFails
         \/ EndSeek \/ LeaveLoop \/ ReachEnd \/ Drain \/ EndDrain

User ==
    \/ \E mode \in {"browse", "lua"}, pacing \in {"timeline", "fast"}, ok \in Outcomes :
          Load(mode, pacing, ok)
    \/ \E target \in 0 .. Total, ok \in Outcomes : Seek(target, ok)
    \/ \E ok \in Outcomes : Play(ok)
    \/ Unload \/ CancelTransfer \/ Pause \/ Step

Next == Take \/ Publish \/ Round \/ User
Spec == Init /\ [][Next]_vars

\* The worker runs; the application pumps in every frame, a round looks at the fence before its
\* budget is used up, and the recorded instant of the next event comes in the end.
FairSpec ==
    /\ Spec
    /\ WF_vars(Take) /\ WF_vars(Publish) /\ WF_vars(Round)
    /\ SF_vars(Submit) /\ SF_vars(EndSeek) /\ SF_vars(FenceFails)

-----------------------------------------------------------------------------
(* Properties                                                               *)

\* What is seen was made of the events of this timeline, in their order, each slice once and under
\* the profile that was in force when it was recorded; a plot setup falls between the samples
\* before it and those after it, and nothing of the script's initialisation is drawn.
Faithful ==
    /\ replay.loaded /\ replay.index > 0 => prepared
    /\ prepared =>
          /\ IsPrefix(shown, Expected(replay.mode, Total))
          /\ rows = ExpectedRows(IF replay.started THEN Current ELSE replay.index)

\* When a drain ends - after a seek or at the end - all that was submitted is drawn, however the
\* callbacks of the worker and the budgets of the rounds fell.
Submitted ==
    Expected(replay.mode, replay.index)
        \o (IF replay.started THEN SubSeq(PiecesOf(replay.mode, Current), 1, replay.offset) ELSE <<>>)
DrainedMeansShown ==
    [][stage = "drained" /\ replay'.phase # "Draining" => shown' = Submitted]_vars

\* When the user leaves it alone, a replay or a seek comes to an end: it is paused, complete,
\* failed or unloaded, and never waits for a worker that has nothing left to do.
ReplaySettles ==
    <>[](replay.phase \in {"Paused", "Completed", "Failed", "Cancelled"})

\* After a seek the timeline plays at the pace it was loaded with (offline_replay_dock.cc:225).
PlaysOnTheTimeline ==
    replay.loaded /\ ~Seeking /\ replay.phase = "Replaying" => replay.pacing = chosen
=============================================================================
