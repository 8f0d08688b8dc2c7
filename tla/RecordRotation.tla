--------------------------- MODULE RecordRotation ---------------------------
(***************************************************************************)
(* The record storage of a protocol: live records are appended to an       *)
(* active volume; when it is full or a day old it is sealed, indexed in    *)
(* the catalogue and replaced.  Four files change one after the other, so  *)
(* that a crash or a failure may fall between any two of the changes; the  *)
(* next start finishes what was begun.  Meanwhile a second thread takes    *)
(* snapshots for queries, imports volumes and, like the writer, retires    *)
(* old volumes.                                                            *)
(*                                                                         *)
(* One step is one committed transaction or one change of the directory;   *)
(* SQLite makes each transaction durable before COMMIT returns.  A volume  *)
(* is known by its identity, a number here; its records are the ids        *)
(* first..last.                                                            *)
(*                                                                         *)
(* A definition marked "Fault" is the definition after it with a           *)
(* plausible mistake; no action uses it.                                   *)
(***************************************************************************)
EXTENDS Integers, FiniteSets

CONSTANTS
    None,
    MaxId,        \* INT64_MAX
    MaxBatch,     \* bound: records in one batch
    MaxVolumes,   \* bound: volumes made in a behaviour
    MaxCrashes,   \* bound: crashes
    MaxFaults,    \* bound: transactions and file operations that fail
    MaxSnapshots  \* bound: snapshots held at a time

ASSUME RotationAssumption ==
    /\ {MaxId, MaxBatch, MaxVolumes, MaxCrashes, MaxFaults, MaxSnapshots} \subseteq Nat
    /\ None \notin Nat

VARIABLES
    vol,                        \* the volume directories
    session,                    \* RecordSessionState, in index.sqlite
    index, retiring,            \* volumes in the catalogue, clean-up intents
    high, allocated, importNext, \* record_high, record_allocated, import_next
    pc, ctx, batch,             \* the thread that opens, writes and rotates
    faulted,                    \* status.faulted
    queried,                    \* the active volume of the query service
    retire,                     \* the volume that is being deleted
    snapshots,                  \* snapshots somebody holds
    gone, used                  \* history and bounds

catalogVars == <<index, retiring, high, allocated, importNext>>
disk == <<vol, session, catalogVars>>
readerVars == <<queried, retire, snapshots>>
vars == <<disk, pc, ctx, batch, faulted, readerVars, gone, used>>

Vols == 1..MaxVolumes

Larger(a, b) == IF a >= b THEN a ELSE b

Records(v) == vol[v].first .. vol[v].last

\* The volume can be opened: its database has an identity and a state.
Whole(v) == vol[v].state \in {"active", "sealed"}

Unused == {v \in Vols : vol[v].state = "unused"} \ {session.pending}

NewIdentity == CHOOSE v \in Unused : \A w \in Unused : v <= w

\* The active volume, as the coordinator has it open.
Active == session.active

Starting == ctx \in {"reopen", "finish", "made", "renew"}

-----------------------------------------------------------------------------
(* Failure and crash.                                                       *)

\* An exception.  While opening it leaves no coordinator; while writing it
\* fails the batch and the store is faulted.
Throw ==
    /\ pc' = IF ~Starting THEN "idle" ELSE IF queried = None THEN "down" ELSE "suspended"
    /\ ctx' = "append"
    /\ faulted' = (faulted \/ ~Starting)
    /\ batch' = 0

\* A check of the code, not of the disk, throws.
Refuse ==
    /\ IF Starting THEN pc' = "refused" /\ UNCHANGED <<ctx, batch, faulted>> ELSE Throw
    /\ UNCHANGED <<disk, readerVars, gone, used>>

\* A transaction or a file operation of the writer fails; "idle": one of a start
\* or stop command, or of the retention between two commands.
Fail ==
    /\ pc \in {"idle", "sync", "prepare", "make", "init", "fill", "seal", "index", "point",
               "reserve", "write", "reconcile"}
    /\ used.faults < MaxFaults
    /\ used' = [used EXCEPT !.faults = @ + 1]
    /\ Throw
    /\ UNCHANGED <<disk, readerVars, gone>>

Crash ==
    /\ pc # "down" /\ used.crashes < MaxCrashes
    /\ used' = [used EXCEPT !.crashes = @ + 1]
    /\ pc' = "down" /\ ctx' = "append" /\ batch' = 0 /\ faulted' = FALSE
    /\ queried' = None /\ retire' = None /\ snapshots' = {}
    /\ UNCHANGED <<disk, gone>>

-----------------------------------------------------------------------------
(* Opening: Store::Impl, openVolumes, RecordVolumeCoordinator.              *)

Goto(next) ==
    /\ pc' = next
    /\ UNCHANGED <<ctx, batch, faulted>>

StartProcess ==
    /\ pc = "down"
    /\ pc' = "catalog" /\ ctx' = "reopen"
    /\ UNCHANGED <<disk, batch, faulted, readerVars, gone, used>>

\* VolumeCatalog: retirements are resumed first (ResumeRetirement), then every
\* indexed volume is checked.
OpenCatalog ==
    /\ pc = "catalog" /\ retiring = {} /\ retire = None
    /\ IF \A v \in index : vol[v].state = "sealed"
       THEN Goto("open") /\ UNCHANGED <<disk, readerVars, gone, used>>
       ELSE Refuse

OpenPending ==
    /\ pc = "open" /\ session.pending # None
    /\ pc' = "finish" /\ ctx' = "finish"
    /\ UNCHANGED <<disk, batch, faulted, readerVars, gone, used>>

Reopen ==
    /\ pc = "open" /\ session.pending = None /\ Active # None
    /\ IF Whole(Active)
       THEN Goto("reconcile") /\ UNCHANGED <<disk, readerVars, gone, used>>
       ELSE Refuse

OpenFirst ==
    /\ pc = "open" /\ session.pending = None /\ Active = None
    /\ pc' = "sync" /\ ctx' = "finish"
    /\ UNCHANGED <<disk, batch, faulted, readerVars, gone, used>>

\* Fault: the records the session has not heard of are not looked at.
SynchronizesNothing ==
    /\ vol[Active].last >= session.last
    /\ UNCHANGED session

\* synchronize: the position follows the volume.
Synchronize ==
    /\ vol[Active].last >= session.last
    /\ session' = [session EXCEPT !.last = vol[Active].last]

\* The end of the constructor: a sealed volume, other schemas or a recording
\* that was not stopped call for a new volume.
Reconcile(differs) ==
    LET resumes == ctx = "reopen" /\ queried = None /\ session.recording
        renews == vol[Active].state = "sealed" \/ differs \/ resumes
    IN  /\ pc = "reconcile"
        /\ differs => ctx # "made"
        /\ IF vol[Active].last < session.last
           THEN Refuse
           ELSE /\ Synchronize
                /\ pc' = IF renews THEN "sync" ELSE "idle"
                /\ ctx' = IF renews THEN "renew" ELSE "append"
                /\ queried' = IF renews THEN queried ELSE Active
                /\ UNCHANGED <<vol, catalogVars, batch, faulted, retire, snapshots, gone, used>>

\* Store::suspend and resume: the snapshots survive, the query service keeps
\* the volume it had.
Suspend ==
    /\ pc = "idle" /\ retire = None
    /\ Goto("suspended")
    /\ UNCHANGED <<disk, readerVars, gone, used>>

Resume ==
    /\ pc = "suspended"
    /\ pc' = "open" /\ ctx' = "reopen"
    /\ UNCHANGED <<disk, batch, faulted, readerVars, gone, used>>

\* The store is destroyed: a snapshot that an export holds survives it.
Close ==
    /\ pc = "idle" /\ retire = None
    /\ pc' = "down" /\ faulted' = FALSE /\ queried' = None
    /\ UNCHANGED <<disk, ctx, batch, retire, snapshots, gone, used>>

-----------------------------------------------------------------------------
(* Rotation.                                                                *)

\* rotate: what is pending is finished first.
Rotate ==
    /\ pc = "sync"
    /\ IF session.pending # None
       THEN Goto("finish") /\ UNCHANGED session
       ELSE /\ Goto("prepare")
            /\ IF Active = None THEN UNCHANGED session ELSE Synchronize
    /\ UNCHANGED <<vol, catalogVars, readerVars, gone, used>>

\* Fault: the end of the id space is not looked for.
NeverExhausted == FALSE

Exhausted == session.last = MaxId

\* prepareRotation
Prepare ==
    /\ pc = "prepare" /\ Unused # {}
    /\ IF Exhausted
       THEN Refuse
       ELSE /\ session' = [session EXCEPT !.pending = NewIdentity, !.first = session.last + 1]
            /\ Goto("finish")
            /\ UNCHANGED <<vol, catalogVars, readerVars, gone, used>>

\* The volume that is replaced ends where the pending one begins.
BoundaryMatches ==
    session.first - 1 = IF Active = None THEN session.last ELSE vol[Active].last

\* finishPending up to the creation: a database file is reopened, a directory
\* without one cannot be made again.
FinishPending ==
    LET target == vol[session.pending]
        opens == Active # None => Whole(Active)
        prepared == target.state = "active" /\ target.last = session.first - 1
    IN  /\ pc = "finish"
        /\ IF opens /\ BoundaryMatches /\ (target.state = "unused" \/ prepared)
           THEN /\ Goto(IF prepared THEN "seal" ELSE "make")
                /\ UNCHANGED <<disk, readerVars, gone, used>>
           ELSE Refuse

Becomes(state) == vol' = [vol EXCEPT ![session.pending].state = state]

\* RecordVolume::create: the directory and its owner file,
MakeDirectory ==
    /\ pc = "make"
    /\ Becomes("dir")
    /\ Goto("init")
    /\ UNCHANGED <<session, catalogVars, readerVars, gone, used>>

\* the database file, still without an identity,
MakeFile ==
    /\ pc = "init"
    /\ Becomes("blank")
    /\ Goto("fill")
    /\ UNCHANGED <<session, catalogVars, readerVars, gone, used>>

\* and its first transaction.
Fill ==
    /\ pc = "fill"
    /\ vol' = [vol EXCEPT ![session.pending] =
                   [state |-> "active", first |-> session.first, last |-> session.first - 1]]
    /\ pc' = "seal"
    /\ ctx' = IF ctx = "finish" THEN "made" ELSE ctx
    /\ UNCHANGED <<session, catalogVars, batch, faulted, readerVars, gone, used>>

Seal ==
    /\ pc = "seal"
    /\ vol' = IF Active = None THEN vol ELSE [vol EXCEPT ![Active].state = "sealed"]
    /\ Goto("index")
    /\ UNCHANGED <<session, catalogVars, readerVars, gone, used>>

\* Fault: the sealed volume is not indexed.
ForgetsIndex ==
    /\ pc = "index"
    /\ Goto("point")
    /\ UNCHANGED <<disk, readerVars, gone, used>>

\* indexSealed and adoptRecording.
Index ==
    LET collides == Records(Active) # {} /\
                        (vol[Active].first <= high \/ vol[Active].last > importNext)
    IN  /\ pc = "index" /\ retire = None
        /\ IF Active = None \/ Active \in index
           THEN Goto("point") /\ UNCHANGED <<disk, readerVars, gone, used>>
           ELSE IF collides THEN Refuse
           ELSE /\ index' = index \cup {Active}
                /\ high' = Larger(high, vol[Active].last)
                /\ Goto("point")
                /\ UNCHANGED <<vol, session, retiring, allocated, importNext, readerVars,
                               gone, used>>

\* commitRotation, and the end of switchActive.
Point ==
    /\ pc = "point"
    /\ session' = [session EXCEPT !.active = session.pending, !.pending = None, !.first = 0]
    /\ pc' = CASE ctx = "append" -> "reserve"
               [] ctx \in {"finish", "made"} -> "reconcile"
               [] OTHER -> "idle"
    /\ ctx' = IF ctx = "renew" THEN "append" ELSE ctx
    /\ queried' = IF ctx \in {"append", "renew"} THEN session.pending ELSE queried
    /\ UNCHANGED <<vol, catalogVars, batch, faulted, retire, snapshots, gone, used>>

-----------------------------------------------------------------------------
(* Writing.                                                                 *)

\* The start command clears a fault; a fault does not end the recording.
Start ==
    /\ pc = "idle" /\ (~session.recording \/ faulted)
    /\ session' = [session EXCEPT !.recording = TRUE]
    /\ faulted' = FALSE
    /\ UNCHANGED <<vol, catalogVars, pc, ctx, batch, readerVars, gone, used>>

Stop ==
    /\ pc = "idle" /\ session.recording
    /\ session' = [session EXCEPT !.recording = FALSE]
    /\ UNCHANGED <<vol, catalogVars, pc, ctx, batch, faulted, readerVars, gone, used>>

\* A volume with records may be due for rotation, by its size or its day.
Publish(n, due) ==
    /\ pc = "idle" /\ session.recording /\ ~faulted
    /\ due => vol[Active].state = "active" /\ Records(Active) # {}
    /\ pc' = IF due THEN "sync" ELSE "reserve"
    /\ batch' = n
    /\ UNCHANGED <<disk, ctx, faulted, readerVars, gone, used>>

\* append: ids are reserved before they are used.
Reserve ==
    LET last == vol[Active].last + batch
    IN  /\ pc = "reserve" /\ retire = None
        /\ IF vol[Active].state = "sealed" \/ session.pending # None \/ last > importNext
           THEN Refuse
           ELSE /\ allocated' = Larger(allocated, last)
                /\ Goto("write")
                /\ UNCHANGED <<vol, session, index, retiring, high, importNext, readerVars,
                               gone, used>>

Write ==
    /\ pc = "write"
    /\ vol' = [vol EXCEPT ![Active].last = @ + batch]
    /\ pc' = "position" /\ batch' = 0
    /\ UNCHANGED <<session, catalogVars, ctx, faulted, readerVars, gone, used>>

\* The batch counts as committed whether or not its position is saved.
Position ==
    /\ pc = "position"
    /\ pc' = "idle"
    /\ \/ /\ session' = [session EXCEPT !.last = vol[Active].last]
          /\ UNCHANGED <<faulted, used>>
       \/ /\ used.faults < MaxFaults
          /\ used' = [used EXCEPT !.faults = @ + 1]
          /\ faulted' = TRUE
          /\ UNCHANGED session
    /\ UNCHANGED <<vol, catalogVars, ctx, batch, readerVars, gone>>

-----------------------------------------------------------------------------
(* Queries, imports and retention, while both threads of the store run.     *)

ThreadsRun == ctx = "append" /\ pc \notin {"down", "suspended"}

\* switchActive holds the lock of the query service.
Switching == pc \in {"seal", "index", "point"}

\* Fault: the active volume is taken twice once it is indexed.
SealedSourcesTwice == index \ retiring

SealedSources == (index \ retiring) \ {queried}

TakeSnapshot ==
    /\ ThreadsRun /\ ~Switching /\ retire = None
    /\ Cardinality(snapshots) < MaxSnapshots
    /\ snapshots' = snapshots \cup
           {[active |-> queried, cutoff |-> vol[queried].last, sealed |-> SealedSources]}
    /\ UNCHANGED <<disk, pc, ctx, batch, faulted, queried, retire, gone, used>>

ReleaseSnapshot ==
    /\ \E s \in snapshots : snapshots' = snapshots \ {s}
    /\ UNCHANGED <<disk, pc, ctx, batch, faulted, queried, retire, gone, used>>

\* Fault: only what is sealed counts.
MayImportUnder(base) == base >= high

MayImport(base) == base >= high /\ base >= allocated

\* adopt: a staged volume is renamed into place and indexed under the highest
\* free ids.  A crash between the two leaves a directory nobody refers to.
Import(n) ==
    LET base == importNext - n
    IN  /\ ThreadsRun /\ retire = None /\ Unused # {}
        /\ base >= 0 /\ MayImport(base)
        /\ vol' = [vol EXCEPT ![NewIdentity] =
                       [state |-> "sealed", first |-> base + 1, last |-> importNext]]
        /\ index' = index \cup {NewIdentity}
        /\ importNext' = base
        /\ UNCHANGED <<session, retiring, high, allocated, pc, ctx, batch, faulted,
                       readerVars, gone, used>>

\* Fault: the reference to the active volume is not handed to the catalogue
\* when the volume is indexed.
PinnedSealed(v) == \E s \in snapshots : v \in s.sealed

Pinned(v) ==
    \/ v = queried
    \/ \E s \in snapshots : v = s.active \/ v \in s.sealed

\* retain: the intent is committed before anything is deleted.
Retain(v) ==
    /\ ThreadsRun /\ retire = None
    /\ retiring = {} /\ v \in index /\ ~Pinned(v)
    /\ retiring' = {v} /\ retire' = v
    /\ gone' = gone \cup Records(v)
    /\ UNCHANGED <<vol, session, index, high, allocated, importNext, pc, ctx, batch, faulted,
                   queried, snapshots, used>>

\* Both retain and the opening of the catalogue first resume what a crash or a
\* failure has cut short.
ResumeRetirement(v) ==
    /\ ThreadsRun \/ pc = "catalog"
    /\ retire = None /\ v \in retiring
    /\ retire' = v
    /\ UNCHANGED <<disk, pc, ctx, batch, faulted, queried, snapshots, gone, used>>

\* finishRetirement: the database, its companions and the owner file, the
\* directory, each as far as it is there; then the index.
Delete(from, to) ==
    /\ retire # None /\ vol[retire].state = from
    /\ vol' = [vol EXCEPT ![retire].state = to]
    /\ UNCHANGED <<session, catalogVars, pc, ctx, batch, faulted, readerVars, gone, used>>

EndRetirement ==
    /\ retire # None /\ vol[retire].state = "deleted"
    /\ index' = index \ {retire} /\ retiring' = retiring \ {retire}
    /\ retire' = None
    /\ UNCHANGED <<vol, session, high, allocated, importNext, pc, ctx, batch, faulted,
                   queried, snapshots, gone, used>>

FailRetirement ==
    /\ retire # None /\ used.faults < MaxFaults
    /\ used' = [used EXCEPT !.faults = @ + 1]
    /\ retire' = None
    /\ IF pc = "catalog" THEN pc' = "down" /\ ctx' = "append" ELSE UNCHANGED <<pc, ctx>>
    /\ UNCHANGED <<disk, batch, faulted, queried, snapshots, gone>>

-----------------------------------------------------------------------------
Init ==
    /\ vol = [v \in Vols |-> [state |-> "unused", first |-> 1, last |-> 0]]
    /\ session = [recording |-> FALSE, active |-> None, pending |-> None, first |-> 0, last |-> 0]
    /\ index = {} /\ retiring = {} /\ high = 0 /\ allocated = 0 /\ importNext = MaxId
    /\ pc = "down" /\ ctx = "append" /\ batch = 0 /\ faulted = FALSE
    /\ queried = None /\ retire = None /\ snapshots = {}
    /\ gone = {} /\ used = [crashes |-> 0, faults |-> 0]

Opening ==
    \/ StartProcess \/ OpenCatalog \/ OpenPending \/ Reopen \/ OpenFirst
    \/ \E differs \in BOOLEAN : Reconcile(differs)
    \/ Suspend \/ Resume \/ Close

Rotation ==
    \/ Rotate \/ Prepare \/ FinishPending \/ MakeDirectory \/ MakeFile \/ Fill
    \/ Seal \/ Index \/ Point

Writing ==
    \/ Start \/ Stop
    \/ \E n \in 1..MaxBatch, due \in BOOLEAN : Publish(n, due)
    \/ Reserve \/ Write \/ Position

Reading ==
    \/ TakeSnapshot \/ ReleaseSnapshot
    \/ \E n \in 1..MaxBatch : Import(n)

Retirement ==
    \/ \E v \in Vols : Retain(v) \/ ResumeRetirement(v)
    \/ Delete("sealed", "nodb") \/ Delete("nodb", "bare") \/ Delete("bare", "deleted")
    \/ EndRetirement \/ FailRetirement

Next == Opening \/ Rotation \/ Writing \/ Reading \/ Retirement \/ Fail \/ Crash

Spec == Init /\ [][Next]_vars

-----------------------------------------------------------------------------
(* Properties.                                                              *)

Ids == 0..MaxId

\* The types; no id above the highest is ever used or reserved.
TypeOK ==
    /\ vol \in [Vols -> [state : {"unused", "dir", "blank", "active", "sealed", "nodb", "bare",
                                  "deleted"},
                         first : 1..(MaxId + 1), last : Ids]]
    /\ session \in [recording : BOOLEAN, active : Vols \cup {None}, pending : Vols \cup {None},
                    first : Ids, last : Ids]
    /\ index \subseteq Vols /\ retiring \subseteq index
    /\ {high, allocated, importNext} \subseteq Ids
    /\ ctx \in {"append", "reopen", "finish", "made", "renew"}
    /\ batch \in 0..MaxBatch /\ faulted \in BOOLEAN
    /\ {queried, retire} \subseteq Vols \cup {None}

\* The volumes a restart would serve.
Visible == ((index \ retiring) \cup {Active}) \ {None}

Stored == UNION {Records(v) : v \in Visible}

\* No record id is in two volumes, although live and imported volumes are
\* filled by two threads that share one id space (reserveLiveThrough, adopt).
EachRecordOnce ==
    \A v, w \in Visible : v # w => Records(v) \cap Records(w) = {}

\* The storage keeps what RecordLog promises: a rotation that a crash or a
\* failure interrupts anywhere neither loses a committed record nor uses an
\* id twice (RecordVolumeCoordinator, VolumeCatalog).
Log == INSTANCE RecordLog WITH
    high <- IF Active = None THEN 0 ELSE vol[Active].last,
    low <- importNext,
    stored <- Stored,
    gone <- gone

ImplementsRecordLog == Log!Spec

\* A volume stays as long as a snapshot or the query service uses it, also when
\* it was taken as the active volume and is sealed, indexed and old by now
\* (adoptRecording hands the reference over, retain looks at it).
SnapshotIntact ==
    \A s \in snapshots : \A v \in s.sealed \cup {s.active} :
        Whole(v) /\ (v = s.active => vol[v].last >= s.cutoff)

\* A new snapshot shows every stored record once, also after a rotation that
\* stopped with the active volume already in the index (snapshot).
SnapshotIsExact ==
    [][\A s \in snapshots' \ snapshots :
          /\ s.active \notin s.sealed
          /\ Stored = (vol[s.active].first .. s.cutoff)
                        \cup UNION {Records(v) : v \in s.sealed}]_vars

\* Nothing a crash or a failure leaves makes a start impossible, except a
\* volume that was not made to the end, or the end of the id space
\* (finishPending, synchronize).
StartsUnlessHalfMade ==
    pc = "refused" =>
        \/ session.pending # None /\ vol[session.pending].state \in {"dir", "blank"}
        \/ Exhausted

\* What the comment in finishPending says: whatever fails in the middle, the
\* next start can retry.
NeverRefused == pc # "refused"
=============================================================================
