------------------------ MODULE RecordRotationProofs ------------------------
(***************************************************************************)
(* Theorems about the record storage, for every number of volumes, ids,    *)
(* records in a batch, crashes, faults and snapshots.                      *)
(***************************************************************************)
EXTENDS RecordRotation, WellFoundedInduction, TLAPS

-----------------------------------------------------------------------------
(* The inductive invariant                                                  *)

VolumeType == [state : {"unused", "dir", "blank", "active", "sealed", "nodb", "bare", "deleted"},
               first : 1..(MaxId + 1), last : Ids]
SessionType == [recording : BOOLEAN, active : Vols \cup {None}, pending : Vols \cup {None},
                first : Ids, last : Ids]

\* The types of what is on the disk, with those that TypeOK leaves out; an empty volume ends in
\* front of its first id.
DiskTyped ==
    /\ vol \in [Vols -> VolumeType] /\ session \in SessionType
    /\ index \subseteq Vols /\ retiring \subseteq index
    /\ high \in Ids /\ allocated \in Ids /\ importNext \in Ids
    /\ \A v \in Vols : vol[v].first <= vol[v].last + 1
    /\ \A s \in snapshots : s.active \in Vols /\ s.sealed \subseteq Vols /\ s.cutoff \in Nat
    /\ gone \subseteq Nat

\* The types of the rest.
ThreadTyped ==
    /\ ctx \in {"append", "reopen", "finish", "made", "renew"}
    /\ batch \in 0..MaxBatch /\ faulted \in BOOLEAN
    /\ queried \in Vols \cup {None} /\ retire \in Vols \cup {None}

\* The last live id.
Top == IF Active = None THEN 0 ELSE vol[Active].last

\* The steps of a rotation after its volume was prepared, and all of them.
Making == {"finish", "make", "init", "fill", "seal", "index", "point"}
Rotating == Making \cup {"sync", "prepare"}

\* Which context a step of the writing thread runs in; between its commands it has the active
\* volume open and serves it to queries.
Phases ==
    /\ pc \in {"catalog", "open"} => ctx = "reopen"
    /\ pc = "reconcile" => ctx \in {"reopen", "finish", "made"} /\ Active # None
    /\ pc = "refused" => Starting
    /\ pc \in Rotating => ctx # "reopen"
    /\ pc \in {"idle", "reserve", "write", "position", "down", "suspended"} => ctx = "append"
    /\ pc \in Rotating \cup {"catalog", "open", "reconcile", "refused", "idle", "reserve", "write",
                             "position", "down", "suspended"}
    /\ ThreadsRun => Active # None /\ queried = Active

\* What is on the disk at each step of a rotation.
Disk ==
    /\ Active # None => Whole(Active) /\ Active \notin retiring
    /\ session.pending # None =>
          /\ session.pending # Active /\ session.pending \notin index
          /\ session.first = Top + 1
          /\ vol[session.pending].state \in {"unused", "dir", "blank", "active"}
          /\ vol[session.pending].state = "active" =>
                vol[session.pending].first = session.first
                /\ vol[session.pending].last = session.first - 1
    /\ \A v \in index \ retiring : vol[v].state = "sealed"
    /\ \A v \in retiring : vol[v].state \in {"sealed", "nodb", "bare", "deleted"}
    /\ Active \in index => vol[Active].state = "sealed"
    /\ retire # None => retire \in retiring /\ (ThreadsRun \/ pc = "catalog")

\* Where the rotation is.
Progress ==
    /\ pc \in Making => session.pending # None
    /\ pc = "prepare" => session.pending = None /\ session.last = Top
    /\ pc = "make" => vol[session.pending].state = "unused"
    /\ pc = "init" => vol[session.pending].state = "dir"
    /\ pc = "fill" => vol[session.pending].state = "blank"
    /\ pc \in {"seal", "index", "point"} => vol[session.pending].state = "active"
    /\ pc \in {"index", "point"} /\ Active # None => vol[Active].state = "sealed"
    /\ pc = "point" => Active = None \/ Active \in index

\* How the id space is divided: live ids from below, imported ones from above.
Division ==
    /\ session.last <= Top /\ high <= Top /\ Top <= allocated /\ allocated <= importNext
    /\ Active # None /\ Active \notin index => vol[Active].first > high
    /\ \A v \in index : vol[v].last <= high \/ vol[v].first > importNext
    /\ pc = "write" =>
          /\ session.pending = None /\ Active # None
          /\ vol[Active].state = "active" /\ Top + batch <= allocated
    /\ \A g \in gone : g <= Top \/ g > importNext
    /\ gone \cap Stored = {}

\* The volumes of a snapshot are not for deletion.
Held ==
    \A s \in snapshots :
        /\ \A v \in s.sealed \cup {s.active} : v \notin retiring /\ Whole(v)
        /\ s.sealed \subseteq index /\ s.active \in index \cup {Active}
        /\ s.cutoff <= vol[s.active].last

IInv ==
    /\ DiskTyped /\ ThreadTyped /\ Phases /\ Disk /\ Progress /\ Division /\ Held
    /\ EachRecordOnce /\ StartsUnlessHalfMade

\* What RecordLog speaks of stays as it is.
LogStutters == UNCHANGED <<Top, Stored, importNext, gone>>

-----------------------------------------------------------------------------
(* Identities and failures                                                  *)

\* The constants are numbers, and None is not one of them.
LEMMA Constants ==
    RotationAssumption =>
        /\ MaxId \in Nat /\ MaxBatch \in Nat /\ MaxVolumes \in Nat
        /\ None \notin Vols /\ Vols \subseteq Nat
BY DEF RotationAssumption, Vols

\* A new identity is one that is not used.
LEMMA NewIdentityUnused == Unused # {} => NewIdentity \in Unused
<1> SUFFICES ASSUME Unused # {} PROVE NewIdentity \in Unused
  OBVIOUS
<1> DEFINE R == OpToRel(<, Nat)
<1>1. IsWellFoundedOn(R, Nat)
  BY NatLessThanWellFounded
<1>2. Unused \subseteq Nat
  BY DEF Unused, Vols
<1>3. \A x, y \in Nat : <<y, x>> \notin R => x <= y
  <2>1. \A x, y \in Nat : y < x => <<y, x>> \in R
    BY DEF OpToRel
  <2> HIDE DEF R
  <2> QED
    BY <2>1
<1> HIDE DEF R
<1>4. PICK x \in Unused : \A y \in Unused : <<y, x>> \notin R
  BY <1>1, <1>2, WFMin
<1>5. \A y \in Unused : x <= y
  BY <1>2, <1>3, <1>4
<1> QED
  BY <1>4, <1>5 DEF NewIdentity

\* The id space is not touched, and the volumes in use keep their records; the invariant's parts
\* about ids and snapshots hold on.
LEMMA RecordsFrame ==
    ASSUME RotationAssumption, DiskTyped, Division, Held, EachRecordOnce,
           \A v \in (index \cup {Active}) \ {None} :
               /\ vol'[v].first = vol[v].first /\ vol'[v].last = vol[v].last
               /\ v \in retiring \/ ~Whole(v) \/ Whole(v)',
           UNCHANGED <<index, retiring, high, allocated, importNext, gone>>,
           session'.active = session.active, session'.last <= Top,
           snapshots' \subseteq snapshots,
           pc' = "write" =>
               /\ pc = "write" /\ batch' = batch /\ session'.pending = session.pending
               /\ vol'[Active].state = vol[Active].state
    PROVE  Top' = Top /\ Stored' = Stored /\ Held' /\ EachRecordOnce' /\ Division'
<1>1. Active' = Active /\ Visible' = Visible /\ Top' = Top
  BY DEF Active, Visible, Top
<1>2. \A v \in Visible : Records(v)' = Records(v)
  BY DEF Records, Visible
<1>3. Stored' = Stored
  BY <1>1, <1>2 DEF Stored
<1>4. EachRecordOnce'
  BY <1>1, <1>2 DEF EachRecordOnce
<1>5. Held'
  <2>1. \A s \in snapshots : \A v \in s.sealed \cup {s.active} :
            v \in Vols /\ v \in (index \cup {Active}) \ {None} /\ v \notin retiring
    BY Constants DEF Held, DiskTyped
  <2> QED
    BY <1>1, <2>1 DEF Held
<1>6. Division'
  <2>1. session'.last <= Top' /\ high' <= Top' /\ Top' <= allocated' /\ allocated' <= importNext'
    BY <1>1 DEF Division
  <2>2. /\ Active' # None /\ Active' \notin index' => vol'[Active'].first > high'
        /\ \A v \in index' : vol'[v].last <= high' \/ vol'[v].first > importNext'
    BY <1>1, Constants DEF Division, DiskTyped
  <2>3. pc' = "write" =>
            /\ session'.pending = None /\ Active' # None
            /\ vol'[Active'].state = "active" /\ Top' + batch' <= allocated'
    <3> SUFFICES ASSUME pc' = "write"
                 PROVE  /\ session'.pending = None /\ Active' # None
                        /\ vol'[Active'].state = "active" /\ Top' + batch' <= allocated'
      OBVIOUS
    <3>1. session.pending = None /\ Active # None /\ vol[Active].state = "active"
      BY DEF Division
    <3> QED
      BY <1>1, <3>1 DEF Division
  <2>4. /\ \A g \in gone' : g <= Top' \/ g > importNext'
        /\ gone' \cap Stored' = {}
    BY <1>1, <1>3 DEF Division
  <2> QED
    BY <2>1, <2>2, <2>3, <2>4 DEF Division
<1> QED
  BY <1>1, <1>3, <1>4, <1>5, <1>6

\* The same when the volumes in use do not change at all.
LEMMA LedgerFrame ==
    ASSUME RotationAssumption, DiskTyped, Division, Held, EachRecordOnce,
           \A v \in (index \cup {Active}) \ {None} : vol'[v] = vol[v],
           UNCHANGED <<index, retiring, high, allocated, importNext, gone>>,
           session'.active = session.active, session'.last <= Top,
           snapshots' \subseteq snapshots,
           pc' = "write" => pc = "write" /\ batch' = batch /\ session'.pending = session.pending
    PROVE  Top' = Top /\ Stored' = Stored /\ Held' /\ EachRecordOnce' /\ Division'
<1>1. \A v \in (index \cup {Active}) \ {None} :
          /\ vol'[v].first = vol[v].first /\ vol'[v].last = vol[v].last
          /\ v \in retiring \/ ~Whole(v) \/ Whole(v)'
  BY DEF Whole
<1>2. pc' = "write" =>
          /\ pc = "write" /\ batch' = batch /\ session'.pending = session.pending
          /\ vol'[Active].state = vol[Active].state
  BY DEF Division
<1> QED
  BY <1>1, <1>2, RecordsFrame

\* An exception leaves everything but the thread as it is.
LEMMA ThrowKeeps ==
    ASSUME RotationAssumption, IInv, Throw, pc \notin {"down", "suspended", "catalog"},
           UNCHANGED <<disk, readerVars, gone>>
    PROVE  IInv' /\ LogStutters
<1>1. pc' \in {"idle", "down", "suspended"} /\ ctx' = "append" /\ batch' = 0 /\ faulted' \in BOOLEAN
      /\ (Starting <=> pc' # "idle")
  BY DEF Throw, IInv, ThreadTyped
<1>2. Top' = Top /\ Stored' = Stored /\ Held' /\ EachRecordOnce' /\ Division'
  BY <1>1, LedgerFrame DEF IInv, disk, catalogVars, readerVars, Active, Division
<1>3. DiskTyped' /\ ThreadTyped'
  BY <1>1, Constants DEF IInv, DiskTyped, ThreadTyped, disk, catalogVars, readerVars
<1>4. Phases'
  <2>1. ~Starting => ThreadsRun
    BY DEF IInv, ThreadTyped, Starting, ThreadsRun
  <2> QED
    BY <1>1, <2>1 DEF IInv, Phases, Active, Making, Rotating, ThreadsRun, Starting, disk, readerVars
<1>5. Disk'
  <2>1. Active' = Active /\ (retire # None => ~Starting)
    BY DEF IInv, Disk, ThreadsRun, Starting, Active, disk
  <2>2. retire' # None => retire' \in retiring' /\ (ThreadsRun' \/ pc' = "catalog")
    BY <1>1, <2>1 DEF IInv, Disk, ThreadsRun, disk, catalogVars, readerVars
  <2> QED
    BY <1>2, <2>1, <2>2 DEF IInv, Disk, Whole, disk, catalogVars
<1>6. Progress' /\ StartsUnlessHalfMade'
  BY <1>1 DEF Progress, StartsUnlessHalfMade, Making
<1> QED
  BY <1>2, <1>3, <1>4, <1>5, <1>6 DEF IInv, LogStutters, disk, catalogVars

\* A check of the code that throws stops a start only in the two cases.
LEMMA RefuseKeeps ==
    ASSUME RotationAssumption, IInv, Refuse, pc \in {"prepare", "finish", "reserve"},
           \/ ~Starting \/ Exhausted
           \/ session.pending # None /\ vol[session.pending].state \in {"dir", "blank"}
    PROVE  IInv' /\ LogStutters
<1>1. CASE ~Starting
  BY <1>1, ThrowKeeps DEF Refuse
<1>2. CASE Starting
  <2>1. pc' = "refused" /\ UNCHANGED <<ctx, batch, faulted, disk, readerVars, gone>>
    BY <1>2 DEF Refuse
  <2>2. Top' = Top /\ Stored' = Stored /\ Held' /\ EachRecordOnce' /\ Division'
    BY <2>1, LedgerFrame DEF IInv, disk, catalogVars, readerVars, Active, Division
  <2>3. DiskTyped' /\ ThreadTyped'
    BY <2>1 DEF IInv, DiskTyped, ThreadTyped, disk, catalogVars, readerVars
  <2>4. Phases'
    BY <1>2, <2>1 DEF Phases, Starting, ThreadsRun, Making, Rotating
  <2>5. retire = None
    BY <1>2 DEF IInv, Disk, Starting, ThreadsRun
  <2>6. Disk'
    BY <2>1, <2>2, <2>5 DEF IInv, Disk, Active, Whole, disk, catalogVars, readerVars
  <2>7. Progress' /\ StartsUnlessHalfMade'
    BY <1>2, <2>1 DEF Progress, StartsUnlessHalfMade, Making, Exhausted, Starting, disk
  <2> QED
    BY <2>1, <2>2, <2>3, <2>4, <2>6, <2>7 DEF IInv, LogStutters, disk, catalogVars
<1> QED
  BY <1>1, <1>2

-----------------------------------------------------------------------------
(* Steps that leave the disk alone                                          *)

\* Only the thread moves on.
LEMMA ThreadFrame ==
    ASSUME RotationAssumption, IInv, UNCHANGED <<disk, gone>>, snapshots' \subseteq snapshots,
           pc' # "write", ThreadTyped'
    PROVE  Top' = Top /\ Stored' = Stored /\ Held' /\ EachRecordOnce' /\ Division' /\ DiskTyped'
<1>1. Top' = Top /\ Stored' = Stored /\ Held' /\ EachRecordOnce' /\ Division'
  BY LedgerFrame DEF IInv, disk, catalogVars, Active, Division
<1>2. DiskTyped'
  BY DEF IInv, DiskTyped, disk, catalogVars
<1> QED
  BY <1>1, <1>2

\* A step between a start and the first command, or back.
LEMMA OpeningKeeps ==
    ASSUME RotationAssumption, IInv,
           StartProcess \/ OpenCatalog \/ OpenPending \/ Reopen \/ OpenFirst \/ Suspend \/ Resume
           \/ Close
    PROVE  IInv' /\ LogStutters
<1>1. OpenCatalog => Goto("open") /\ UNCHANGED <<disk, readerVars, gone, used>>
  BY DEF OpenCatalog, IInv, Disk
<1>2. Reopen => Goto("reconcile") /\ UNCHANGED <<disk, readerVars, gone, used>>
  BY DEF Reopen, IInv, Disk
<1>3. /\ UNCHANGED <<disk, gone, batch, snapshots>> /\ retire' = retire
      /\ queried' \in {queried, None} /\ faulted' \in {faulted, FALSE}
      /\ ctx' \in {ctx, "reopen", "finish"} /\ pc' # "write"
  BY <1>1, <1>2 DEF StartProcess, OpenCatalog, OpenPending, Reopen, OpenFirst, Suspend, Resume,
     Close, Goto, readerVars
<1>4. ThreadTyped'
  BY <1>3 DEF IInv, ThreadTyped
<1>5. Top' = Top /\ Stored' = Stored /\ Held' /\ EachRecordOnce' /\ Division' /\ DiskTyped'
  BY <1>3, <1>4, ThreadFrame
<1>6. \/ pc = "down" /\ pc' = "catalog" /\ ctx' = "reopen"
      \/ /\ pc = "catalog" /\ pc' = "open" /\ ctx' = ctx /\ retire = None
      \/ pc = "open" /\ pc' = "finish" /\ ctx' = "finish" /\ session.pending # None
      \/ pc = "open" /\ pc' = "reconcile" /\ ctx' = ctx /\ Active # None
      \/ pc = "open" /\ pc' = "sync" /\ ctx' = "finish"
      \/ pc = "idle" /\ pc' \in {"suspended", "down"} /\ ctx' = ctx /\ retire = None
      \/ pc = "suspended" /\ pc' = "open" /\ ctx' = "reopen"
  BY <1>1, <1>2 DEF StartProcess, OpenCatalog, OpenPending, Reopen, OpenFirst, Suspend, Resume,
     Close, Goto
<1>7. Active' = Active /\ Phases'
  BY <1>3, <1>6 DEF IInv, Phases, Active, Making, Rotating, ThreadsRun, Starting, disk
<1>8. Disk'
  <2>1. retire' = None \/ (retire' \in retiring' /\ pc' = "catalog")
    BY <1>3, <1>6 DEF IInv, Phases, Disk, ThreadsRun, disk, catalogVars
  <2> QED
    BY <1>3, <1>5, <1>7, <2>1 DEF IInv, Disk, Whole, disk, catalogVars
<1>9. Progress' /\ StartsUnlessHalfMade'
  BY <1>3, <1>6 DEF IInv, Progress, StartsUnlessHalfMade, Making, Active, disk
<1> QED
  BY <1>3, <1>4, <1>5, <1>7, <1>8, <1>9 DEF IInv, LogStutters, disk, catalogVars

\* A batch comes in, a snapshot is given back, a retirement is resumed.
LEMMA CommandKeeps ==
    ASSUME RotationAssumption, IInv,
           \/ \E n \in 1..MaxBatch, due \in BOOLEAN : Publish(n, due)
           \/ ReleaseSnapshot
           \/ \E v \in Vols : ResumeRetirement(v)
    PROVE  IInv' /\ LogStutters
<1>1. /\ UNCHANGED <<disk, gone, ctx, queried, faulted>> /\ snapshots' \subseteq snapshots
      /\ batch' \in 0..MaxBatch
      /\ \/ pc = "idle" /\ pc' \in {"sync", "reserve"} /\ session.recording
         \/ pc' = pc /\ batch' = batch
      /\ \/ retire' = retire
         \/ retire' \in retiring /\ (ThreadsRun \/ pc = "catalog") /\ pc' = pc
  BY Constants DEF Publish, ReleaseSnapshot, ResumeRetirement, readerVars, IInv, ThreadTyped
<1>2. ThreadTyped'
  BY <1>1 DEF IInv, ThreadTyped, DiskTyped
<1>3. DiskTyped' /\ Top' = Top /\ Stored' = Stored /\ Held' /\ EachRecordOnce' /\ Division'
  <2>1. DiskTyped'
    BY <1>1 DEF IInv, DiskTyped, disk, catalogVars
  <2> QED
    BY <1>1, <2>1, LedgerFrame DEF IInv, disk, catalogVars, Active, Division
<1>4. Active' = Active /\ Phases' /\ (ThreadsRun => ThreadsRun')
  BY <1>1 DEF IInv, Phases, Active, Making, Rotating, ThreadsRun, Starting, disk
<1>5. Disk'
  <2>1. retire' # None => retire' \in retiring' /\ (ThreadsRun' \/ pc' = "catalog")
    BY <1>1, <1>4 DEF IInv, Phases, Disk, ThreadsRun, disk, catalogVars
  <2> QED
    BY <1>1, <1>3, <1>4, <2>1 DEF IInv, Disk, Whole, disk, catalogVars
<1>6. Progress' /\ StartsUnlessHalfMade'
  BY <1>1, <1>3, <1>4 DEF IInv, Progress, StartsUnlessHalfMade, Making, Exhausted, disk, catalogVars
<1> QED
  BY <1>1, <1>2, <1>3, <1>4, <1>5, <1>6 DEF IInv, LogStutters, disk, catalogVars

\* A transaction fails, the retirement fails, or the process ends.
LEMMA FailureKeeps ==
    ASSUME RotationAssumption, IInv, Fail \/ FailRetirement \/ Crash
    PROVE  IInv' /\ LogStutters
<1>1. CASE Fail
  BY <1>1, ThrowKeeps DEF Fail
<1>2. CASE FailRetirement \/ Crash
  <2>1. /\ UNCHANGED <<disk, gone>> /\ snapshots' \subseteq snapshots /\ retire' = None
        /\ \/ pc' = "down" /\ ctx' = "append"
           \/ UNCHANGED <<pc, ctx, queried>>
        /\ batch' \in {0, batch} /\ (pc' = "write" => batch' = batch)
        /\ faulted' \in {faulted, FALSE} /\ queried' \in {queried, None}
    BY <1>2 DEF FailRetirement, Crash
  <2>2. ThreadTyped'
    <3>1. 0 \in 0..MaxBatch
      BY Constants
    <3>2. batch' \in 0..MaxBatch /\ faulted' \in BOOLEAN /\ queried' \in Vols \cup {None}
      BY <2>1, <3>1 DEF IInv, ThreadTyped
    <3>3. ctx' \in {"append", "reopen", "finish", "made", "renew"}
      BY <2>1 DEF IInv, ThreadTyped
    <3> QED
      BY <2>1, <3>2, <3>3 DEF ThreadTyped
  <2>3. DiskTyped' /\ Top' = Top /\ Stored' = Stored /\ Held' /\ EachRecordOnce' /\ Division'
    <3>1. DiskTyped'
      BY <2>1 DEF IInv, DiskTyped, disk, catalogVars
    <3>2. pc' = "write" => pc = "write" /\ batch' = batch /\ session'.pending = session.pending
      BY <2>1 DEF disk
    <3> QED
      BY <2>1, <3>1, <3>2, LedgerFrame DEF IInv, disk, catalogVars, Active, Division
  <2>4. Active' = Active /\ Phases'
    BY <2>1 DEF IInv, Phases, Active, Making, Rotating, ThreadsRun, Starting, disk
  <2>5. Disk'
    BY <2>1, <2>3, <2>4 DEF IInv, Disk, Whole, disk, catalogVars
  <2>6. Progress' /\ StartsUnlessHalfMade'
    BY <2>1, <2>3, <2>4 DEF IInv, Progress, StartsUnlessHalfMade, Making, Exhausted, disk,
       catalogVars
  <2> QED
    BY <2>1, <2>2, <2>3, <2>4, <2>5, <2>6 DEF IInv, LogStutters, disk, catalogVars
<1> QED
  BY <1>1, <1>2

-----------------------------------------------------------------------------
(* Steps that change the session                                            *)

\* The types of what the invariant speaks of most often.
LEMMA Typed ==
    ASSUME RotationAssumption, IInv
    PROVE  /\ session.last \in Nat /\ session.first \in Nat /\ Top \in Nat
           /\ Active \in Vols \cup {None} /\ session.pending \in Vols \cup {None}
           /\ \A v \in Vols : vol[v].first \in Nat /\ vol[v].last \in Nat /\ vol[v] \in VolumeType
           /\ None \notin Vols
<1>1. None \notin Vols /\ MaxId \in Nat
  BY Constants
<1>2. session \in SessionType /\ vol \in [Vols -> VolumeType]
  BY DEF IInv, DiskTyped
<1>3. \A v \in Vols : vol[v].first \in Nat /\ vol[v].last \in Nat /\ vol[v] \in VolumeType
  BY <1>1, <1>2 DEF VolumeType, Ids
<1> QED
  BY <1>1, <1>2, <1>3 DEF SessionType, Ids, Top, Active

\* The position of the session follows the active volume; recording begins and ends.
LEMMA SessionKeeps ==
    ASSUME RotationAssumption, IInv,
           (\E differs \in BOOLEAN : Reconcile(differs)) \/ Rotate \/ Start \/ Stop \/ Position
    PROVE  IInv' /\ LogStutters
<1>1. Active # None => vol[Active].last = Top /\ vol[Active].last \in Ids
  BY Typed DEF IInv, DiskTyped, VolumeType, Top
<1>2. session.last <= Top /\ session.last \in Nat /\ Top \in Nat
  BY Typed DEF IInv, Division
<1>3. pc \in {"reconcile", "idle", "position"} => Active # None
  BY DEF IInv, Phases, ThreadsRun
<1>4. /\ UNCHANGED <<vol, catalogVars, gone, batch, snapshots, retire>>
      /\ \/ session' = session
         \/ Active # None /\ session' = [session EXCEPT !.last = vol[Active].last]
         \/ \E r \in BOOLEAN : session' = [session EXCEPT !.recording = r]
      /\ \/ pc = "reconcile" /\ pc' = "sync" /\ ctx' = "renew" /\ queried' = queried
         \/ pc = "reconcile" /\ pc' = "idle" /\ ctx' = "append" /\ queried' = Active
         \/ /\ pc = "sync" /\ pc' = "finish" /\ session.pending # None /\ session' = session
            /\ UNCHANGED <<ctx, queried>>
         \/ /\ pc = "sync" /\ pc' = "prepare" /\ session.pending = None
            /\ Active = None /\ session' = session
            /\ UNCHANGED <<ctx, queried>>
         \/ /\ pc = "sync" /\ pc' = "prepare" /\ session.pending = None
            /\ Active # None /\ session' = [session EXCEPT !.last = vol[Active].last]
            /\ UNCHANGED <<ctx, queried>>
         \/ pc \in {"idle", "position"} /\ pc' = "idle" /\ UNCHANGED <<ctx, queried>>
      /\ faulted' \in {faulted, TRUE, FALSE}
  <2>1. CASE \E differs \in BOOLEAN : Reconcile(differs)
    <3>1. pc = "reconcile"
      BY <2>1 DEF Reconcile
    <3>2. Active # None /\ ~(vol[Active].last < session.last)
      BY <1>1, <1>2, <1>3, <3>1
    <3>3. /\ session' = [session EXCEPT !.last = vol[Active].last]
          /\ UNCHANGED <<vol, catalogVars, gone, batch, snapshots, retire, faulted>>
          /\ \/ pc' = "sync" /\ ctx' = "renew" /\ queried' = queried
             \/ pc' = "idle" /\ ctx' = "append" /\ queried' = Active
      <4> SUFFICES ASSUME NEW differs \in BOOLEAN, Reconcile(differs)
                   PROVE  <3>3!:
        BY <2>1
      <4> QED
        BY <3>2 DEF Reconcile, Synchronize
    <3> QED
      BY <3>1, <3>2, <3>3
  <2>2. CASE Rotate
    BY <2>2 DEF Rotate, Synchronize, Goto, readerVars
  <2>3. CASE Start \/ Stop
    BY <2>3 DEF Start, Stop, readerVars
  <2>4. CASE Position
    BY <1>3, <2>4 DEF Position, readerVars
  <2> QED
    BY <2>1, <2>2, <2>3, <2>4
<1>5. /\ session' \in SessionType /\ session'.active = session.active
      /\ session'.pending = session.pending /\ session'.first = session.first
      /\ session'.last <= Top
  BY <1>1, <1>2, <1>4 DEF IInv, DiskTyped, SessionType
<1>6. pc' = "prepare" => session'.last = Top
  <2>1. Active = None => Top = 0
    BY DEF Top
  <2>2. session \in SessionType
    BY DEF IInv, DiskTyped
  <2> QED
    BY <1>1, <1>2, <1>4, <2>1, <2>2 DEF SessionType
<1>7. ThreadTyped'
  BY <1>4 DEF IInv, ThreadTyped, DiskTyped, SessionType, Active
<1>8. DiskTyped' /\ Top' = Top /\ Stored' = Stored /\ Held' /\ EachRecordOnce' /\ Division'
  <2>1. DiskTyped'
    BY <1>4, <1>5 DEF IInv, DiskTyped, catalogVars
  <2>2. pc' # "write"
    BY <1>4
  <2> QED
    BY <1>4, <1>5, <2>1, <2>2, LedgerFrame DEF IInv, catalogVars
<1>9. Active' = Active /\ Phases' /\ (ThreadsRun => ThreadsRun')
  BY <1>3, <1>4, <1>5 DEF IInv, Phases, Active, Making, Rotating, ThreadsRun, Starting
<1>10. Disk'
  <2>1. retire' # None => retire' \in retiring' /\ (ThreadsRun' \/ pc' = "catalog")
    BY <1>4, <1>9 DEF IInv, Disk, catalogVars
  <2> QED
    BY <1>4, <1>5, <1>8, <1>9, <2>1 DEF IInv, Disk, Whole, catalogVars
<1>11. Progress' /\ StartsUnlessHalfMade'
  BY <1>4, <1>5, <1>6, <1>8 DEF Progress, StartsUnlessHalfMade, Making
<1> QED
  BY <1>4, <1>7, <1>8, <1>9, <1>10, <1>11 DEF IInv, LogStutters, catalogVars

\* A rotation chooses the identity and the first id of its volume.
LEMMA PrepareKeeps ==
    ASSUME RotationAssumption, IInv, Prepare
    PROVE  IInv' /\ LogStutters
<1>1. CASE Exhausted
  BY <1>1, RefuseKeeps DEF Prepare
<1>2. CASE ~Exhausted
  <2> DEFINE new == NewIdentity
  <2>1. new \in Vols /\ vol[new].state = "unused"
    BY NewIdentityUnused DEF Prepare, Unused
  <2> HIDE DEF new
  <2>2. /\ session' = [session EXCEPT !.pending = new, !.first = session.last + 1]
        /\ pc = "prepare" /\ pc' = "finish"
        /\ UNCHANGED <<vol, catalogVars, ctx, batch, faulted, readerVars, gone>>
    BY <1>2 DEF Prepare, Goto, new
  <2>3. session.last = Top /\ session.last \in Ids /\ session.last # MaxId /\ session.pending = None
    BY <1>2, <2>2 DEF IInv, Progress, DiskTyped, SessionType, Exhausted
  <2>4. /\ session' \in SessionType /\ session'.active = session.active
        /\ session'.pending = new /\ session'.first = Top + 1 /\ session'.last = session.last
    <3>1. session.last + 1 \in Ids
      BY <2>3, Constants DEF Ids
    <3> QED
      BY <2>1, <2>2, <2>3, <3>1 DEF IInv, DiskTyped, SessionType
  <2>5. DiskTyped' /\ ThreadTyped'
    BY <2>2, <2>4 DEF IInv, DiskTyped, ThreadTyped, catalogVars, readerVars
  <2>6. Top' = Top /\ Stored' = Stored /\ Held' /\ EachRecordOnce' /\ Division'
    <3>1. session'.last <= Top
      BY <2>4 DEF IInv, Division
    <3> QED
      BY <2>2, <2>4, <3>1, LedgerFrame DEF IInv, catalogVars, readerVars
  <2>7. Active' = Active /\ Phases' /\ (ThreadsRun => ThreadsRun')
    BY <2>2, <2>4 DEF IInv, Phases, Active, Making, Rotating, ThreadsRun, Starting, readerVars
  <2>8. new # Active /\ new \notin index
    BY <2>1, Typed DEF IInv, Disk, Whole
  <2>9. Disk'
    <3>1. retire' # None => retire' \in retiring' /\ (ThreadsRun' \/ pc' = "catalog")
      BY <2>2, <2>7 DEF IInv, Disk, catalogVars, readerVars
    <3> QED
      BY <2>1, <2>2, <2>4, <2>6, <2>7, <2>8, <3>1 DEF IInv, Disk, Whole, catalogVars
  <2>10. Progress' /\ StartsUnlessHalfMade'
    BY <2>1, <2>2, <2>4, Constants DEF Progress, StartsUnlessHalfMade, Making
  <2> QED
    BY <2>2, <2>5, <2>6, <2>7, <2>9, <2>10 DEF IInv, LogStutters, catalogVars
<1> QED
  BY <1>1, <1>2

-----------------------------------------------------------------------------
(* Making the new volume                                                    *)

\* The new volume is made step by step; only the steps between its directory and its first
\* transaction leave something that cannot be taken up again.
LEMMA MakingKeeps ==
    ASSUME RotationAssumption, IInv, FinishPending \/ MakeDirectory \/ MakeFile \/ Fill
    PROVE  IInv' /\ LogStutters
<1> DEFINE new == session.pending
<1>1. new # None /\ new \in Vols /\ new # Active /\ new \notin index /\ pc \in Making
  BY Typed DEF IInv, Disk, Progress, FinishPending, MakeDirectory, MakeFile, Fill, Making
<1>2. /\ session.first = Top + 1 /\ session.first - 1 = Top /\ session.first \in 1..(MaxId + 1)
      /\ session.first - 1 \in Ids
  <2>1. session.first = Top + 1
    BY <1>1 DEF IInv, Disk
  <2>2. Top \in Ids
    BY Typed, Constants DEF Top, Ids, VolumeType
  <2> QED
    BY <2>1, <2>2, Constants DEF Ids
<1>3. CASE FinishPending /\ vol[new].state \in {"dir", "blank"}
  <2>1. Refuse
    BY <1>3 DEF FinishPending
  <2> QED
    BY <1>1, <1>3, <2>1, RefuseKeeps DEF FinishPending
<1>4. CASE ~(FinishPending /\ vol[new].state \in {"dir", "blank"})
  <2>1. BoundaryMatches
    BY <1>1, <1>2, Typed DEF BoundaryMatches, Top, IInv, Division
  <2>2. \/ /\ pc = "finish" /\ vol[new].state = "active" /\ pc' = "seal" /\ vol' = vol
           /\ ctx' = ctx
        \/ /\ pc = "finish" /\ vol[new].state = "unused" /\ pc' = "make" /\ vol' = vol
           /\ ctx' = ctx
        \/ /\ pc = "make" /\ pc' = "init" /\ vol' = [vol EXCEPT ![new].state = "dir"]
           /\ ctx' = ctx
        \/ /\ pc = "init" /\ pc' = "fill" /\ vol' = [vol EXCEPT ![new].state = "blank"]
           /\ ctx' = ctx
        \/ /\ pc = "fill" /\ pc' = "seal"
           /\ vol' = [vol EXCEPT ![new] = [state |-> "active", first |-> session.first,
                                           last |-> session.first - 1]]
           /\ ctx' = IF ctx = "finish" THEN "made" ELSE ctx
    <3>1. CASE FinishPending
      <4>1. /\ Active # None => Whole(Active)
            /\ vol[new].state \in {"unused", "active"}
            /\ vol[new].state = "active" => vol[new].last = session.first - 1
        BY <1>1, <1>4, <3>1 DEF IInv, Disk
      <4> QED
        BY <2>1, <3>1, <4>1 DEF FinishPending, Goto, disk
    <3>2. CASE MakeDirectory \/ MakeFile \/ Fill
      BY <3>2 DEF MakeDirectory, MakeFile, Fill, Becomes, Goto
    <3> QED
      BY <3>1, <3>2
  <2>3. UNCHANGED <<session, catalogVars, batch, faulted, readerVars, gone>>
    BY <1>1, <1>4, <2>1 DEF FinishPending, MakeDirectory, MakeFile, Fill, Becomes, Goto, IInv,
       Disk, disk
  <2>4. /\ vol' \in [Vols -> VolumeType] /\ \A v \in Vols \ {new} : vol'[v] = vol[v]
        /\ \A v \in Vols : vol'[v].first <= vol'[v].last + 1
    <3>1. vol \in [Vols -> VolumeType] /\ \A v \in Vols : vol[v].first <= vol[v].last + 1
      BY DEF IInv, DiskTyped
    <3>2. CASE pc = "fill"
      <4>1. [state |-> "active", first |-> session.first, last |-> session.first - 1] \in VolumeType
        BY <1>2 DEF VolumeType
      <4> QED
        BY <1>1, <1>2, <2>2, <3>1, <3>2, <4>1
    <3>3. CASE pc # "fill"
      BY <1>1, <2>2, <3>1, <3>3 DEF VolumeType
    <3> QED
      BY <3>2, <3>3
  <2>5. /\ pc' \in {"seal", "make", "init", "fill"}
        /\ pc' = "make" => vol'[new].state = "unused"
        /\ pc' = "init" => vol'[new].state = "dir"
        /\ pc' = "fill" => vol'[new].state = "blank"
        /\ pc' = "seal" => vol'[new].state = "active" /\ vol'[new].first = session.first
                           /\ vol'[new].last = session.first - 1
    <3>1. vol \in [Vols -> VolumeType]
      BY DEF IInv, DiskTyped
    <3>2. vol[new].state = "active" => vol[new].first = session.first
                                       /\ vol[new].last = session.first - 1
      BY <1>1 DEF IInv, Disk
    <3> QED
      BY <1>1, <2>2, <3>1, <3>2 DEF VolumeType
  <2>6. DiskTyped' /\ ThreadTyped'
    BY <2>2, <2>3, <2>4 DEF IInv, DiskTyped, ThreadTyped, catalogVars, readerVars
  <2>7. Top' = Top /\ Stored' = Stored /\ Held' /\ EachRecordOnce' /\ Division'
    <3>1. \A v \in (index \cup {Active}) \ {None} : vol'[v] = vol[v]
      BY <1>1, <2>4, Typed DEF IInv, DiskTyped
    <3>2. session.last <= Top
      BY DEF IInv, Division
    <3> QED
      BY <2>3, <2>5, <3>1, <3>2, LedgerFrame DEF IInv, catalogVars, readerVars
  <2>8. Active' = Active /\ Phases' /\ (ThreadsRun => ThreadsRun')
    BY <1>1, <2>2, <2>3 DEF IInv, Phases, Active, Making, Rotating, ThreadsRun, Starting, readerVars
  <2>9. Disk'
    <3>1. retire' # None => retire' \in retiring' /\ (ThreadsRun' \/ pc' = "catalog")
      BY <1>1, <2>3, <2>8 DEF IInv, Disk, Making, catalogVars, readerVars
    <3>2. Active # None => vol'[Active] = vol[Active]
      BY <1>1, <2>4, Typed
    <3>3. \A v \in index : vol'[v] = vol[v]
      BY <1>1, <2>4 DEF IInv, DiskTyped
    <3>4. /\ \A v \in index' \ retiring' : vol'[v].state = "sealed"
          /\ \A v \in retiring' : vol'[v].state \in {"sealed", "nodb", "bare", "deleted"}
      BY <2>3, <3>3 DEF IInv, Disk, DiskTyped, catalogVars
    <3>5. session'.pending = new /\ session'.first = Top' + 1
      BY <1>2, <2>3, <2>7
    <3> QED
      BY <1>1, <2>3, <2>5, <2>8, <3>1, <3>2, <3>3, <3>4, <3>5
      DEF IInv, Disk, Whole, catalogVars
  <2>10. Progress' /\ StartsUnlessHalfMade'
    BY <1>1, <2>3, <2>5 DEF Progress, StartsUnlessHalfMade, Making
  <2> QED
    BY <2>3, <2>6, <2>7, <2>8, <2>9, <2>10 DEF IInv, LogStutters, catalogVars
<1> QED
  BY <1>3, <1>4

-----------------------------------------------------------------------------
(* Replacing the active volume                                              *)

\* The volume that is full is sealed and keeps its records.
LEMMA SealKeeps ==
    ASSUME RotationAssumption, IInv, Seal
    PROVE  IInv' /\ LogStutters
<1> DEFINE new == session.pending
<1>1. /\ pc = "seal" /\ pc' = "index" /\ new # None /\ new \in Vols /\ new # Active
      /\ new \notin index /\ vol[new].state = "active"
      /\ UNCHANGED <<session, catalogVars, ctx, batch, faulted, readerVars, gone>>
  BY Typed DEF Seal, Goto, IInv, Disk, Progress, Making
<1>2. /\ vol' \in [Vols -> VolumeType]
      /\ \A v \in Vols : /\ vol'[v].first = vol[v].first /\ vol'[v].last = vol[v].last
                         /\ v # Active => vol'[v] = vol[v]
      /\ Active # None => vol'[Active].state = "sealed"
  BY Typed DEF Seal, IInv, DiskTyped, VolumeType
<1>3. DiskTyped' /\ ThreadTyped'
  BY <1>1, <1>2 DEF IInv, DiskTyped, ThreadTyped, catalogVars, readerVars
<1>4. Top' = Top /\ Stored' = Stored /\ Held' /\ EachRecordOnce' /\ Division'
  <2>1. \A v \in (index \cup {Active}) \ {None} :
            /\ vol'[v].first = vol[v].first /\ vol'[v].last = vol[v].last
            /\ v \in retiring \/ ~Whole(v) \/ Whole(v)'
    BY <1>2, Typed DEF IInv, DiskTyped, Whole
  <2>2. session.last <= Top
    BY DEF IInv, Division
  <2> QED
    BY <1>1, <2>1, <2>2, RecordsFrame DEF IInv, catalogVars, readerVars
<1>5. Active' = Active /\ Phases' /\ (ThreadsRun => ThreadsRun')
  BY <1>1 DEF IInv, Phases, Active, Making, Rotating, ThreadsRun, Starting, readerVars
<1>6. Disk'
  <2>1. retire' # None => retire' \in retiring' /\ (ThreadsRun' \/ pc' = "catalog")
    BY <1>1, <1>5 DEF IInv, Disk, catalogVars, readerVars
  <2>2. vol'[new] = vol[new] /\ \A v \in index : v # Active => vol'[v] = vol[v]
    BY <1>1, <1>2 DEF IInv, DiskTyped
  <2>3. /\ \A v \in index' \ retiring' : vol'[v].state = "sealed"
        /\ \A v \in retiring' : vol'[v].state \in {"sealed", "nodb", "bare", "deleted"}
    BY <1>1, <1>2, <2>2, Typed DEF IInv, Disk, DiskTyped, catalogVars
  <2>4. /\ new \notin index' /\ session'.first = Top' + 1 /\ vol'[new].state = "active"
        /\ vol'[new].first = session'.first /\ vol'[new].last = session'.first - 1
    BY <1>1, <1>4, <2>2 DEF IInv, Disk, catalogVars
  <2>5. /\ Active' # None => Whole(Active)' /\ Active' \notin retiring'
        /\ Active' \in index' => vol'[Active'].state = "sealed"
    BY <1>1, <1>2, <1>5, Typed DEF IInv, Disk, DiskTyped, Whole, catalogVars
  <2>6. session'.pending = new /\ new # Active'
    BY <1>1, <1>5
  <2> QED
    BY <2>1, <2>3, <2>4, <2>5, <2>6 DEF Disk
<1>7. Progress' /\ StartsUnlessHalfMade'
  BY <1>1, <1>2, <1>5 DEF IInv, Progress, StartsUnlessHalfMade, Making
<1> QED
  BY <1>1, <1>3, <1>4, <1>5, <1>6, <1>7 DEF IInv, LogStutters, catalogVars

\* Its ids become those of a sealed volume.
LEMMA IndexKeeps ==
    ASSUME RotationAssumption, IInv, Index
    PROVE  IInv' /\ LogStutters
<1> DEFINE new == session.pending
<1>1. /\ pc = "index" /\ new # None /\ new \in Vols /\ new # Active
      /\ new \notin index /\ vol[new].state = "active" /\ retire = None
      /\ Active # None => vol[Active].state = "sealed"
  BY Typed DEF Index, IInv, Disk, Progress, Making
<1>2. /\ high \in Nat /\ high <= Top /\ Top <= importNext /\ importNext \in Nat
      /\ allocated \in Nat /\ MaxId \in Nat
  <2>1. high \in Nat /\ importNext \in Nat /\ allocated \in Nat /\ Top \in Nat
    BY Typed, Constants DEF IInv, DiskTyped, Ids
  <2> QED
    BY <2>1, Constants DEF IInv, Division
<1>3. /\ UNCHANGED <<vol, session, retiring, allocated, importNext, ctx, batch, faulted,
                     readerVars, gone>>
      /\ pc' = "point"
      /\ \/ (Active = None \/ Active \in index) /\ index' = index /\ high' = high
         \/ /\ Active # None /\ Active \notin index
            /\ index' = index \cup {Active} /\ high' = Top
  <2>1. CASE Active = None \/ Active \in index
    BY <2>1 DEF Index, Goto, disk, catalogVars
  <2>2. CASE Active # None /\ Active \notin index
    <3>1. vol[Active].first > high /\ vol[Active].last = Top
      BY <2>2 DEF IInv, Division, Top
    <3>2. vol[Active].first \in Nat
      BY <2>2, Typed
    <3>3. ~(Records(Active) # {} /\ (vol[Active].first <= high \/ vol[Active].last > importNext))
      BY <1>2, <3>1, <3>2, Typed
    <3>4. Larger(high, vol[Active].last) = Top
      BY <1>2, <3>1, Typed DEF Larger
    <3> QED
      BY <2>2, <3>3, <3>4 DEF Index, Goto
  <2> QED
    BY <2>1, <2>2
<1>4. /\ Active' = Active /\ Top' = Top /\ index' \ {Active} = index \ {Active}
      /\ index \subseteq index' /\ index' \subseteq Vols
      /\ Active = None \/ Active \in index'
  BY <1>3, Typed DEF Active, Top, IInv, DiskTyped
<1>5. DiskTyped' /\ ThreadTyped'
  <2>1. high' \in Ids
    BY <1>2, <1>3, Typed, Constants DEF IInv, DiskTyped, Top, Ids, VolumeType
  <2> QED
    BY <1>3, <1>4, <2>1 DEF IInv, DiskTyped, ThreadTyped, readerVars
<1>6. Visible' = Visible /\ Stored' = Stored /\ EachRecordOnce'
  <2>1. Visible' = Visible
    BY <1>3, <1>4 DEF Visible, IInv, Disk
  <2>2. \A v \in Visible : Records(v)' = Records(v)
    BY <1>3 DEF Records
  <2> QED
    BY <2>1, <2>2 DEF Stored, EachRecordOnce, IInv
<1>7. Held'
  BY <1>3, <1>4 DEF IInv, Held, Whole, readerVars
<1>8. Division'
  <2>1. \A v \in index' : vol'[v].last <= high' \/ vol'[v].first > importNext'
    <3>1. \A v \in index : vol[v].last \in Nat
      BY Typed DEF IInv, DiskTyped
    <3>2. high <= high' /\ high' \in Nat
      BY <1>2, <1>3, Typed
    <3>3. \A v \in index : vol[v].last <= high' \/ vol[v].first > importNext
      BY <1>2, <3>1, <3>2 DEF IInv, Division
    <3>4. Active # None /\ Active \notin index => vol[Active].last <= high'
      BY <1>2, <1>3, Typed DEF Top
    <3> QED
      BY <1>3, <3>3, <3>4
  <2>2. Active' # None /\ Active' \notin index' => vol'[Active'].first > high'
    BY <1>4
  <2>3. high' <= Top'
    BY <1>2, <1>3, <1>4, Typed
  <2> QED
    BY <1>3, <1>4, <1>6, <2>1, <2>2, <2>3 DEF IInv, Division
<1>9. Phases' /\ (ThreadsRun => ThreadsRun')
  BY <1>1, <1>3, <1>4 DEF IInv, Phases, Making, Rotating, ThreadsRun, Starting, readerVars
<1>10. Disk'
  <2>1. /\ \A v \in index' \ retiring' : vol'[v].state = "sealed"
        /\ \A v \in retiring' : vol'[v].state \in {"sealed", "nodb", "bare", "deleted"}
    BY <1>1, <1>3, <1>4 DEF IInv, Disk
  <2> QED
    <3>1. /\ new \notin index' /\ session'.first = Top' + 1 /\ vol'[new].state = "active"
          /\ vol'[new].first = session'.first /\ vol'[new].last = session'.first - 1
      BY <1>1, <1>3, <1>4 DEF IInv, Disk
    <3>2. Active' # None => Whole(Active)' /\ Active' \notin retiring'
      BY <1>3, <1>4 DEF IInv, Disk, Whole
    <3>3. Active' \in index' => vol'[Active'].state = "sealed"
      BY <1>1, <1>3, <1>4, Typed
    <3>4. retire' = None /\ session'.pending = new /\ new # Active'
      BY <1>1, <1>3, <1>4 DEF readerVars
    <3> QED
      BY <2>1, <3>1, <3>2, <3>3, <3>4 DEF Disk
<1>11. Progress' /\ StartsUnlessHalfMade'
  BY <1>1, <1>3, <1>4 DEF Progress, StartsUnlessHalfMade, Making
<1> QED
  BY <1>4, <1>3, <1>5, <1>6, <1>7, <1>8, <1>9, <1>10, <1>11 DEF IInv, LogStutters

\* Whatever was the active volume is in the index by now, and the new one is empty.
LEMMA PointKeeps ==
    ASSUME RotationAssumption, IInv, Point
    PROVE  IInv' /\ LogStutters
<1> DEFINE new == session.pending
<1>1. /\ pc = "point" /\ new # None /\ new \in Vols /\ new # Active /\ new \notin index
      /\ vol[new].state = "active" /\ vol[new].first = Top + 1 /\ vol[new].last = Top
      /\ Active = None \/ Active \in index
  <2>1. /\ pc = "point" /\ new # None /\ new \in Vols /\ new # Active /\ new \notin index
        /\ vol[new].state = "active" /\ (Active = None \/ Active \in index)
    BY Typed DEF Point, IInv, Disk, Progress, Making
  <2>2. vol[new].first = session.first /\ vol[new].last = session.first - 1
    BY <2>1 DEF IInv, Disk
  <2>3. session.first = Top + 1
    BY <2>1 DEF IInv, Disk
  <2> QED
    BY <2>1, <2>2, <2>3, Typed
<1>2. /\ UNCHANGED <<vol, catalogVars, batch, faulted, retire, snapshots, gone>>
      /\ session' \in SessionType /\ session'.active = new /\ session'.pending = None
      /\ session'.last = session.last
  <2>1. session \in SessionType /\ 0 \in Ids
    BY Constants DEF IInv, DiskTyped, Ids
  <2> QED
    BY <1>1, <2>1 DEF Point, SessionType
<1>3. \/ ctx = "append" /\ pc' = "reserve" /\ ctx' = "append" /\ queried' = new
      \/ ctx \in {"finish", "made"} /\ pc' = "reconcile" /\ ctx' = ctx /\ queried' = queried
      \/ ctx = "renew" /\ pc' = "idle" /\ ctx' = "append" /\ queried' = new
  BY <1>1 DEF Point, IInv, ThreadTyped, Phases, Rotating, Making
<1>4. Active' = new /\ Top' = Top
  BY <1>1, <1>2 DEF Active, Top
<1>5. DiskTyped' /\ ThreadTyped'
  BY <1>1, <1>2, <1>3 DEF IInv, DiskTyped, ThreadTyped, catalogVars
<1>6. Stored' = Stored /\ EachRecordOnce'
  <2>1. Visible' = Visible \cup {new}
    BY <1>1, <1>2, <1>4, Typed DEF Visible, IInv, Disk, DiskTyped, catalogVars
  <2>2. \A v : Records(v)' = Records(v)
    BY <1>2 DEF Records
  <2>3. Records(new) = {}
    BY <1>1, Typed DEF Records
  <2>4. Stored' = Stored
    BY <2>1, <2>2, <2>3 DEF Stored
  <2> QED
    BY <2>1, <2>2, <2>3, <2>4 DEF EachRecordOnce, IInv
<1>7. Held'
  <2>1. \A s \in snapshots : s.active # None
    BY Typed DEF IInv, DiskTyped
  <2> QED
    BY <1>1, <1>2, <1>4, <2>1 DEF IInv, Held, Whole, catalogVars
<1>8. Division'
  <2>1. vol[new].first > high
    BY <1>1, Typed DEF IInv, Division, DiskTyped, Ids
  <2> QED
    BY <1>2, <1>3, <1>4, <1>6, <2>1 DEF IInv, Division, catalogVars
<1>9. Phases' /\ (ThreadsRun => ThreadsRun')
  BY <1>1, <1>3, <1>4 DEF IInv, Phases, Making, Rotating, ThreadsRun, Starting
<1>10. Disk'
  <2>1. retire' # None => retire' \in retiring' /\ (ThreadsRun' \/ pc' = "catalog")
    BY <1>1, <1>2, <1>9 DEF IInv, Disk, catalogVars
  <2>2. Whole(Active)' /\ Active' \notin retiring' /\ Active' \notin index'
    BY <1>1, <1>2, <1>4 DEF Whole, IInv, DiskTyped, catalogVars
  <2> QED
    BY <1>2, <2>1, <2>2 DEF IInv, Disk, catalogVars
<1>11. Progress' /\ StartsUnlessHalfMade'
  BY <1>3 DEF Progress, StartsUnlessHalfMade, Making
<1> QED
  BY <1>2, <1>4, <1>5, <1>6, <1>7, <1>8, <1>9, <1>10, <1>11 DEF IInv, LogStutters, catalogVars

-----------------------------------------------------------------------------
(* Writing                                                                  *)

\* The ids of a batch are reserved in front of those that imports have taken.
LEMMA ReserveKeeps ==
    ASSUME RotationAssumption, IInv, Reserve
    PROVE  IInv' /\ LogStutters
<1> DEFINE last == vol[Active].last + batch
<1>1. /\ pc = "reserve" /\ retire = None /\ ctx = "append" /\ Active # None /\ queried = Active
      /\ ThreadsRun /\ ~Starting
  BY DEF Reserve, IInv, Phases, ThreadsRun, Starting
<1>2. CASE vol[Active].state = "sealed" \/ session.pending # None \/ last > importNext
  <2>1. Refuse
    BY <1>2 DEF Reserve
  <2> QED
    BY <1>1, <2>1, RefuseKeeps
<1>3. CASE ~(vol[Active].state = "sealed" \/ session.pending # None \/ last > importNext)
  <2>1. /\ last = Top + batch /\ last \in Nat /\ last <= importNext /\ importNext \in Nat
        /\ importNext <= MaxId /\ allocated \in Nat /\ allocated <= importNext
        /\ MaxId \in Nat
    <3>1. batch \in Nat /\ allocated \in Nat /\ importNext \in Nat /\ importNext <= MaxId
      BY Constants DEF IInv, ThreadTyped, DiskTyped, Ids
    <3>2. allocated <= importNext
      BY DEF IInv, Division
    <3>3. last = Top + batch /\ last \in Nat
      BY <1>1, <3>1, Typed DEF Top
    <3> QED
      BY <1>3, <3>1, <3>2, <3>3, Constants
  <2> HIDE DEF last
  <2>2. /\ allocated' = Larger(allocated, last) /\ pc' = "write"
        /\ UNCHANGED <<vol, session, index, retiring, high, importNext, ctx, batch, faulted,
                       readerVars, gone>>
    BY <1>3 DEF Reserve, Goto, last
  <2>3. /\ allocated' \in Ids /\ allocated <= allocated' /\ last <= allocated'
        /\ allocated' <= importNext
    BY <2>1, <2>2 DEF Larger, Ids
  <2>4. Active' = Active /\ Top' = Top /\ Visible' = Visible /\ \A v : Records(v)' = Records(v)
    BY <2>2 DEF Active, Top, Visible, Records
  <2>5. DiskTyped' /\ ThreadTyped'
    BY <2>2, <2>3 DEF IInv, DiskTyped, ThreadTyped, readerVars
  <2>6. Held' /\ EachRecordOnce' /\ Stored' = Stored
    BY <2>2, <2>4 DEF IInv, Held, EachRecordOnce, Stored, Whole, readerVars
  <2>7. Division'
    <3>1. session.pending = None /\ vol[Active].state = "active" /\ Top + batch <= allocated'
      BY <1>1, <1>3, <2>1, <2>3 DEF IInv, Disk, Whole
    <3>2. Top <= allocated'
      <4>1. Top <= allocated /\ allocated' \in Nat
        BY <2>3, Constants DEF IInv, Division, Ids
      <4> QED
        BY <2>1, <2>3, <4>1, Typed
    <3> QED
      BY <1>1, <2>2, <2>3, <2>4, <2>6, <3>1, <3>2 DEF IInv, Division
  <2>8. Phases'
    BY <1>1, <2>2, <2>4 DEF IInv, Phases, Making, Rotating, ThreadsRun, Starting, readerVars
  <2>9. Disk'
    BY <1>1, <2>2, <2>4 DEF IInv, Disk, Whole, readerVars
  <2>10. Progress' /\ StartsUnlessHalfMade'
    BY <2>2 DEF Progress, StartsUnlessHalfMade, Making
  <2> QED
    BY <2>4, <2>2, <2>5, <2>6, <2>7, <2>8, <2>9, <2>10 DEF IInv, LogStutters
<1> QED
  BY <1>2, <1>3

\* A batch takes the next ids, which nothing else has or had.
LEMMA WriteKeeps ==
    ASSUME RotationAssumption, IInv, Write
    PROVE  /\ IInv' /\ Top' = Top + batch /\ Top + batch <= importNext
           /\ Stored' = Stored \cup ((Top + 1) .. (Top + batch))
<1>1. /\ pc = "write" /\ Active # None /\ Active \in Vols /\ vol[Active].state = "active"
      /\ Active \notin index /\ session.pending = None /\ ctx = "append"
      /\ Top = vol[Active].last /\ Top \in Nat /\ batch \in Nat
  <2>1. batch \in Nat
    BY Constants DEF IInv, ThreadTyped
  <2> QED
    BY <2>1, Typed DEF Write, IInv, Division, Disk, Phases, Top
<1>2. /\ Top + batch <= allocated /\ allocated <= importNext /\ importNext <= MaxId
      /\ allocated \in Nat /\ importNext \in Nat /\ MaxId \in Nat /\ high \in Nat /\ high <= Top
  BY <1>1, Constants DEF IInv, Division, DiskTyped, Ids
<1>3. /\ vol' \in [Vols -> VolumeType]
      /\ vol'[Active].first = vol[Active].first /\ vol'[Active].last = Top + batch
      /\ vol'[Active].state = "active"
      /\ \A v \in Vols : v # Active => vol'[v] = vol[v]
      /\ pc' = "position" /\ batch' = 0
      /\ UNCHANGED <<session, catalogVars, ctx, faulted, readerVars, gone>>
  <2>1. Top + batch \in Ids
    BY <1>1, <1>2 DEF Ids
  <2> QED
    BY <1>1, <2>1 DEF Write, IInv, DiskTyped, VolumeType
<1>4. Active' = Active /\ Top' = Top + batch /\ Visible' = Visible
  BY <1>1, <1>3 DEF Active, Top, Visible, catalogVars
<1>5. DiskTyped' /\ ThreadTyped'
  <2>1. \A v \in Vols : vol'[v].first <= vol'[v].last + 1
    <3>1. vol[Active].first <= Top + 1 /\ vol[Active].first \in Nat
      BY <1>1, Typed DEF IInv, DiskTyped
    <3>2. vol'[Active].first <= vol'[Active].last + 1
      BY <1>1, <1>3, <3>1
    <3> QED
      BY <1>3, <3>2 DEF IInv, DiskTyped
  <2>2. 0 \in 0..MaxBatch
    BY Constants
  <2> QED
    BY <1>3, <2>1, <2>2 DEF IInv, DiskTyped, ThreadTyped, catalogVars, readerVars
<1>6. /\ \A v \in Visible : v # Active => Records(v)' = Records(v)
      /\ Records(Active)' = Records(Active) \cup ((Top + 1) .. (Top + batch))
      /\ Active \in Visible /\ Visible \subseteq Vols
  <2>1. vol[Active].first <= Top + 1 /\ vol[Active].first \in Nat
    BY <1>1, Typed DEF IInv, DiskTyped
  <2>2. (vol[Active].first .. (Top + batch)) =
            (vol[Active].first .. Top) \cup ((Top + 1) .. (Top + batch))
    BY <1>1, <2>1
  <2>3. Active \in Visible /\ Visible \subseteq Vols
    BY <1>1 DEF Visible, IInv, DiskTyped
  <2> QED
    BY <1>1, <1>3, <1>4, <2>2, <2>3 DEF Records
<1>7. Stored' = Stored \cup ((Top + 1) .. (Top + batch))
  BY <1>4, <1>6 DEF Stored
<1>8. \A v \in Visible : v # Active => Records(v) \cap ((Top + 1) .. (Top + batch)) = {}
  <2> SUFFICES ASSUME NEW v \in Visible, v # Active
               PROVE  Records(v) \cap ((Top + 1) .. (Top + batch)) = {}
    OBVIOUS
  <2>1. v \in Vols /\ (vol[v].last <= high \/ vol[v].first > importNext)
    BY <1>6 DEF Visible, IInv, Division
  <2> QED
    BY <1>1, <1>2, <2>1, Typed DEF Records
<1>9. EachRecordOnce'
  <2>1. \A v, w \in Visible : v # w => Records(v) \cap Records(w) = {}
    BY DEF IInv, EachRecordOnce
  <2>2. \A v, w \in Visible : v # w => Records(v)' \cap Records(w)' = {}
    <3>1. \A v \in Visible : v # Active =>
              Records(v)' = Records(v) /\ Records(Active)' \cap Records(v)' = {}
      BY <1>6, <1>8, <2>1
    <3> SUFFICES ASSUME NEW v \in Visible, NEW w \in Visible, v # w
                 PROVE  Records(v)' \cap Records(w)' = {}
      OBVIOUS
    <3>2. CASE v = Active
      BY <1>4, <3>1, <3>2 DEF Records
    <3>3. CASE w = Active
      BY <1>4, <3>1, <3>3 DEF Records
    <3>4. CASE v # Active /\ w # Active
      BY <2>1, <3>1, <3>4
    <3> QED
      BY <3>2, <3>3, <3>4
  <2> QED
    BY <1>4, <2>2 DEF EachRecordOnce
<1>10. Held'
  <2>1. \A v \in Vols : vol[v].last <= vol'[v].last /\ (Whole(v) => Whole(v)')
    BY <1>1, <1>3, Typed DEF Whole
  <2>2. \A s \in snapshots : /\ \A v \in s.sealed \cup {s.active} : v \in Vols
                             /\ s.cutoff \in Nat
    BY DEF IInv, DiskTyped
  <2>3. \A v \in Vols : vol'[v].last \in Nat
    BY <1>3, Constants DEF VolumeType, Ids
  <2>4. \A s \in snapshots : s.cutoff <= vol'[s.active].last
    BY <2>1, <2>2, <2>3, Typed DEF IInv, Held
  <2> QED
    BY <1>3, <1>4, <2>1, <2>2, <2>4 DEF IInv, Held, catalogVars, readerVars
<1>11. Division'
  <2>1. \A g \in gone : g \in Nat /\ (g <= Top \/ g > importNext) /\ g \notin Stored
    BY DEF IInv, Division, DiskTyped
  <2>2. /\ \A g \in gone : g <= Top + batch \/ g > importNext
        /\ gone \cap Stored' = {}
    BY <1>1, <1>2, <1>7, <2>1
  <2>3. session.last <= Top + batch /\ high <= Top + batch
    BY <1>1, <1>2, Typed DEF IInv, Division
  <2>4. \A v \in index : vol'[v] = vol[v]
    BY <1>1, <1>3 DEF IInv, DiskTyped
  <2>5. /\ vol'[Active].first > high
        /\ \A v \in index : vol[v].last <= high \/ vol[v].first > importNext
    BY <1>1, <1>3 DEF IInv, Division
  <2> QED
    BY <1>2, <1>3, <1>4, <2>2, <2>3, <2>4, <2>5 DEF Division, catalogVars
<1>12. Phases' /\ (ThreadsRun => ThreadsRun')
  BY <1>1, <1>3, <1>4 DEF IInv, Phases, Making, Rotating, ThreadsRun, Starting, readerVars
<1>13. Disk'
  <2>1. retire' # None => retire' \in retiring' /\ (ThreadsRun' \/ pc' = "catalog")
    BY <1>1, <1>3, <1>12 DEF IInv, Disk, catalogVars, readerVars
  <2>2. \A v \in index : vol'[v] = vol[v]
    BY <1>1, <1>3 DEF IInv, DiskTyped
  <2>3. Whole(Active)' /\ Active' \notin retiring' /\ Active' \notin index'
    BY <1>1, <1>3, <1>4 DEF Whole, IInv, DiskTyped, catalogVars
  <2> QED
    BY <1>1, <1>3, <2>1, <2>2, <2>3 DEF IInv, Disk, DiskTyped, catalogVars
<1>14. Progress' /\ StartsUnlessHalfMade'
  BY <1>3 DEF Progress, StartsUnlessHalfMade, Making
<1> QED
  BY <1>2, <1>4, <1>5, <1>7, <1>9, <1>10, <1>11, <1>12, <1>13, <1>14, <1>1 DEF IInv

-----------------------------------------------------------------------------
(* Imports, retention and snapshots                                         *)

\* An imported volume takes ids that no live record has or has reserved.
LEMMA ImportKeeps ==
    ASSUME RotationAssumption, IInv, NEW n \in 1..MaxBatch, Import(n)
    PROVE  /\ IInv' /\ Top' = Top /\ importNext' \in Nat /\ importNext' <= importNext
           /\ Top <= importNext'
           /\ Stored' = Stored \cup ((importNext' + 1) .. importNext)
<1> DEFINE base == importNext - n
<1>1. PICK new \in Vols :
          new = NewIdentity /\ vol[new].state = "unused" /\ new # session.pending
  BY NewIdentityUnused DEF Import, Unused
<1>2. /\ base \in Nat /\ base < importNext /\ importNext \in Nat /\ importNext <= MaxId
      /\ MaxId \in Nat /\ high <= base /\ allocated <= base /\ high \in Nat /\ allocated \in Nat
      /\ Top <= allocated /\ Top \in Nat /\ Top <= base
  <2>1. /\ importNext \in Nat /\ importNext <= MaxId /\ MaxId \in Nat /\ high \in Nat
        /\ allocated \in Nat /\ n \in Nat /\ n > 0
    BY Constants DEF IInv, DiskTyped, Ids
  <2>2. base >= 0 /\ base >= high /\ base >= allocated
    BY DEF Import, MayImport
  <2>3. Top <= allocated /\ Top \in Nat
    BY Typed DEF IInv, Division
  <2> QED
    BY <2>1, <2>2, <2>3
<1>3. /\ vol' = [vol EXCEPT ![new] = [state |-> "sealed", first |-> base + 1,
                                      last |-> importNext]]
      /\ index' = index \cup {new} /\ importNext' = base
      /\ ThreadsRun /\ retire = None
      /\ UNCHANGED <<session, retiring, high, allocated, pc, ctx, batch, faulted, readerVars, gone>>
  BY <1>1 DEF Import
<1> HIDE DEF base
<1>4. /\ vol' \in [Vols -> VolumeType] /\ \A v \in Vols : v # new => vol'[v] = vol[v]
      /\ vol'[new].state = "sealed" /\ vol'[new].first = base + 1 /\ vol'[new].last = importNext
  <2>1. [state |-> "sealed", first |-> base + 1, last |-> importNext] \in VolumeType
    BY <1>2 DEF VolumeType, Ids
  <2> QED
    BY <1>1, <1>3, <2>1 DEF IInv, DiskTyped
<1>5. new \notin index /\ new # Active /\ new \notin retiring /\ new # None
  BY <1>1, Typed DEF IInv, Disk, DiskTyped, Whole
<1>6. /\ Active' = Active /\ (Active # None => vol'[Active] = vol[Active]) /\ Top' = Top
      /\ \A v \in index : vol'[v] = vol[v]
      /\ session.pending # None => vol'[session.pending] = vol[session.pending]
  BY <1>1, <1>3, <1>4, <1>5, Typed DEF Active, Top, IInv, DiskTyped
<1>7. DiskTyped' /\ ThreadTyped'
  <2>1. base \in Ids
    BY <1>2 DEF Ids
  <2>2. \A v \in Vols : vol'[v].first <= vol'[v].last + 1
    BY <1>2, <1>4 DEF IInv, DiskTyped
  <2> QED
    BY <1>1, <1>3, <1>4, <2>1, <2>2 DEF IInv, DiskTyped, ThreadTyped, readerVars
<1>8. /\ Visible' = Visible \cup {new} /\ Visible \subseteq Vols /\ new \notin Visible
      /\ \A v \in Visible : Records(v)' = Records(v)
      /\ Records(new)' = (base + 1) .. importNext
  <2>1. Visible' = Visible \cup {new} /\ Visible \subseteq Vols /\ new \notin Visible
    BY <1>3, <1>5, <1>6, Typed DEF Visible, IInv, DiskTyped
  <2>2. \A v \in Visible : vol'[v] = vol[v]
    BY <1>4, <2>1
  <2>3. \A v \in Visible : Records(v)' = Records(v)
    BY <2>2 DEF Records
  <2>4. Records(new)' = (base + 1) .. importNext
    BY <1>4 DEF Records
  <2> QED
    BY <2>1, <2>3, <2>4
<1>9. Stored' = Stored \cup ((base + 1) .. importNext)
  <2> DEFINE imported == (base + 1) .. importNext
  <2>1. Records(new)' = imported
    BY <1>8
  <2> HIDE DEF imported
  <2>2. Stored' = Stored \cup imported
    BY <1>8, <2>1 DEF Stored
  <2> QED
    BY <2>2 DEF imported
<1>10. \A v \in Visible : Records(v) \cap ((base + 1) .. importNext) = {}
  <2> SUFFICES ASSUME NEW v \in Visible
               PROVE  Records(v) \cap ((base + 1) .. importNext) = {}
    OBVIOUS
  <2>1. v \in Vols /\ (vol[v].last <= base \/ vol[v].first > importNext)
    <3>1. CASE v = Active
      BY <1>2, <1>8, <3>1, Typed DEF Top
    <3>2. CASE v # Active
      <4>1. vol[v].last <= high \/ vol[v].first > importNext
        BY <3>2 DEF Visible, IInv, Division
      <4> QED
        BY <1>2, <1>8, <4>1, Typed
    <3> QED
      BY <3>1, <3>2
  <2> QED
    BY <1>2, <2>1, Typed DEF Records
<1>11. EachRecordOnce'
  <2>1. \A v, w \in Visible : v # w => Records(v) \cap Records(w) = {}
    BY DEF IInv, EachRecordOnce
  <2> SUFFICES ASSUME NEW v \in Visible', NEW w \in Visible', v # w
               PROVE  Records(v)' \cap Records(w)' = {}
    BY DEF EachRecordOnce
  <2>2. CASE v = new
    BY <1>4, <1>8, <1>10, <2>2 DEF Records
  <2>3. CASE w = new
    BY <1>4, <1>8, <1>10, <2>3 DEF Records
  <2>4. CASE v # new /\ w # new
    BY <1>8, <2>1, <2>4
  <2> QED
    BY <2>2, <2>3, <2>4
<1>12. Held'
  <2>1. \A s \in snapshots : \A v \in s.sealed \cup {s.active} :
            v \in Vols /\ v # new /\ Whole(v) /\ v \notin retiring
    BY <1>1, <1>5 DEF IInv, Held, DiskTyped, Whole
  <2> QED
    BY <1>3, <1>4, <1>6, <2>1 DEF IInv, Held, Whole, readerVars
<1>13. Division'
  <2>1. \A g \in gone : g \in Nat /\ (g <= Top \/ g > importNext) /\ g \notin Stored
    BY DEF IInv, Division, DiskTyped
  <2>2. /\ \A g \in gone : g <= Top \/ g > base
        /\ gone \cap Stored' = {}
    BY <1>2, <1>9, <2>1
  <2>3. \A v \in index' : vol'[v].last <= high \/ vol'[v].first > base
    <3>1. \A v \in index : v \in Vols /\ (vol[v].last <= high \/ vol[v].first > importNext)
      BY DEF IInv, Division, DiskTyped
    <3>2. \A v \in index : vol[v].last <= high \/ vol[v].first > base
      BY <1>2, <3>1, Typed
    <3>3. vol'[new].first > base
      BY <1>2, <1>4
    <3> QED
      BY <1>3, <1>6, <3>2, <3>3
  <2>4. /\ session'.last <= Top' /\ high' <= Top' /\ Top' <= allocated' /\ allocated' <= importNext'
        /\ Active' # None /\ Active' \notin index' => vol'[Active'].first > high'
    BY <1>2, <1>3, <1>6 DEF IInv, Division
  <2>5. pc' = "write" =>
            /\ session'.pending = None /\ Active' # None
            /\ vol'[Active'].state = "active" /\ Top' + batch' <= allocated'
    BY <1>3, <1>6 DEF IInv, Division
  <2> QED
    BY <1>3, <1>6, <2>2, <2>3, <2>4, <2>5 DEF Division
<1>14. Phases' /\ (ThreadsRun => ThreadsRun')
  BY <1>3, <1>6 DEF IInv, Phases, Making, Rotating, ThreadsRun, Starting, readerVars
<1>15. Disk'
  <2>1. /\ \A v \in index' \ retiring' : vol'[v].state = "sealed"
        /\ \A v \in retiring' : vol'[v].state \in {"sealed", "nodb", "bare", "deleted"}
        /\ Active' # None => Whole(Active)' /\ Active' \notin retiring'
        /\ Active' \in index' => vol'[Active'].state = "sealed"
        /\ retire' = None
    BY <1>3, <1>4, <1>5, <1>6 DEF IInv, Disk, DiskTyped, Whole, readerVars
  <2>2. session'.pending # None =>
            /\ session'.pending # Active' /\ session'.pending \notin index'
            /\ session'.first = Top' + 1
            /\ vol'[session'.pending].state \in {"unused", "dir", "blank", "active"}
            /\ vol'[session'.pending].state = "active" =>
                  vol'[session'.pending].first = session'.first
                  /\ vol'[session'.pending].last = session'.first - 1
    BY <1>1, <1>3, <1>6 DEF IInv, Disk
  <2> QED
    BY <2>1, <2>2 DEF Disk
<1>16. Progress' /\ StartsUnlessHalfMade'
  BY <1>3, <1>6 DEF IInv, Progress, StartsUnlessHalfMade, Making, Exhausted, Phases, ThreadsRun,
     Starting
<1> QED
  BY <1>2, <1>3, <1>6, <1>7, <1>9, <1>11, <1>12, <1>13, <1>14, <1>15, <1>16 DEF IInv

\* The oldest volume is given up: its ids are gone, and nobody uses it.
LEMMA RetainKeeps ==
    ASSUME RotationAssumption, IInv, NEW v \in Vols, Retain(v)
    PROVE  /\ IInv' /\ Top' = Top /\ Records(v) \subseteq Stored /\ Stored' = Stored \ Records(v)
           /\ Records(v) \cap gone = {}
<1>1. /\ ThreadsRun /\ queried = Active /\ retiring = {} /\ v \in index /\ v # Active
      /\ v \in Visible /\ v # None
      /\ \A s \in snapshots : v # s.active /\ v \notin s.sealed
  BY Typed DEF Retain, IInv, Phases, Pinned, Visible
<1>2. /\ retiring' = {v} /\ retire' = v /\ gone' = gone \cup Records(v)
      /\ UNCHANGED <<vol, session, index, high, allocated, importNext, pc, ctx, batch, faulted,
                     queried, snapshots>>
  BY DEF Retain
<1>3. Active' = Active /\ Top' = Top /\ Visible' = Visible \ {v}
  BY <1>1, <1>2 DEF Active, Top, Visible
<1>4. \A w : Records(w)' = Records(w)
  BY <1>2 DEF Records
<1>5. EachRecordOnce' /\ Stored' = Stored \ Records(v) /\ Records(v) \subseteq Stored
  BY <1>1, <1>3, <1>4 DEF IInv, EachRecordOnce, Stored
<1>6. DiskTyped' /\ ThreadTyped'
  <2>1. Records(v) \subseteq Nat
    BY Typed DEF Records
  <2> QED
    BY <1>1, <1>2, <2>1 DEF IInv, DiskTyped, ThreadTyped
<1>7. Held'
  BY <1>1, <1>2, <1>3 DEF IInv, Held, Whole
<1>8. Division'
  <2>1. \A g \in gone' : g <= Top \/ g > importNext
    <3>1. vol[v].last <= high \/ vol[v].first > importNext
      BY <1>1 DEF IInv, Division
    <3>2. high <= Top /\ high \in Nat /\ importNext \in Nat
      BY Constants DEF IInv, Division, DiskTyped, Ids
    <3>3. \A g \in Records(v) : g <= Top \/ g > importNext
      BY <3>1, <3>2, Typed DEF Records
    <3> QED
      BY <1>2, <3>3 DEF IInv, Division
  <2> QED
    BY <1>2, <1>3, <1>5, <2>1 DEF IInv, Division
<1>9. Phases' /\ (ThreadsRun => ThreadsRun')
  BY <1>2, <1>3 DEF IInv, Phases, Making, Rotating, ThreadsRun, Starting
<1>10. Disk'
  BY <1>1, <1>2, <1>3, <1>9 DEF IInv, Disk, Whole
<1>11. Progress' /\ StartsUnlessHalfMade'
  BY <1>2, <1>3 DEF IInv, Progress, StartsUnlessHalfMade, Making, Exhausted
<1>12. Records(v) \cap gone = {}
  BY <1>5 DEF IInv, Division
<1> QED
  BY <1>3, <1>5, <1>6, <1>7, <1>8, <1>9, <1>10, <1>11, <1>12 DEF IInv

\* A retired volume is deleted step by step, and then it leaves the index.
LEMMA RetirementKeeps ==
    ASSUME RotationAssumption, IInv,
           Delete("sealed", "nodb") \/ Delete("nodb", "bare") \/ Delete("bare", "deleted")
           \/ EndRetirement
    PROVE  IInv' /\ LogStutters
<1>1. /\ retire \in retiring /\ retire \in index /\ retire \in Vols /\ retire # Active
      /\ retire # session.pending /\ (ThreadsRun \/ pc = "catalog")
      /\ UNCHANGED <<session, high, allocated, importNext, pc, ctx, batch, faulted, queried,
                     snapshots, gone>>
  BY DEF Delete, EndRetirement, IInv, Disk, DiskTyped, catalogVars, readerVars
<1>2. CASE Delete("sealed", "nodb") \/ Delete("nodb", "bare") \/ Delete("bare", "deleted")
  <2>1. PICK to \in {"nodb", "bare", "deleted"} :
            vol' = [vol EXCEPT ![retire].state = to] /\ UNCHANGED <<index, retiring, retire>>
    BY <1>2 DEF Delete, catalogVars, readerVars
  <2>2. /\ vol' \in [Vols -> VolumeType]
        /\ \A v \in Vols : /\ vol'[v].first = vol[v].first /\ vol'[v].last = vol[v].last
                           /\ v # retire => vol'[v] = vol[v]
        /\ vol'[retire].state \in {"sealed", "nodb", "bare", "deleted"}
    BY <1>1, <2>1 DEF IInv, DiskTyped, VolumeType
  <2>3. DiskTyped' /\ ThreadTyped'
    BY <1>1, <2>1, <2>2 DEF IInv, DiskTyped, ThreadTyped
  <2>4. Active' = Active
    BY <1>1 DEF Active
  <2>5. Top' = Top /\ Stored' = Stored /\ Held' /\ EachRecordOnce' /\ Division'
    <3>1. \A v \in (index \cup {Active}) \ {None} :
              /\ vol'[v].first = vol[v].first /\ vol'[v].last = vol[v].last
              /\ v \in retiring \/ ~Whole(v) \/ Whole(v)'
      BY <1>1, <2>2, Typed DEF IInv, DiskTyped, Whole
    <3>2. session.last <= Top
      BY DEF IInv, Division
    <3>3. pc' = "write" => vol'[Active].state = vol[Active].state
      BY <1>1, <2>2, Typed DEF IInv, Division
    <3> QED
      BY <1>1, <2>1, <3>1, <3>2, <3>3, RecordsFrame DEF IInv
  <2>6. Stored' = Stored
    <3>1. Visible' = Visible /\ Visible \subseteq Vols
      BY <1>1, <2>1, <2>4, Typed DEF Visible, IInv, DiskTyped
    <3>2. \A v \in Visible : Records(v)' = Records(v)
      BY <2>2, <3>1 DEF Records
    <3> QED
      BY <3>1, <3>2 DEF Stored
  <2>7. Phases'
    BY <1>1, <2>4 DEF IInv, Phases, Making, Rotating, ThreadsRun, Starting
  <2>8. /\ session.pending # None => vol'[session.pending] = vol[session.pending]
        /\ Active # None => vol'[Active] = vol[Active]
    BY <1>1, <2>2, Typed
  <2>9. Disk'
    <3>1. /\ \A v \in index' \ retiring' : vol'[v].state = "sealed"
          /\ \A v \in retiring' : vol'[v].state \in {"sealed", "nodb", "bare", "deleted"}
      BY <1>1, <2>1, <2>2 DEF IInv, Disk, DiskTyped
    <3>2. retire' # None => retire' \in retiring' /\ (ThreadsRun' \/ pc' = "catalog")
      BY <1>1, <2>1 DEF ThreadsRun
    <3>3. /\ Active' # None => Whole(Active)' /\ Active' \notin retiring'
          /\ Active' \in index' => vol'[Active'].state = "sealed"
      BY <1>1, <2>1, <2>4, <2>8, Typed DEF IInv, Disk, DiskTyped, Whole
    <3>4. session'.pending # None =>
              /\ session'.pending # Active' /\ session'.pending \notin index'
              /\ session'.first = Top' + 1
              /\ vol'[session'.pending].state \in {"unused", "dir", "blank", "active"}
              /\ vol'[session'.pending].state = "active" =>
                    vol'[session'.pending].first = session'.first
                    /\ vol'[session'.pending].last = session'.first - 1
      BY <1>1, <2>1, <2>4, <2>5, <2>8 DEF IInv, Disk
    <3> QED
      BY <3>1, <3>2, <3>3, <3>4 DEF Disk
  <2>10. Progress' /\ StartsUnlessHalfMade'
    BY <1>1, <2>1, <2>4, <2>5, <2>8
    DEF IInv, Progress, StartsUnlessHalfMade, Making, Exhausted, Phases, ThreadsRun, Starting
  <2> QED
    BY <1>1, <2>3, <2>5, <2>6, <2>7, <2>9, <2>10 DEF IInv, LogStutters
<1>3. CASE EndRetirement
  <2>1. /\ index' = index \ {retire} /\ retiring' = retiring \ {retire} /\ retire' = None
        /\ vol' = vol
    BY <1>3 DEF EndRetirement
  <2>2. Active' = Active /\ Top' = Top /\ Visible' = Visible
    BY <1>1, <2>1 DEF Active, Top, Visible
  <2>3. Stored' = Stored /\ EachRecordOnce'
    <3>1. \A v : Records(v)' = Records(v)
      BY <2>1 DEF Records
    <3> QED
      BY <2>2, <3>1 DEF Stored, EachRecordOnce, IInv
  <2>4. DiskTyped' /\ ThreadTyped'
    BY <1>1, <2>1 DEF IInv, DiskTyped, ThreadTyped
  <2>5. Held'
    BY <1>1, <2>1, <2>2 DEF IInv, Held, Whole
  <2>6. Division'
    BY <1>1, <2>1, <2>2, <2>3 DEF IInv, Division
  <2>7. Phases'
    BY <1>1, <2>1, <2>2 DEF IInv, Phases, Making, Rotating, ThreadsRun, Starting
  <2>8. Disk'
    BY <1>1, <2>1, <2>2 DEF IInv, Disk, Whole
  <2>9. Progress' /\ StartsUnlessHalfMade'
    BY <1>1, <2>1, <2>2
    DEF IInv, Progress, StartsUnlessHalfMade, Making, Exhausted, Phases, ThreadsRun, Starting
  <2> QED
    BY <1>1, <2>2, <2>3, <2>4, <2>5, <2>6, <2>7, <2>8, <2>9 DEF IInv, LogStutters
<1> QED
  BY <1>2, <1>3

\* A snapshot holds the active volume up to its last record, and what is in the index besides.
LEMMA SnapshotKeeps ==
    ASSUME RotationAssumption, IInv, TakeSnapshot
    PROVE  IInv' /\ LogStutters
<1>1. /\ ThreadsRun /\ Active # None /\ queried = Active /\ Active \in Vols /\ retire = None
      /\ vol[Active].last \in Nat
  BY Typed DEF TakeSnapshot, IInv, Phases
<1> DEFINE new == [active |-> Active, cutoff |-> vol[Active].last,
                   sealed |-> (index \ retiring) \ {Active}]
<1>2. /\ snapshots' = snapshots \cup {new}
      /\ UNCHANGED <<disk, pc, ctx, batch, faulted, queried, retire, gone>>
  BY <1>1 DEF TakeSnapshot, SealedSources
<1>3. Active' = Active /\ Top' = Top /\ Visible' = Visible /\ \A v : Records(v)' = Records(v)
  BY <1>2 DEF Active, Top, Visible, Records, disk, catalogVars
<1>4. DiskTyped' /\ ThreadTyped'
  BY <1>1, <1>2 DEF IInv, DiskTyped, ThreadTyped, disk, catalogVars
<1>5. Held'
  <2>1. /\ \A v \in new.sealed \cup {new.active} : v \notin retiring /\ Whole(v)
        /\ new.sealed \subseteq index /\ new.active \in index \cup {Active}
        /\ new.cutoff <= vol[new.active].last
    BY <1>1 DEF IInv, Disk, Whole
  <2> HIDE DEF new
  <2>2. /\ UNCHANGED <<vol, retiring, index>> /\ Active' = Active
        /\ \A v : Whole(v)' <=> Whole(v)
    BY <1>2, <1>3 DEF Whole, disk, catalogVars
  <2>3. \A s \in snapshots \cup {new} :
            /\ \A v \in s.sealed \cup {s.active} : v \notin retiring /\ Whole(v)
            /\ s.sealed \subseteq index /\ s.active \in index \cup {Active}
            /\ s.cutoff <= vol[s.active].last
    BY <2>1 DEF IInv, Held
  <2> QED
    BY <1>2, <2>2, <2>3 DEF Held
<1>6. EachRecordOnce' /\ Stored' = Stored /\ Division'
  <2>1. EachRecordOnce' /\ Stored' = Stored
    BY <1>3 DEF IInv, EachRecordOnce, Stored
  <2> QED
    BY <1>2, <1>3, <2>1 DEF IInv, Division, disk, catalogVars
<1>7. Phases'
  BY <1>2, <1>3 DEF IInv, Phases, Making, Rotating, ThreadsRun, Starting
<1>8. Disk'
  BY <1>1, <1>2, <1>3 DEF IInv, Disk, Whole, disk, catalogVars
<1>9. Progress' /\ StartsUnlessHalfMade'
  BY <1>2, <1>3 DEF IInv, Progress, StartsUnlessHalfMade, Making, Exhausted, disk, catalogVars
<1> QED
  BY <1>3, <1>2, <1>4, <1>5, <1>6, <1>7, <1>8, <1>9 DEF IInv, LogStutters, disk, catalogVars

-----------------------------------------------------------------------------
(* The invariant                                                            *)

\* Nothing is stored at first.
LEMMA InitKeeps == RotationAssumption /\ Init => IInv
<1> SUFFICES ASSUME RotationAssumption, Init PROVE IInv
  OBVIOUS
<1>1. MaxId \in Nat /\ MaxBatch \in Nat /\ None \notin Vols
  BY Constants
<1>2. Active = None /\ Top = 0 /\ Visible = {} /\ Stored = {}
  BY DEF Init, Active, Top, Visible, Stored
<1>3. DiskTyped /\ ThreadTyped
  <2>1. [state |-> "unused", first |-> 1, last |-> 0] \in VolumeType
    BY <1>1 DEF VolumeType, Ids
  <2>2. session \in SessionType
    BY <1>1 DEF Init, SessionType, Ids
  <2>3. vol \in [Vols -> VolumeType] /\ \A v \in Vols : vol[v].first <= vol[v].last + 1
    BY <2>1 DEF Init
  <2>4. 0 \in Ids /\ MaxId \in Ids /\ 0 \in 0..MaxBatch
    BY <1>1 DEF Ids
  <2> QED
    BY <1>1, <2>2, <2>3, <2>4 DEF Init, DiskTyped, ThreadTyped
<1>4. Phases /\ Disk /\ Progress /\ Held
  BY <1>2 DEF Init, Phases, Disk, Progress, Held, Making, Rotating, ThreadsRun, Starting
<1>5. Division /\ EachRecordOnce /\ StartsUnlessHalfMade
  BY <1>1, <1>2 DEF Init, Division, EachRecordOnce, StartsUnlessHalfMade
<1> QED
  BY <1>3, <1>4, <1>5 DEF IInv

\* Every step keeps the invariant.
LEMMA NextKeeps == RotationAssumption /\ IInv /\ [Next]_vars => IInv'
<1> SUFFICES ASSUME RotationAssumption, IInv, [Next]_vars PROVE IInv'
  OBVIOUS
<1>1. CASE Opening
  BY <1>1, OpeningKeeps, SessionKeeps DEF Opening
<1>2. CASE Rotation
  BY <1>2, SessionKeeps, PrepareKeeps, MakingKeeps, SealKeeps, IndexKeeps, PointKeeps DEF Rotation
<1>3. CASE Writing
  BY <1>3, SessionKeeps, CommandKeeps, ReserveKeeps, WriteKeeps DEF Writing
<1>4. CASE Reading
  BY <1>4, SnapshotKeeps, CommandKeeps, ImportKeeps DEF Reading
<1>5. CASE Retirement
  BY <1>5, RetainKeeps, CommandKeeps, RetirementKeeps, FailureKeeps DEF Retirement
<1>6. CASE Fail \/ Crash
  BY <1>6, FailureKeeps
<1>7. CASE UNCHANGED vars
  <2>1. /\ UNCHANGED <<vol, session, index, retiring, high, allocated, importNext, pc, ctx, batch>>
        /\ UNCHANGED <<faulted, queried, retire, snapshots, gone, used>>
    BY <1>7 DEF vars, disk, catalogVars, readerVars
  <2>2. /\ Active' = Active /\ Top' = Top /\ Visible' = Visible /\ Stored' = Stored
        /\ EachRecordOnce' /\ Held'
    BY <2>1 DEF Active, Top, Visible, Stored, Records, EachRecordOnce, Held, Whole, IInv
  <2>3. DiskTyped' /\ ThreadTyped'
    BY <2>1 DEF IInv, DiskTyped, ThreadTyped
  <2>4. Phases' /\ Progress' /\ StartsUnlessHalfMade'
    BY <2>1, <2>2 DEF IInv, Phases, Progress, StartsUnlessHalfMade, Making, Rotating, ThreadsRun,
       Starting, Exhausted
  <2>5. Disk' /\ Division'
    BY <2>1, <2>2 DEF IInv, Disk, Division, Whole, ThreadsRun
  <2> QED
    BY <2>2, <2>3, <2>4, <2>5 DEF IInv
<1> QED
  BY <1>1, <1>2, <1>3, <1>4, <1>5, <1>6, <1>7 DEF Next

\* The invariant holds in every state of the storage, from the first start on and through every
\* crash, failure, rotation, import and retirement.
THEOREM InvariantHolds == Spec => []IInv
<1>1. Init => IInv
  BY InitKeeps, RotationAssumption
<1>2. IInv /\ [Next]_vars => IInv'
  BY NextKeeps, RotationAssumption
<1> QED
  BY <1>1, <1>2, PTL DEF Spec

-----------------------------------------------------------------------------
(* The theorems                                                             *)

\* The state has the types of the code's structures, and no id above the highest is used or
\* reserved (VolumeCatalog::reserveLiveThrough and adopt, RecordVolume::append).
THEOREM StorageTyped == Spec => []TypeOK
<1>1. IInv => TypeOK
  BY DEF IInv, DiskTyped, ThreadTyped, TypeOK, VolumeType, SessionType
<1> QED
  BY <1>1, InvariantHolds, PTL

\* No record id is in two volumes, whatever live recording, imports, crashes and retirements
\* were interleaved: the live ids stay below those that imports took.
THEOREM IdsAreUnique == Spec => []EachRecordOnce
<1>1. IInv => EachRecordOnce
  BY DEF IInv
<1> QED
  BY <1>1, InvariantHolds, PTL

\* The volumes of a snapshot can be read as long as somebody holds it, also when the active one
\* was sealed, indexed and became old in the meantime.
THEOREM SnapshotsStayIntact == Spec => []SnapshotIntact
<1>1. IInv => SnapshotIntact
  <2> SUFFICES ASSUME IInv, NEW s \in snapshots, NEW v \in s.sealed \cup {s.active}
               PROVE  Whole(v) /\ (v = s.active => vol[v].last >= s.cutoff)
    BY DEF SnapshotIntact
  <2>1. s.active \in Vols /\ s.cutoff \in Nat /\ s.cutoff <= vol[s.active].last
    BY DEF IInv, DiskTyped, Held
  <2>2. vol[s.active].last \in Nat
    BY <2>1, Typed, RotationAssumption
  <2> QED
    BY <2>1, <2>2 DEF IInv, Held
<1> QED
  BY <1>1, InvariantHolds, PTL

\* A start is refused only after a crash that left a volume without its first transaction, or at
\* the end of the id space; no other interrupted rotation stands in the way of a start.
THEOREM OtherStartsSucceed == Spec => []StartsUnlessHalfMade
<1>1. IInv => StartsUnlessHalfMade
  BY DEF IInv
<1> QED
  BY <1>1, InvariantHolds, PTL

-----------------------------------------------------------------------------
(* The storage implements its abstract specification                        *)

\* Writing appends to the log, importing extends it from above, retaining gives records up, and
\* every other step leaves it alone.
LEMMA StepImplements ==
    ASSUME RotationAssumption, IInv, [Next]_vars
    PROVE  [Log!Next]_(Log!vars)
<1>1. LogStutters => UNCHANGED Log!vars
  BY DEF LogStutters, Log!vars, Top
<1>2. CASE Write
  <2>1. /\ Top' = Top + batch /\ Stored' = Stored \cup ((Top + 1) .. (Top + batch))
        /\ Top + batch <= importNext /\ Top \in Nat /\ importNext' = importNext /\ gone' = gone
    BY <1>2, WriteKeeps, Typed DEF Write, catalogVars
  <2>2. batch \in Nat /\ importNext \in Nat
    BY Constants DEF IInv, ThreadTyped, DiskTyped, Ids
  <2>3. CASE batch = 0
    <3>1. (Top + 1) .. (Top + batch) = {}
      BY <2>1, <2>3
    <3> QED
      BY <1>1, <2>1, <2>3, <3>1 DEF LogStutters
  <2>4. CASE batch # 0
    <3>1. Top' \in (Top + 1) .. importNext /\ Stored' = Stored \cup ((Top + 1) .. Top')
      BY <2>1, <2>2, <2>4
    <3>2. Log!Append
      BY <2>1, <3>1 DEF Log!Append, Top
    <3> QED
      BY <3>2 DEF Log!Next
  <2> QED
    BY <2>3, <2>4
<1>3. CASE \E n \in 1..MaxBatch : Import(n)
  <2>1. PICK n \in 1..MaxBatch : Import(n)
    BY <1>3
  <2>2. /\ Top' = Top /\ importNext' \in Nat /\ Top <= importNext' /\ gone' = gone
        /\ Stored' = Stored \cup ((importNext' + 1) .. importNext)
    BY <2>1, ImportKeeps DEF Import
  <2>3. importNext \in Nat /\ importNext' = importNext - n /\ n \in Nat /\ n > 0
    BY <2>1, Constants DEF IInv, DiskTyped, Ids, Import
  <2>4. importNext' \in Top .. (importNext - 1)
    BY <2>2, <2>3, Typed
  <2>5. Log!Import
    BY <2>2, <2>4 DEF Log!Import, Top
  <2> QED
    BY <2>5 DEF Log!Next
<1>4. CASE \E v \in Vols : Retain(v)
  <2>1. PICK v \in Vols : Retain(v)
    BY <1>4
  <2>2. /\ Top' = Top /\ Records(v) \subseteq Stored /\ Stored' = Stored \ Records(v)
        /\ gone' = gone \cup Records(v) /\ importNext' = importNext
    BY <2>1, RetainKeeps DEF Retain
  <2>3. gone \cap Stored = {}
    BY DEF IInv, Division
  <2>4. Stored' = Stored \ gone'
    BY <2>2, <2>3
  <2>5. Log!GiveUp
    BY <2>2, <2>4 DEF Log!GiveUp, Top
  <2> QED
    BY <2>5 DEF Log!Next
<1>5. CASE Opening
  BY <1>1, <1>5, OpeningKeeps, SessionKeeps DEF Opening
<1>6. CASE Rotation
  BY <1>1, <1>6, SessionKeeps, PrepareKeeps, MakingKeeps, SealKeeps, IndexKeeps, PointKeeps
  DEF Rotation
<1>7. CASE Writing
  BY <1>1, <1>2, <1>7, SessionKeeps, CommandKeeps, ReserveKeeps DEF Writing
<1>8. CASE Reading
  BY <1>1, <1>3, <1>8, SnapshotKeeps, CommandKeeps DEF Reading
<1>9. CASE Retirement
  BY <1>1, <1>4, <1>9, CommandKeeps, RetirementKeeps, FailureKeeps DEF Retirement
<1>10. CASE Fail \/ Crash
  BY <1>1, <1>10, FailureKeeps
<1>11. CASE UNCHANGED vars
  <2>1. UNCHANGED <<vol, session, index, retiring, importNext, gone>>
    BY <1>11 DEF vars, disk, catalogVars
  <2> QED
    BY <1>1, <2>1 DEF LogStutters, Top, Stored, Visible, Records, Active
<1> QED
  BY <1>5, <1>6, <1>7, <1>8, <1>9, <1>10, <1>11 DEF Next

\* The storage is a log: a rotation that a crash or a failure interrupts anywhere neither loses a
\* committed record nor uses an id twice, live ids follow one another, and only retention gives
\* records up (RecordVolumeCoordinator, VolumeCatalog).
THEOREM StorageIsALog == Spec => ImplementsRecordLog
<1>1. Init => Log!Init
  BY DEF Init, Log!Init, Active, Stored, Visible
<1>2. IInv /\ [Next]_vars => [Log!Next]_(Log!vars)
  BY StepImplements, RotationAssumption
<1> QED
  BY <1>1, <1>2, InvariantHolds, PTL DEF Spec, ImplementsRecordLog, Log!Spec

-----------------------------------------------------------------------------
(* Snapshots are exact                                                      *)

\* Only one action takes a snapshot.
LEMMA NobodyElseTakesSnapshots ==
    [Next]_vars => TakeSnapshot \/ snapshots' \subseteq snapshots
<1> SUFFICES ASSUME [Next]_vars PROVE TakeSnapshot \/ snapshots' \subseteq snapshots
  OBVIOUS
<1> USE DEF readerVars
<1>1. CASE Opening
  BY <1>1 DEF Opening, StartProcess, OpenCatalog, OpenPending, Reopen, OpenFirst, Reconcile,
     Suspend, Resume, Close, Refuse
<1>2. CASE Rotation
  BY <1>2 DEF Rotation, Rotate, Prepare, FinishPending, MakeDirectory, MakeFile, Fill, Seal, Index,
     Point, Refuse
<1>3. CASE Writing
  BY <1>3 DEF Writing, Start, Stop, Publish, Reserve, Write, Position, Refuse
<1>4. CASE Reading
  BY <1>4 DEF Reading, ReleaseSnapshot, Import
<1>5. CASE Retirement
  BY <1>5 DEF Retirement, Retain, ResumeRetirement, Delete, EndRetirement, FailRetirement
<1>6. CASE Fail \/ Crash
  BY <1>6 DEF Fail, Crash
<1>7. CASE UNCHANGED vars
  BY <1>7 DEF vars
<1> QED
  BY <1>1, <1>2, <1>3, <1>4, <1>5, <1>6, <1>7 DEF Next

\* A snapshot shows every record that is stored when it is taken, and shows it once: the active
\* volume is never among the sealed ones, even when a rotation has stopped behind its entry in the
\* index (RecordQueryService::snapshot).
THEOREM SnapshotsAreExact == Spec => SnapshotIsExact
<1> DEFINE Exact ==
        \A s \in snapshots' \ snapshots :
            /\ s.active \notin s.sealed
            /\ Stored = (vol[s.active].first .. s.cutoff) \cup UNION {Records(v) : v \in s.sealed}
<1>1. IInv /\ [Next]_vars => Exact
  <2> SUFFICES ASSUME IInv, TakeSnapshot PROVE Exact
    BY NobodyElseTakesSnapshots
  <2>1. Active # None /\ queried = Active /\ Active \notin retiring
    BY DEF TakeSnapshot, IInv, Phases, Disk
  <2>2. \A s \in snapshots' \ snapshots :
            s = [active |-> Active, cutoff |-> vol[Active].last,
                 sealed |-> (index \ retiring) \ {Active}]
    BY <2>1 DEF TakeSnapshot, SealedSources
  <2>3. None \notin index
    BY Constants, RotationAssumption DEF IInv, DiskTyped
  <2>4. Visible = ((index \ retiring) \ {Active}) \cup {Active}
    BY <2>1, <2>3 DEF Visible
  <2>5. Stored = Records(Active) \cup UNION {Records(v) : v \in (index \ retiring) \ {Active}}
    BY <2>4 DEF Stored
  <2> SUFFICES ASSUME NEW s \in snapshots' \ snapshots
               PROVE  /\ s.active \notin s.sealed
                      /\ Stored = (vol[s.active].first .. s.cutoff)
                                    \cup UNION {Records(v) : v \in s.sealed}
    OBVIOUS
  <2>6. s.active = Active /\ s.cutoff = vol[Active].last /\ s.sealed = (index \ retiring) \ {Active}
    BY <2>2
  <2>7. (vol[s.active].first .. s.cutoff) = Records(Active)
    BY <2>6 DEF Records
  <2> QED
    BY <2>5, <2>6, <2>7
<1> QED
  BY <1>1, InvariantHolds, PTL DEF Spec, SnapshotIsExact
=============================================================================
