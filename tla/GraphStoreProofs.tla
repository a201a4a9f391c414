-------------------------- MODULE GraphStoreProofs --------------------------
(***************************************************************************)
(* What GraphStore guarantees for every set of baselines, sync bases and   *)
(* vocabularies and every bound: each store is announced before it exists, *)
(* what replaces a baseline, ends a containment or overwrites a file is on *)
(* record first, and neither a crash nor an unconfirmed append makes the   *)
(* next start serve an older store or refuse the daemon's own.             *)
(***************************************************************************)
EXTENDS GraphStore, TLAPS

-----------------------------------------------------------------------------
(* Constants that initial states and resets are built from. *)

LEMMA NoContentType == NoContent \in Content
BY GraphStoreAssumption DEF NoContent, Content

LEMMA ConstantTypes ==
  /\ NoFile \in File
  /\ NoJob \in Job
  /\ NoInput \in Input
  /\ NoCheckpoint \in Checkpoint
  /\ 0 \in Revisions /\ 1 \in Revisions
BY NoContentType, GraphStoreAssumption
DEF NoFile, File, NoJob, Job, NoInput, Input, NoCheckpoint, Checkpoint, Revisions

LEMMA FailType ==
  ASSUME NEW why \in Refusals, TypeOK, Fail(why)
  PROVE  pc' \in PCs /\ job' \in Job /\ refusal' \in Refusals
BY ConstantTypes DEF TypeOK, Fail, PCs

LEMMA ForgetType ==
  ASSUME ForgetProcess
  PROVE  /\ late' \subseteq Record
         /\ serving' \in BOOLEAN
         /\ floor' \in Revisions
         /\ mem' \in Content /\ input' \in Input
         /\ job' \in Job /\ queued' \in Job
BY ConstantTypes, NoContentType DEF ForgetProcess

LEMMA EventType ==
  ASSUME TypeOK, Event
  PROVE  used' \in Used
BY DEF TypeOK, Event, Used

LEMMA LandType ==
  ASSUME NEW r \in Record, TypeOK, Land(r)
  PROVE  /\ trail' \subseteq Record
         /\ anchor' \in Checkpoint
         /\ top' \in Revisions
BY DEF TypeOK, Land, Record, Checkpoint, HigherOf

LEMMA AppendType ==
  ASSUME NEW r \in Record, TypeOK, AppendConfirmed(r) \/ AppendFailed(r)
  PROVE  /\ trail' \subseteq Record
         /\ anchor' \in Checkpoint
         /\ top' \in Revisions /\ overtaken' \in BOOLEAN
         /\ late' \subseteq Record
         /\ used' \in Used
<1>1. CASE AppendConfirmed(r)
  BY <1>1, LandType DEF AppendConfirmed, TypeOK
<1>2. CASE AppendFailed(r)
  BY <1>2, EventType DEF AppendFailed, TypeOK
<1>3. QED
  BY <1>1, <1>2

-----------------------------------------------------------------------------
(* The records a step may hand over to the next. *)

LEMMA SealedType ==
  ASSUME NEW rev \in Revisions, NEW d \in Nat, NEW g \in Content
  PROVE  Sealed(rev, d, g) \in File
BY DEF Sealed, File

LEMMA AssessType ==
  ASSUME TypeOK
  PROVE  /\ Assess \in AssessKinds
         /\ Assess = "reseed" => ReseedFloor + 1 \in Revisions
<1>1. ReseedFloor \in Revisions
  BY ConstantTypes DEF TypeOK, ReseedFloor, HigherOf, KnownRevision, Checkpoint, Dir, File
<1>2. QED
  BY <1>1, GraphStoreAssumption DEF Assess, AssessKinds, Revisions

LEMMA LoadRefusalType ==
  ASSUME NEW f \in File, NEW dropped \in BOOLEAN, NEW stale \in BOOLEAN, TypeOK
  PROVE  /\ LoadRefusal(f, dropped, stale) \in Refusals
         /\ (LoadRefusal(f, dropped, stale) = "none" /\ Migrates(f)) => f.rev + 1 \in Revisions
         /\ (LoadRefusal(f, dropped, stale) = "none" /\ Transitions(f, stale)) => f.rev + 1 \in Revisions
         /\ (LoadRefusal(f, dropped, stale) = "none" /\ Migrates(f) /\ Transitions(f, stale))
              => f.rev + 2 \in Revisions
<1>1. f.rev \in Nat /\ MaxRevision \in Nat
  BY GraphStoreAssumption DEF File, Revisions
<1>2. QED
  BY <1>1 DEF LoadRefusal, Writes, Refusals, Revisions

LEMMA JobTypes ==
  ASSUME TypeOK
  PROVE  /\ \A f \in File : f.rev + 1 \in Revisions => MigrateJob(f) \in Job
         /\ \A f \in File, rev \in Revisions : TransitionJob(f, rev) \in Job
<1>1. input.g \in Content /\ input.accepted \in Baselines \union {None}
  BY DEF TypeOK, Input
<1>2. ASSUME NEW f \in File, f.rev + 1 \in Revisions
      PROVE  MigrateJob(f) \in Job
  BY <1>1, <1>2, ConstantTypes DEF MigrateJob, Job, NoJob, File, Content, AheadKinds, Intents
<1>3. ASSUME NEW f \in File, NEW rev \in Revisions
      PROVE  TransitionJob(f, rev) \in Job
  BY <1>1, <1>3, ConstantTypes DEF TransitionJob, Job, NoJob, AheadKinds, Intents
<1>4. QED
  BY <1>2, <1>3

LEMMA RecordTypes ==
  ASSUME TypeOK
  PROVE  /\ \A k \in AheadKinds : AheadRecord(k) \in Record
         /\ \A rev \in Revisions, d \in Nat : CheckpointRecord(rev, d) \in Record
BY DEF TypeOK, AheadRecord, CheckpointRecord, Record, Job

-----------------------------------------------------------------------------
(* Type correctness, action by action. *)

LEMMA TypeInit == Init => TypeOK
<1> SUFFICES ASSUME Init PROVE TypeOK
  OBVIOUS
<1>1. disk \in Dir /\ backups \subseteq File /\ trail \subseteq Record
      /\ anchor \in Checkpoint /\ top \in Revisions /\ seals \in Nat
  <2>1. CASE InitFresh
    BY <2>1, ConstantTypes DEF InitFresh, Dir
  <2>2. CASE \E v \in Vocabs : InitLegacy(v)
    <3>1. PICK v \in Vocabs : InitLegacy(v)
      BY <2>2
    <3>2. Legacy(v) \in File
      BY ConstantTypes DEF Legacy, Sealed, File, Content
    <3>3. QED
      BY <3>1, <3>2, ConstantTypes
      DEF InitLegacy, Dir, Record, Checkpoint, AheadKinds, Intents
  <2>3. QED
    BY <2>1, <2>2 DEF Init
<1>2. QED
  BY <1>1, ConstantTypes, NoContentType
  DEF Init, TypeOK, PCs, Refusals, Excuses, Used

LEMMA TypeBoot ==
  ASSUME TypeOK, Open \/ PeekSync \/ BootRefuse \/ BootLoad \/ BootSeed
  PROVE  TypeOK'
<1>1. CASE Open
  <2>1. PICK run \in Baselines, v \in Vocabs : input' = BootInput(run, v)
    BY <1>1 DEF Open
  <2>2. PICK a \in Baselines \union {None} : a = PeekedBaseline
    BY DEF PeekedBaseline, StoredBaseline, TypeOK, Dir, File, Content
  <2>3. PICK e \in BOOLEAN : e = (run # a)
    BY Zenon
  <2>4. input' \in Input
    BY <2>1, <2>2, <2>3, ConstantTypes, NoContentType
    DEF BootInput, Input, NoInput, Content, NoContent
  <2>5. used' \in Used
    <3>1. used' = [used EXCEPT !.starts = @ + 1]
      BY <1>1, Zenon DEF Open
    <3>2. QED
      BY <3>1 DEF TypeOK, Used
  <2>6. QED
    BY <1>1, <2>4, <2>5 DEF Open, TypeOK, PCs, Refusals
<1>2. CASE PeekSync
  <2>1. CASE ~disk.marker /\ disk.store.tag = "damaged"
    BY <1>2, <2>1, FailType DEF PeekSync, TypeOK, Refusals
  <2>2. CASE ~(~disk.marker /\ disk.store.tag = "damaged")
    <3>1. PICK to \in SyncBases, held \in BOOLEAN, ev \in BOOLEAN :
            input' = [input EXCEPT !.sync = PeekedSync, !.syncEvents = ev,
                                   !.g.sync = to, !.g.held = held]
      BY <1>2, <2>2, Zenon DEF PeekSync
    <3>2. PeekedSync \in SyncBases \union {None}
      BY DEF PeekedSync, Readable, TypeOK, Dir, File, Content
    <3>3. input' \in Input
      BY <3>1, <3>2 DEF TypeOK, Input, Content
    <3>4. QED
      BY <1>2, <2>2, <3>3 DEF PeekSync, TypeOK, PCs
  <2>3. QED
    BY <2>1, <2>2
<1>3. CASE BootRefuse
  <2>1. PICK why \in Refusals : Fail(why)
    BY <1>3, AssessType DEF BootRefuse, AssessKinds, Refusals
  <2>2. QED
    BY <1>3, <2>1, FailType DEF BootRefuse, TypeOK
<1>4. CASE BootLoad
  <2>1. disk.store \in File
    BY DEF TypeOK, Dir
  <2>2. PICK dropped \in BOOLEAN, stale \in BOOLEAN :
          LET why == LoadRefusal(disk.store, dropped, stale)
          IN \/ why = "none" /\ LoadAccepted(disk.store, stale)
             \/ why # "none" /\ Fail(why) /\ UNCHANGED <<floor, mem, queued>>
    BY <1>4 DEF BootLoad
  <2>3. CASE LoadRefusal(disk.store, dropped, stale) # "none"
    <3>1. pc' \in PCs /\ job' \in Job /\ refusal' \in Refusals
      BY <2>1, <2>2, <2>3, LoadRefusalType, FailType
    <3>2. QED
      BY <1>4, <2>2, <2>3, <3>1 DEF BootLoad, TypeOK
  <2>4. CASE LoadRefusal(disk.store, dropped, stale) = "none"
    <3>1. LoadAccepted(disk.store, stale)
      BY <2>2, <2>4
    <3>2. job' \in Job /\ queued' \in Job
      BY <2>1, <2>4, <3>1, LoadRefusalType, JobTypes, ConstantTypes DEF LoadAccepted
    <3>3. floor' \in Revisions /\ mem' \in Content /\ pc' \in PCs /\ UNCHANGED refusal
      BY <2>1, <3>1 DEF LoadAccepted, File, PCs
    <3>4. QED
      BY <1>4, <3>2, <3>3 DEF BootLoad, TypeOK
  <2>5. QED
    BY <2>3, <2>4
<1>5. CASE BootSeed
  <2>1. ASSUME NEW authorized \in BOOLEAN, authorized => ReseedFloor + 1 \in Revisions
        PROVE  SeedJob(authorized) \in Job
    <3>1. PICK p \in BOOLEAN : p = (authorized /\ disk.store.tag # "absent")
      BY Zenon
    <3>2. input.g \in Content
      BY DEF TypeOK, Input
    <3>3. PICK r \in Revisions : r = IF authorized THEN ReseedFloor + 1 ELSE 1
      BY <2>1, ConstantTypes
    <3>4. QED
      BY <3>1, <3>2, <3>3, ConstantTypes
      DEF SeedJob, Job, NoJob, AheadKinds, Intents
  <2>2. Assess = "reseed" => ReseedFloor + 1 \in Revisions
    BY AssessType
  <2>3. \/ Fail("baselineUnseen") \/ Fail("unrecorded")
        \/ job' \in Job /\ pc' = "ahead" /\ UNCHANGED refusal
    BY <1>5, <2>1, <2>2 DEF BootSeed
  <2>4. pc' \in PCs /\ job' \in Job /\ refusal' \in Refusals
    BY <2>3, FailType DEF TypeOK, PCs, Refusals
  <2>5. QED
    BY <1>5, <2>4 DEF BootSeed, TypeOK
<1>6. QED
  BY <1>1, <1>2, <1>3, <1>4, <1>5

LEMMA TypeAppend ==
  ASSUME TypeOK, CheckpointLoaded \/ AppendAhead \/ LandLate \/ WriteCheckpoint
  PROVE  TypeOK'
<1>1. CASE CheckpointLoaded
  <2> DEFINE r == CheckpointRecord(floor, disk.store.digest)
  <2>1. r \in Record
    BY RecordTypes DEF TypeOK, Dir, File
  <2>2. /\ AppendConfirmed(r) \/ AppendFailed(r)
        /\ pc' \in PCs /\ job' \in Job /\ refusal' \in Refusals
    BY <1>1, FailType DEF CheckpointLoaded, TypeOK, PCs, Refusals
  <2>3. QED
    BY <1>1, <2>1, <2>2, AppendType DEF CheckpointLoaded, TypeOK
<1>2. CASE AppendAhead
  <2>1. PICK k \in job.ahead :
          \/ /\ AppendConfirmed(AheadRecord(k))
             /\ job' = [job EXCEPT !.ahead = @ \ {k}]
             /\ pc' = CASE job.ahead # {k} -> "ahead"
                        [] job.ahead = {k} /\ job.prior -> "preserve"
                        [] OTHER -> "unmirror"
             /\ UNCHANGED refusal
          \/ /\ AppendFailed(AheadRecord(k))
             /\ Fail("failed")
    BY <1>2 DEF AppendAhead
  <2>2. AheadRecord(k) \in Record
    BY RecordTypes DEF TypeOK, Job
  <2>3. pc' \in PCs /\ job' \in Job /\ refusal' \in Refusals
    BY <2>1, FailType DEF TypeOK, PCs, Refusals, Job
  <2>4. AppendConfirmed(AheadRecord(k)) \/ AppendFailed(AheadRecord(k))
    BY <2>1
  <2>5. QED
    BY <1>2, <2>2, <2>3, <2>4, AppendType DEF AppendAhead, TypeOK
<1>3. CASE LandLate
  <2>1. PICK r \in late :
          /\ Land(r) /\ late' = late \ {r}
          /\ overtaken' = IF r.kind = "checkpoint" THEN r.rev < top ELSE overtaken
    BY <1>3 DEF LandLate
  <2>2. r \in Record
    BY DEF TypeOK
  <2>3. overtaken' \in BOOLEAN
    <3>1. CASE overtaken' = overtaken
      BY <3>1 DEF TypeOK
    <3>2. CASE overtaken' = (r.rev < top)
      BY <3>2
    <3>3. QED
      BY <2>1, <3>1, <3>2
  <2>4. QED
    BY <1>3, <2>1, <2>2, <2>3, LandType DEF LandLate, TypeOK
<1>4. CASE WriteCheckpoint
  <2> DEFINE r == CheckpointRecord(job.rev, disk.store.digest)
  <2>1. r \in Record
    BY RecordTypes DEF TypeOK, Dir, File, Job
  <2>2. /\ AppendConfirmed(r) \/ AppendFailed(r)
        /\ pc' \in PCs /\ job' \in Job /\ queued' \in Job /\ mem' \in Content
        /\ refusal' \in Refusals
    BY <1>4, FailType, ConstantTypes DEF WriteCheckpoint, TypeOK, PCs, Refusals, Job
  <2>3. QED
    BY <1>4, <2>1, <2>2, AppendType DEF WriteCheckpoint, TypeOK
<1>5. QED
  BY <1>1, <1>2, <1>3, <1>4

LEMMA TypeWrite ==
  ASSUME TypeOK, Preserve \/ RemoveMirror \/ Publish \/ RemoveMarker \/ PublishMirror
  PROVE  TypeOK'
<1>1. CASE Preserve
  <2>1. pc' \in PCs /\ job' \in Job /\ refusal' \in Refusals /\ used' \in Used
    BY <1>1, FailType, EventType DEF Preserve, TypeOK, PCs, Refusals
  <2>2. rejected' \subseteq Nat /\ safe' \in Dir
    BY <1>1 DEF Preserve, TypeOK, Dir, File
  <2>3. QED
    BY <1>1, <2>1, <2>2 DEF Preserve, TypeOK
<1>2. CASE RemoveMirror
  <2>1. pc' \in PCs /\ job' \in Job /\ refusal' \in Refusals /\ used' \in Used
    BY <1>2, FailType, EventType DEF RemoveMirror, TypeOK, PCs, Refusals
  <2>2. disk' \in Dir
    BY <1>2, ConstantTypes DEF RemoveMirror, TypeOK, Dir
  <2>3. QED
    BY <1>2, <2>1, <2>2 DEF RemoveMirror, TypeOK
<1>3. CASE Publish
  <2>1. NextFile \in File
    BY SealedType DEF TypeOK, NextFile, Job
  <2>2. pc' \in PCs /\ job' \in Job /\ refusal' \in Refusals /\ used' \in Used
    BY <1>3, FailType, EventType DEF Publish, TypeOK, PCs, Refusals
  <2>3. disk' \in Dir /\ safe' \in Dir
    BY <1>3, <2>1 DEF Publish, TypeOK, Dir
  <2>4. backups' \subseteq File /\ seals' \in Nat /\ floor' \in Revisions
    BY <1>3, <2>1 DEF Publish, TypeOK, Job
  <2>5. QED
    BY <1>3, <2>2, <2>3, <2>4 DEF Publish, TypeOK
<1>4. CASE RemoveMarker
  <2>1. pc' \in PCs /\ job' \in Job /\ refusal' \in Refusals /\ used' \in Used
    BY <1>4, FailType, EventType DEF RemoveMarker, TypeOK, PCs, Refusals
  <2>2. disk' \in Dir
    BY <1>4 DEF RemoveMarker, TypeOK, Dir
  <2>3. QED
    BY <1>4, <2>1, <2>2 DEF RemoveMarker, TypeOK
<1>5. CASE PublishMirror
  <2>1. disk' \in Dir /\ safe' \in Dir /\ used' \in Used
    BY <1>5, EventType, ConstantTypes DEF PublishMirror, TypeOK, Dir
  <2>2. QED
    BY <1>5, <2>1 DEF PublishMirror, TypeOK, PCs
<1>6. QED
  BY <1>1, <1>2, <1>3, <1>4, <1>5

LEMMA CommitJobType ==
  ASSUME TypeOK, floor < MaxRevision, NEW to \in Content, NEW kinds \in SUBSET AheadKinds
  PROVE  CommitJob(to, kinds) \in Job
<1>1. floor + 1 \in Revisions
  BY GraphStoreAssumption DEF TypeOK, Revisions
<1>2. mem.base \in Baselines \union {None}
  BY DEF TypeOK, Content
<1>3. QED
  BY <1>1, <1>2, ConstantTypes DEF CommitJob, Job, NoJob, AheadKinds, Intents

LEMMA TypeCommit ==
  ASSUME TypeOK, CommitReload \/ CommitAccept \/ CommitLive
  PROVE  TypeOK'
<1>1. PICK to \in Content, kinds \in SUBSET AheadKinds :
        floor < MaxRevision /\ BeginCommit(to, kinds)
  <2>1. CASE CommitReload
    <3>1. PICK sync \in SyncBases, held \in BOOLEAN, kinds \in {{}, {"sync"}} :
            /\ CommitAllowed([mem EXCEPT !.sync = sync, !.held = held], FALSE, FALSE)
            /\ BeginCommit([mem EXCEPT !.sync = sync, !.held = held], kinds)
      BY <2>1 DEF CommitReload
    <3>2. [mem EXCEPT !.sync = sync, !.held = held] \in Content
      BY DEF TypeOK, Content
    <3>3. QED
      BY <3>1, <3>2 DEF CommitAllowed, AheadKinds
  <2>2. CASE CommitAccept
    <3>1. PICK base \in Baselines :
            /\ CommitAllowed([mem EXCEPT !.base = base], TRUE, TRUE)
            /\ BeginCommit([mem EXCEPT !.base = base], {"baseline"})
      BY <2>2 DEF CommitAccept
    <3>2. [mem EXCEPT !.base = base] \in Content
      BY DEF TypeOK, Content
    <3>3. QED
      BY <3>1, <3>2 DEF CommitAllowed, AheadKinds
  <2>3. CASE CommitLive
    <3> DEFINE to == [mem EXCEPT !.held = ~@]
    <3>1. PICK h \in BOOLEAN : h = ~mem.held
      BY Zenon
    <3>2. to \in Content
      BY <3>1 DEF TypeOK, Content
    <3>3. CommitAllowed(to, FALSE, TRUE) /\ BeginCommit(to, {"sync"})
      BY <2>3 DEF CommitLive
    <3>4. QED
      BY <3>2, <3>3 DEF CommitAllowed, AheadKinds
  <2>4. QED
    BY <2>1, <2>2, <2>3
<1>2. CommitJob(to, kinds) \in Job
  BY <1>1, CommitJobType
<1>3. QED
  BY <1>1, <1>2 DEF BeginCommit, TypeOK, PCs

LEMMA TypeHost ==
  ASSUME TypeOK,
         Exit \/ Crash \/ PowerLoss \/ PlaceMarker \/ TouchStore \/ RotateTrail
  PROVE  TypeOK'
<1>1. CASE Exit
  BY <1>1, ForgetType DEF Exit, TypeOK, PCs
<1>2. CASE Crash
  BY <1>2, ForgetType, EventType DEF Crash, TypeOK, PCs
<1>3. CASE PowerLoss
  <2>1. disk' \in Dir /\ safe' \in Dir /\ excused' \subseteq Excuses
    BY <1>3 DEF PowerLoss, TypeOK, Dir, Excuses
  <2>2. QED
    BY <1>3, <2>1, ForgetType, EventType DEF PowerLoss, TypeOK, PCs
<1>4. CASE PlaceMarker
  <2>1. disk' \in Dir /\ safe' \in Dir
    BY <1>4 DEF PlaceMarker, TypeOK, Dir
  <2>2. QED
    BY <1>4, <2>1, EventType DEF PlaceMarker, TypeOK
<1>5. CASE TouchStore
  <2>1. PICK f \in backups \union {NoFile} \union {[disk.store EXCEPT !.tag = "damaged"]} :
          /\ disk' = [disk EXCEPT !.store = f]
          /\ safe' = [safe EXCEPT !.store = f]
    BY <1>5 DEF TouchStore
  <2>2. f \in File
    BY ConstantTypes DEF TypeOK, Dir, File
  <2>3. disk' \in Dir /\ safe' \in Dir
    BY <2>1, <2>2 DEF TypeOK, Dir
  <2>4. QED
    BY <1>5, <2>3, EventType DEF TouchStore, TypeOK, Excuses
<1>6. CASE RotateTrail
  BY <1>6, EventType, ConstantTypes DEF RotateTrail, TypeOK
<1>7. QED
  BY <1>1, <1>2, <1>3, <1>4, <1>5, <1>6

LEMMA TypeNext == TypeOK /\ [Next]_vars => TypeOK'
<1> SUFFICES ASSUME TypeOK, [Next]_vars PROVE TypeOK'
  OBVIOUS
<1>1. CASE UNCHANGED vars
  BY <1>1 DEF vars, TypeOK
<1>2. CASE Next
  BY <1>2, TypeBoot, TypeAppend, TypeWrite, TypeCommit, TypeHost DEF Next
<1>3. QED
  BY <1>1, <1>2

\* In every behaviour of the store every variable keeps its kind: no revision the
\* kernel writes, checkpoints or records passes the last one (next_revision and
\* assess refuse instead), and no step of a boot or a commit takes another's job.
THEOREM TypeCorrect == Spec => []TypeOK
BY TypeInit, TypeNext, PTL DEF Spec

-----------------------------------------------------------------------------
(* The write-ahead rule.  WriteAhead is not inductive: that Publish has an    *)
(* intent to rely on follows from what the steps before it handed over.       *)

IntentPending(j) == j.kind \in Intents /\ j.kind \in j.ahead

StoreFiles == {disk.store, safe.store} \union backups

LEMMA TrailGrows ==
  ASSUME [Next]_vars
  PROVE  trail \subseteq trail'
<1>1. CASE CheckpointLoaded
  BY <1>1 DEF CheckpointLoaded, AppendConfirmed, AppendFailed, Land
<1>2. CASE AppendAhead
  BY <1>2 DEF AppendAhead, AppendConfirmed, AppendFailed, Land
<1>3. CASE LandLate
  BY <1>3 DEF LandLate, Land
<1>4. CASE WriteCheckpoint
  BY <1>4 DEF WriteCheckpoint, AppendConfirmed, AppendFailed, Land
<1>5. CASE Open \/ PeekSync \/ BootRefuse \/ BootLoad \/ BootSeed
  BY <1>5 DEF Open, PeekSync, BootRefuse, BootLoad, BootSeed
<1>6. CASE Preserve \/ RemoveMirror \/ Publish \/ RemoveMarker \/ PublishMirror
  BY <1>6 DEF Preserve, RemoveMirror, Publish, RemoveMarker, PublishMirror
<1>7. CASE CommitReload \/ CommitAccept \/ CommitLive
  BY <1>7 DEF CommitReload, CommitAccept, CommitLive, BeginCommit
<1>8. CASE Exit \/ Crash \/ PowerLoss \/ PlaceMarker \/ TouchStore \/ RotateTrail
  BY <1>8 DEF Exit, Crash, PowerLoss, PlaceMarker, TouchStore, RotateTrail
<1>9. CASE UNCHANGED vars
  BY <1>9 DEF vars
<1>10. QED
  BY <1>1, <1>2, <1>3, <1>4, <1>5, <1>6, <1>7, <1>8, <1>9 DEF Next

LEMMA IntentKept ==
  ASSUME [Next]_vars, NEW rev, IntentOf(rev)
  PROVE  IntentOf(rev)'
BY TrailGrows DEF IntentOf

\* Where the store files of the next state come from.
LEMMA FilesFrom ==
  ASSUME TypeOK, [Next]_vars, NEW f \in StoreFiles', f.tag # "absent"
  PROVE  \/ \E o \in StoreFiles : o.tag # "absent" /\ o.rev = f.rev
         \/ pc = "publish" /\ f.rev = job.rev
<1>1. CASE Publish
  BY <1>1 DEF Publish, StoreFiles, TypeOK, Dir, NextFile, Sealed
<1>2. CASE Preserve
  BY <1>2 DEF Preserve, StoreFiles
<1>3. CASE RemoveMirror \/ RemoveMarker \/ PublishMirror
  BY <1>3 DEF RemoveMirror, RemoveMarker, PublishMirror, StoreFiles, TypeOK, Dir
<1>4. CASE PowerLoss
  BY <1>4 DEF PowerLoss, StoreFiles
<1>5. CASE PlaceMarker
  BY <1>5 DEF PlaceMarker, StoreFiles, TypeOK, Dir
<1>6. CASE TouchStore
  <2>1. PICK g \in backups \union {NoFile} \union {[disk.store EXCEPT !.tag = "damaged"]} :
          /\ g.tag = "damaged" => disk.store.tag = "sealed"
          /\ disk' = [disk EXCEPT !.store = g]
          /\ safe' = [safe EXCEPT !.store = g]
          /\ UNCHANGED backups
    BY <1>6 DEF TouchStore
  <2>2. disk'.store = g /\ safe'.store = g
    BY <2>1 DEF TypeOK, Dir
  <2>3. CASE f \in backups
    BY <2>3 DEF StoreFiles
  <2>4. CASE f = g
    BY <2>1, <2>4 DEF StoreFiles, NoFile, TypeOK, Dir, File
  <2>5. QED
    BY <2>1, <2>2, <2>3, <2>4 DEF StoreFiles
<1>7. CASE UNCHANGED <<disk, safe, backups>>
  BY <1>7 DEF StoreFiles
<1>8. CASE Open \/ PeekSync \/ BootRefuse \/ BootLoad \/ BootSeed
  BY <1>7, <1>8 DEF Open, PeekSync, BootRefuse, BootLoad, BootSeed
<1>9. CASE CheckpointLoaded \/ AppendAhead \/ LandLate \/ WriteCheckpoint
  BY <1>7, <1>9 DEF CheckpointLoaded, AppendAhead, LandLate, WriteCheckpoint
<1>10. CASE CommitReload \/ CommitAccept \/ CommitLive
  BY <1>7, <1>10 DEF CommitReload, CommitAccept, CommitLive, BeginCommit
<1>11. CASE Exit \/ Crash \/ RotateTrail
  BY <1>7, <1>11 DEF Exit, Crash, RotateTrail
<1>12. QED
  BY <1>1, <1>2, <1>3, <1>4, <1>5, <1>6, <1>7, <1>8, <1>9, <1>10, <1>11 DEF Next, vars

\* The jobs the model starts with owe their intent.
LEMMA JobsPending ==
  /\ \A f : IntentPending(MigrateJob(f))
  /\ \A f, rev : IntentPending(TransitionJob(f, rev))
  /\ \A authorized : IntentPending(SeedJob(authorized))
  /\ \A to, kinds : IntentPending(CommitJob(to, kinds))
BY DEF IntentPending, MigrateJob, TransitionJob, SeedJob, CommitJob, NoJob, Intents

\* A job still owes its intent record or has it in the trail; past the records
\* written ahead it has it.  With WriteAhead this is inductive.
Control ==
  /\ queued = NoJob \/ IntentPending(queued)
  /\ pc = "checkpointLoaded" => job = NoJob \/ IntentPending(job)
  /\ pc = "ahead" => IntentPending(job) \/ IntentOf(job.rev)
  /\ pc \in {"preserve", "unmirror", "publish"} => IntentOf(job.rev)

LEMMA FailControl ==
  ASSUME Control, NEW why, Fail(why), UNCHANGED queued
  PROVE  Control'
<1>1. pc' \in {"up", "exiting"}
  BY DEF Fail
<1>2. QED
  BY <1>1 DEF Control, IntentPending

LEMMA ForgetControl ==
  ASSUME ForgetProcess, pc' = "down"
  PROVE  Control'
BY DEF ForgetProcess, Control

LEMMA ControlNext ==
  ASSUME TypeOK, Control, [Next]_vars
  PROVE  Control'
<1>1. CASE Open \/ PublishMirror \/ RemoveMarker
  BY <1>1, FailControl DEF Open, PublishMirror, RemoveMarker, Control, IntentPending
<1>2. CASE PeekSync \/ BootRefuse
  BY <1>2, FailControl DEF PeekSync, BootRefuse, Control, IntentPending
<1>3. CASE BootLoad
  <2>1. CASE \E stale \in BOOLEAN : LoadAccepted(disk.store, stale)
    <3>1. queued' = NoJob \/ IntentPending(queued')
      BY <2>1, JobsPending, Zenon DEF LoadAccepted
    <3>2. job' = NoJob \/ IntentPending(job')
      BY <2>1, JobsPending, Zenon DEF LoadAccepted
    <3>3. pc' = "checkpointLoaded"
      BY <2>1 DEF LoadAccepted
    <3>4. QED
      BY <3>1, <3>2, <3>3 DEF Control, IntentPending
  <2>2. CASE \E why : Fail(why) /\ UNCHANGED queued
    BY <2>2, FailControl
  <2>3. QED
    BY <1>3, <2>1, <2>2 DEF BootLoad
<1>4. CASE BootSeed
  <2>1. CASE pc' = "ahead" /\ job' = SeedJob(Assess = "reseed")
    <3>1. IntentPending(job')
      BY <2>1, JobsPending
    <3>2. UNCHANGED queued
      BY <1>4 DEF BootSeed
    <3>3. QED
      BY <2>1, <3>1, <3>2 DEF Control, IntentPending
  <2>2. CASE \E why : Fail(why)
    BY <1>4, <2>2, FailControl DEF BootSeed
  <2>3. QED
    BY <1>4, <2>1, <2>2 DEF BootSeed
<1>5. CASE CheckpointLoaded
  <2>1. CASE pc' = IF job = NoJob THEN "mirror" ELSE "ahead"
    BY <1>5, <2>1 DEF CheckpointLoaded, Control, IntentPending, Fail
  <2>2. CASE Fail("failed")
    BY <1>5, <2>2, FailControl DEF CheckpointLoaded
  <2>3. QED
    BY <1>5, <2>1, <2>2 DEF CheckpointLoaded
<1>6. CASE AppendAhead
  <2>1. PICK k \in job.ahead :
          \/ /\ AppendConfirmed(AheadRecord(k))
             /\ job' = [job EXCEPT !.ahead = @ \ {k}]
             /\ pc' = CASE job.ahead # {k} -> "ahead"
                        [] job.ahead = {k} /\ job.prior -> "preserve"
                        [] OTHER -> "unmirror"
          \/ Fail("failed")
    BY <1>6 DEF AppendAhead
  <2>2. UNCHANGED queued
    BY <1>6 DEF AppendAhead
  <2>3. CASE Fail("failed")
    BY <2>2, <2>3, FailControl
  <2>4. CASE /\ AppendConfirmed(AheadRecord(k))
             /\ job' = [job EXCEPT !.ahead = @ \ {k}]
             /\ pc' = CASE job.ahead # {k} -> "ahead"
                        [] job.ahead = {k} /\ job.prior -> "preserve"
                        [] OTHER -> "unmirror"
    <3>1. pc = "ahead"
      BY <1>6 DEF AppendAhead
    <3>2. /\ job'.kind = job.kind /\ job'.rev = job.rev
          /\ job'.ahead = job.ahead \ {k}
      BY <2>4 DEF TypeOK, Job
    <3>3. CASE IntentOf(job.rev)
      <4>1. IntentOf(job.rev)'
        BY <3>3, IntentKept, <3>2 DEF IntentOf
      <4>2. QED
        BY <2>2, <2>4, <4>1 DEF Control, IntentPending
    <3>4. CASE IntentPending(job) /\ k # job.kind
      <4>1. IntentPending(job')
        BY <3>2, <3>4 DEF IntentPending
      <4>2. pc' = "ahead"
        BY <2>4, <3>4 DEF IntentPending
      <4>3. QED
        BY <2>2, <4>1, <4>2 DEF Control, IntentPending
    <3>5. CASE IntentPending(job) /\ k = job.kind
      <4>1. AheadRecord(k) \in trail'
        BY <2>4 DEF AppendConfirmed, Land
      <4>2. IntentOf(job.rev)'
        BY <3>2, <3>5, <4>1 DEF AheadRecord, IntentOf, IntentPending
      <4>3. QED
        BY <2>2, <2>4, <4>2 DEF Control, IntentPending
    <3>6. QED
      BY <3>1, <3>3, <3>4, <3>5 DEF Control
  <2>5. QED
    BY <2>1, <2>3, <2>4
<1>7. CASE LandLate
  <2>1. UNCHANGED <<pc, job, queued>>
    BY <1>7 DEF LandLate
  <2>2. IntentOf(job.rev) => IntentOf(job.rev)'
    BY <2>1, IntentKept DEF IntentOf
  <2>3. QED
    BY <2>1, <2>2 DEF Control, IntentPending
<1>8. CASE Preserve \/ RemoveMirror \/ Publish
  <2>1. CASE Fail("failed") /\ UNCHANGED queued
    BY <2>1, FailControl
  <2>2. CASE pc \in {"preserve", "unmirror", "publish"} /\ UNCHANGED <<job, queued, trail>>
             /\ pc' \in {"unmirror", "publish", "unmark", "checkpoint"}
    BY <2>2 DEF Control, IntentPending, IntentOf
  <2>3. QED
    BY <1>8, <2>1, <2>2 DEF Preserve, RemoveMirror, Publish
<1>9. CASE WriteCheckpoint
  <2>1. CASE Fail("failed") /\ UNCHANGED queued
    BY <2>1, FailControl
  <2>2. CASE /\ job' = queued
             /\ queued' = NoJob
             /\ pc' = IF queued = NoJob THEN "mirror" ELSE "ahead"
    BY <2>2 DEF Control, IntentPending
  <2>3. QED
    BY <1>9, <2>1, <2>2 DEF WriteCheckpoint
<1>10. CASE CommitReload \/ CommitAccept \/ CommitLive
  <2>1. PICK to, kinds : BeginCommit(to, kinds)
    BY <1>10 DEF CommitReload, CommitAccept, CommitLive
  <2>2. IntentPending(job')
    BY <2>1, JobsPending DEF BeginCommit
  <2>3. QED
    BY <2>1, <2>2 DEF BeginCommit, Control, IntentPending
<1>11. CASE Exit \/ Crash \/ PowerLoss
  BY <1>11, ForgetControl DEF Exit, Crash, PowerLoss
<1>12. CASE PlaceMarker \/ TouchStore \/ RotateTrail
  BY <1>12 DEF PlaceMarker, TouchStore, RotateTrail, Control, IntentPending, IntentOf
<1>13. CASE UNCHANGED vars
  BY <1>13 DEF vars, Control, IntentPending, IntentOf
<1>14. QED
  BY <1>1, <1>2, <1>3, <1>4, <1>5, <1>6, <1>7, <1>8, <1>9, <1>10, <1>11, <1>12, <1>13 DEF Next

LEMMA IntentInit == Init => WriteAhead /\ Control
<1> SUFFICES ASSUME Init PROVE WriteAhead /\ Control
  OBVIOUS
<1>1. Control
  BY DEF Init, Control
<1>2. CASE InitFresh
  BY <1>1, <1>2 DEF Init, InitFresh, WriteAhead, NoFile
<1>3. CASE \E v \in Vocabs : InitLegacy(v)
  BY <1>1, <1>3 DEF Init, InitLegacy, Legacy, Sealed, WriteAhead, IntentOf, Intents
<1>4. QED
  BY <1>2, <1>3 DEF Init

LEMMA IntentNext == TypeOK /\ WriteAhead /\ Control /\ [Next]_vars => (WriteAhead /\ Control)'
<1> SUFFICES ASSUME TypeOK, WriteAhead, Control, [Next]_vars PROVE WriteAhead' /\ Control'
  OBVIOUS
<1>1. ASSUME NEW f \in StoreFiles', f.tag # "absent"
      PROVE  IntentOf(f.rev)'
  <2>1. CASE \E o \in StoreFiles : o.tag # "absent" /\ o.rev = f.rev
    BY <2>1, IntentKept DEF WriteAhead, StoreFiles
  <2>2. CASE pc = "publish" /\ f.rev = job.rev
    BY <2>2, IntentKept DEF Control
  <2>3. QED
    BY <1>1, <2>1, <2>2, FilesFrom
<1>2. WriteAhead'
  BY <1>1 DEF WriteAhead, StoreFiles
<1>3. QED
  BY <1>2, ControlNext

\* No store file ever exists, published, restored or fallen back to, whose
\* revision has no intent in the audit trail, whatever fails and in whatever
\* order unconfirmed appends land: seed, load and transition stop at the first
\* append that is not confirmed, before persist.
THEOREM WriteAheadHolds == Spec => []WriteAhead
BY TypeInit, TypeNext, IntentInit, IntentNext, PTL DEF Spec

-----------------------------------------------------------------------------
(* The course of a change *)

\* A change on its way to the store.
Writing == {"ahead", "preserve", "unmirror", "publish"}

Untouched == serving => "touched" \notin excused

\* A serving process only commits; a seed is made at a boot; the transition behind a
\* migration waits for it.
Course ==
  /\ pc = "up" => serving
  /\ serving => /\ pc \in Writing \union {"checkpoint", "mirror", "up"}
                /\ job.kind \in {"none", "transition"}
  /\ pc \in Writing \union {"unmark", "checkpoint"} => job.kind \in Intents
  /\ pc = "unmark" => job.kind = "reseeding"
  /\ pc \in {"preserve", "unmirror", "publish"} => job.ahead = {}
  /\ pc = "publish" => disk.mirror = 0
  /\ pc \in {"down", "opened", "synced"} => floor = 0
  /\ pc \in Writing => job.rev > floor
  /\ pc = "checkpointLoaded" => job = NoJob \/ job.rev > floor
  /\ pc \in {"unmark", "checkpoint"} => job.rev = floor
  /\ pc \in {"checkpointLoaded", "mirror"} => job = NoJob \/ job.kind \in {"migrating", "transition"}
  /\ pc \in {"down", "opened", "synced", "mirror", "up"} => job = NoJob
  /\ \/ queued = NoJob
     \/ pc = "exiting"
     \/ /\ pc \in {"checkpointLoaded", "ahead", "unmirror", "publish", "checkpoint"}
        /\ ~serving /\ job.kind = "migrating" /\ ~job.prior
        /\ queued.kind = "transition" /\ queued.rev > job.rev

\* The process has a store: it loaded or published one.
HasStore ==
  \/ serving
  \/ pc \in {"checkpointLoaded", "unmark", "checkpoint", "mirror"}
  \/ pc \in Writing /\ job.kind \in {"migrating", "transition"}

\* Unless the file was touched while it served, what it knows is what is on disk.
Agrees ==
  (HasStore /\ Untouched) =>
    /\ Readable(disk.store)
    /\ floor = disk.store.rev
    /\ disk.store.g = IF pc \in {"unmark", "checkpoint"} THEN job.g ELSE mem

LEMMA FailCourse ==
  ASSUME Course, NEW why, Fail(why), UNCHANGED <<disk, serving, floor, queued>>
  PROVE  Course'
<1>1. job' = NoJob /\ NoJob.kind = "none" /\ pc' = IF serving THEN "up" ELSE "exiting"
  BY DEF Fail, NoJob
<1>2. serving => queued = NoJob
  BY DEF Course, Writing
<1>3. QED
  BY <1>1, <1>2 DEF Course, Writing

LEMMA ForgetCourse ==
  ASSUME ForgetProcess, pc' = "down"
  PROVE  Course'
BY DEF ForgetProcess, Course, Writing

\* The kinds and revisions of the jobs the model starts with.
LEMMA JobParts ==
  ASSUME TypeOK
  PROVE  /\ \A f \in File : /\ MigrateJob(f).kind = "migrating" /\ MigrateJob(f).rev = f.rev + 1
                            /\ ~MigrateJob(f).prior
                            /\ MigrateJob(f).g = [f.g EXCEPT !.vocab = input.g.vocab]
         /\ \A f \in File, rev \in Nat :
              /\ TransitionJob(f, rev).kind = "transition" /\ TransitionJob(f, rev).rev = rev
              /\ TransitionJob(f, rev).g = input.g /\ TransitionJob(f, rev).from = input.accepted
              /\ f.g.held /\ ~input.g.held => "released" \in TransitionJob(f, rev).ahead
              /\ input.g.base # f.g.base => "baseline" \in TransitionJob(f, rev).ahead
         /\ \A authorized \in BOOLEAN :
              /\ SeedJob(authorized).kind = IF authorized THEN "reseeding" ELSE "seeding"
              /\ SeedJob(authorized).rev = IF authorized THEN ReseedFloor + 1 ELSE 1
              /\ authorized => "reseeding" \in SeedJob(authorized).ahead
              /\ (authorized /\ disk.store.tag # "absent") => SeedJob(authorized).prior
         /\ \A to, kinds :
              /\ CommitJob(to, kinds).kind = "transition" /\ CommitJob(to, kinds).rev = floor + 1
              /\ CommitJob(to, kinds).g = to /\ CommitJob(to, kinds).from = mem.base
              /\ kinds \subseteq CommitJob(to, kinds).ahead
              /\ mem.held /\ ~to.held => "released" \in CommitJob(to, kinds).ahead
         /\ NoJob.kind = "none"
<1>1. NoJob.kind = "none"
  BY DEF NoJob
<1>2. ASSUME NEW f \in File
      PROVE  /\ MigrateJob(f).kind = "migrating" /\ MigrateJob(f).rev = f.rev + 1
             /\ ~MigrateJob(f).prior
             /\ MigrateJob(f).g = [f.g EXCEPT !.vocab = input.g.vocab]
  BY DEF MigrateJob, NoJob
<1>3. ASSUME NEW f \in File, NEW rev \in Nat
      PROVE  /\ TransitionJob(f, rev).kind = "transition" /\ TransitionJob(f, rev).rev = rev
             /\ TransitionJob(f, rev).g = input.g /\ TransitionJob(f, rev).from = input.accepted
             /\ f.g.held /\ ~input.g.held => "released" \in TransitionJob(f, rev).ahead
             /\ input.g.base # f.g.base => "baseline" \in TransitionJob(f, rev).ahead
  BY DEF TransitionJob, NoJob
<1>4. ASSUME NEW authorized \in BOOLEAN
      PROVE  /\ SeedJob(authorized).kind = IF authorized THEN "reseeding" ELSE "seeding"
             /\ SeedJob(authorized).rev = IF authorized THEN ReseedFloor + 1 ELSE 1
             /\ authorized => "reseeding" \in SeedJob(authorized).ahead
             /\ (authorized /\ disk.store.tag # "absent") => SeedJob(authorized).prior
  BY DEF SeedJob, NoJob
<1>5. ASSUME NEW to, NEW kinds
      PROVE  /\ CommitJob(to, kinds).kind = "transition" /\ CommitJob(to, kinds).rev = floor + 1
             /\ CommitJob(to, kinds).g = to /\ CommitJob(to, kinds).from = mem.base
             /\ kinds \subseteq CommitJob(to, kinds).ahead
             /\ mem.held /\ ~to.held => "released" \in CommitJob(to, kinds).ahead
  BY DEF CommitJob, NoJob
<1>6. QED
  BY <1>1, <1>2, <1>3, <1>4, <1>5

\* What an append of the records ahead leads to.
LEMMA AheadSteps ==
  ASSUME TypeOK, AppendAhead
  PROVE  /\ pc = "ahead"
         /\ UNCHANGED <<disk, safe, backups, rejected, serving, floor, mem, input, queued,
                        seals, excused>>
         /\ \E k \in job.ahead :
              \/ AppendFailed(AheadRecord(k)) /\ Fail("failed")
              \/ /\ AppendConfirmed(AheadRecord(k))
                 /\ job' = [job EXCEPT !.ahead = job.ahead \ {k}]
                 /\ job'.kind = job.kind /\ job'.rev = job.rev /\ job'.g = job.g
                 /\ job'.from = job.from /\ job'.prior = job.prior
                 /\ job'.ahead = job.ahead \ {k}
                 /\ refusal' = refusal
                 /\ \/ pc' = "ahead" /\ job'.ahead # {}
                    \/ pc' = "preserve" /\ job'.ahead = {} /\ job.prior
                    \/ pc' = "unmirror" /\ job'.ahead = {} /\ ~job.prior
<1>1. PICK k \in job.ahead :
        \/ /\ AppendConfirmed(AheadRecord(k))
           /\ job' = [job EXCEPT !.ahead = job.ahead \ {k}]
           /\ pc' = CASE job.ahead # {k} -> "ahead"
                      [] job.ahead = {k} /\ job.prior -> "preserve"
                      [] OTHER -> "unmirror"
           /\ UNCHANGED refusal
        \/ AppendFailed(AheadRecord(k)) /\ Fail("failed")
  BY DEF AppendAhead
<1>2. ASSUME job' = [job EXCEPT !.ahead = job.ahead \ {k}]
      PROVE  /\ job'.kind = job.kind /\ job'.rev = job.rev /\ job'.g = job.g
             /\ job'.from = job.from /\ job'.prior = job.prior
             /\ job'.ahead = job.ahead \ {k}
  BY <1>2 DEF TypeOK, Job
<1>3. job.ahead = {k} <=> job.ahead \ {k} = {}
  BY <1>1
<1>4. QED
  BY <1>1, <1>2, <1>3 DEF AppendAhead

\* What a load that is accepted leads to.
LEMMA LoadSteps ==
  ASSUME TypeOK, NEW stale \in BOOLEAN, LoadAccepted(disk.store, stale)
  PROVE  LET f == disk.store IN
         /\ floor' = f.rev /\ mem' = f.g /\ pc' = "checkpointLoaded" /\ refusal' = refusal
         /\ \/ job' = NoJob /\ queued' = NoJob
            \/ job' = TransitionJob(f, f.rev + 1) /\ queued' = NoJob
            \/ /\ job' = MigrateJob(f)
               /\ queued' \in {NoJob, TransitionJob(f, f.rev + 2)}
BY DEF LoadAccepted

\* How a commit begins.
LEMMA CommitSteps ==
  ASSUME TypeOK, CommitReload \/ CommitAccept \/ CommitLive
  PROVE  \E to, kinds :
           /\ BeginCommit(to, kinds) /\ pc = "up"
           /\ to.base = mem.base \/ "baseline" \in kinds
<1>1. CASE CommitReload
  <2>1. PICK sync \in SyncBases, held \in BOOLEAN, kinds \in {{}, {"sync"}} :
          pc = "up" /\ BeginCommit([mem EXCEPT !.sync = sync, !.held = held], kinds)
    BY <1>1 DEF CommitReload
  <2>2. [mem EXCEPT !.sync = sync, !.held = held].base = mem.base
    BY DEF TypeOK, Content
  <2>3. QED
    BY <2>1, <2>2
<1>2. CASE CommitAccept
  BY <1>2 DEF CommitAccept
<1>3. CASE CommitLive
  <2>1. pc = "up" /\ BeginCommit([mem EXCEPT !.held = ~mem.held], {"sync"})
    BY <1>3 DEF CommitLive
  <2>2. [mem EXCEPT !.held = ~mem.held].base = mem.base
    BY DEF TypeOK, Content
  <2>3. QED
    BY <2>1, <2>2
<1>4. QED
  BY <1>1, <1>2, <1>3

LEMMA CourseNext ==
  ASSUME TypeOK, Course, [Next]_vars
  PROVE  Course'
<1> USE DEF Writing
<1>f. disk.store \in File /\ disk.store.rev \in Nat
  BY GraphStoreAssumption DEF TypeOK, Dir, File, Revisions
<1>n. NoJob.kind = "none"
  BY DEF NoJob
<1>1. CASE Open
  BY <1>1 DEF Open, Course
<1>2. CASE PeekSync \/ BootRefuse
  <2>1. CASE \E why : Fail(why)
    BY <1>2, <2>1, FailCourse DEF PeekSync, BootRefuse
  <2>2. CASE PeekSync /\ pc' = "synced" /\ UNCHANGED job
    BY <2>2 DEF PeekSync, Course
  <2>3. QED
    BY <1>2, <2>1, <2>2 DEF PeekSync, BootRefuse
<1>3. CASE BootLoad
  <2>1. CASE \E why : Fail(why) /\ UNCHANGED <<floor, mem, queued>>
    BY <1>3, <2>1, FailCourse DEF BootLoad
  <2>2. ASSUME NEW stale \in BOOLEAN, LoadAccepted(disk.store, stale)
        PROVE  Course'
    <3>1. ~serving /\ UNCHANGED serving /\ pc' = "checkpointLoaded" /\ floor' = disk.store.rev
      BY <1>3, <2>2 DEF BootLoad, LoadAccepted, Course
    <3>2. \/ /\ queued' = NoJob
             /\ \/ job' = NoJob
                \/ job'.kind \in {"migrating", "transition"} /\ job'.rev > disk.store.rev
          \/ /\ job'.kind = "migrating" /\ ~job'.prior /\ job'.rev > disk.store.rev
             /\ queued'.kind = "transition" /\ queued'.rev > job'.rev
      <4>1. CASE queued' = NoJob
        <5>1. job' \in {NoJob, MigrateJob(disk.store), TransitionJob(disk.store, disk.store.rev + 1)}
          BY <2>2, LoadSteps
        <5>2. disk.store.rev + 1 \in Nat
          BY <1>f
        <5>3. /\ MigrateJob(disk.store).kind = "migrating"
              /\ TransitionJob(disk.store, disk.store.rev + 1).kind = "transition"
              /\ MigrateJob(disk.store).rev = disk.store.rev + 1
              /\ TransitionJob(disk.store, disk.store.rev + 1).rev = disk.store.rev + 1
          BY <1>f, <5>2, JobParts
        <5>4. QED
          BY <1>f, <4>1, <5>1, <5>3
      <4>2. CASE job' = MigrateJob(disk.store) /\ queued' = TransitionJob(disk.store, disk.store.rev + 2)
        <5>1. disk.store.rev + 2 \in Nat
          BY <1>f
        <5>2. queued'.kind = "transition" /\ queued'.rev = disk.store.rev + 2
          BY <1>f, <4>2, <5>1, JobParts
        <5>3. job'.kind = "migrating" /\ ~job'.prior /\ job'.rev = disk.store.rev + 1
          BY <1>f, <4>2, JobParts
        <5>4. QED
          BY <1>f, <5>2, <5>3
      <4>3. QED
        BY <2>2, <4>1, <4>2, LoadSteps
    <3>3. QED
      BY <3>1, <3>2 DEF Course
  <2>3. QED
    BY <1>3, <2>1, <2>2 DEF BootLoad
<1>4. CASE BootSeed
  <2>1. CASE \E why : Fail(why)
    BY <1>4, <2>1, FailCourse DEF BootSeed
  <2>2. CASE pc' = "ahead" /\ job' = SeedJob(Assess = "reseed")
    <3>1. job'.kind \in Intents /\ job'.rev > 0
      <4>1. PICK b \in BOOLEAN : b = (Assess = "reseed")
        BY Zenon
      <4>2. ReseedFloor \in Nat
        BY <1>f, GraphStoreAssumption
        DEF ReseedFloor, HigherOf, KnownRevision, TypeOK, Checkpoint, Revisions
      <4>3. /\ SeedJob(b).kind = IF b THEN "reseeding" ELSE "seeding"
            /\ SeedJob(b).rev = IF b THEN ReseedFloor + 1 ELSE 1
        BY JobParts
      <4>4. job' = SeedJob(b)
        BY <2>2, <4>1
      <4>5. QED
        BY <4>2, <4>3, <4>4 DEF Intents
    <3>2. QED
      BY <1>4, <2>2, <3>1 DEF BootSeed, Course
  <2>3. QED
    BY <1>4, <2>1, <2>2 DEF BootSeed
<1>5. CASE CheckpointLoaded
  <2>1. CASE Fail("failed")
    BY <1>5, <2>1, FailCourse DEF CheckpointLoaded
  <2>2. CASE pc' = (IF job = NoJob THEN "mirror" ELSE "ahead") /\ UNCHANGED job
    BY <1>5, <1>n, <2>2 DEF CheckpointLoaded, Course, Intents
  <2>3. QED
    BY <1>5, <2>1, <2>2 DEF CheckpointLoaded
<1>6. CASE AppendAhead
  <2>1. CASE Fail("failed")
    BY <1>6, <2>1, FailCourse DEF AppendAhead
  <2>2. CASE ~Fail("failed")
    BY <1>6, <2>2, AheadSteps DEF Course
  <2>3. QED
    BY <2>1, <2>2
<1>7. CASE Preserve
  <2>1. CASE Fail("failed")
    BY <1>7, <2>1, FailCourse DEF Preserve
  <2>2. CASE pc' = "unmirror" /\ UNCHANGED job
    BY <1>7, <2>2 DEF Preserve, Course
  <2>3. QED
    BY <1>7, <2>1, <2>2 DEF Preserve
<1>8. CASE RemoveMirror
  <2>1. CASE Fail("failed") /\ UNCHANGED disk
    BY <1>8, <2>1, FailCourse DEF RemoveMirror
  <2>2. CASE job.rev > floor /\ disk' = [disk EXCEPT !.mirror = 0] /\ pc' = "publish"
             /\ UNCHANGED job
    <3>1. /\ disk'.mirror = 0 /\ pc = "unmirror" /\ pc' = "publish"
          /\ UNCHANGED <<job, serving, floor, queued>>
      BY <1>8, <2>2 DEF RemoveMirror, TypeOK, Dir
    <3>2. QED
      BY <2>2, <3>1 DEF Course
  <2>3. QED
    BY <1>8, <2>1, <2>2 DEF RemoveMirror
<1>9. CASE Publish
  <2>1. CASE Fail("failed") /\ UNCHANGED <<disk, floor>>
    BY <1>9, <2>1, FailCourse DEF Publish
  <2>2. CASE /\ pc' = IF job.kind = "reseeding" THEN "unmark" ELSE "checkpoint"
             /\ UNCHANGED job /\ floor' = job.rev
    <3>1. pc = "publish" /\ UNCHANGED <<serving, queued>>
      BY <1>9 DEF Publish
    <3>2. QED
      BY <2>2, <3>1 DEF Course
  <2>3. QED
    BY <1>9, <2>1, <2>2 DEF Publish
<1>10. CASE RemoveMarker
  <2>1. CASE Fail("failed") /\ UNCHANGED disk
    BY <1>10, <2>1, FailCourse DEF RemoveMarker
  <2>2. CASE pc' = "checkpoint" /\ UNCHANGED job
    BY <1>10, <2>2 DEF RemoveMarker, Course
  <2>3. QED
    BY <1>10, <2>1, <2>2 DEF RemoveMarker
<1>11. CASE WriteCheckpoint
  <2>1. CASE Fail("failed") /\ UNCHANGED queued
    BY <1>11, <2>1, FailCourse DEF WriteCheckpoint
  <2>2. CASE /\ job' = queued /\ queued' = NoJob
             /\ pc' = IF queued = NoJob THEN "mirror" ELSE "ahead"
    <3>1. pc = "checkpoint" /\ UNCHANGED <<serving, disk, floor>>
      BY <1>11 DEF WriteCheckpoint
    <3>2. queued # NoJob => queued.kind = "transition" /\ queued.rev > floor
      BY <3>1 DEF Course
    <3>3. QED
      BY <1>n, <2>2, <3>1, <3>2 DEF Course, Intents
  <2>3. QED
    BY <1>11, <2>1, <2>2 DEF WriteCheckpoint
<1>12. CASE PublishMirror
  BY <1>12, <1>n DEF PublishMirror, Course
<1>13. CASE CommitReload \/ CommitAccept \/ CommitLive
  <2>1. PICK to, kinds : BeginCommit(to, kinds) /\ pc = "up"
    BY <1>13, CommitSteps
  <2>2. /\ job'.kind = "transition" /\ job'.rev = floor + 1 /\ floor \in Nat
        /\ pc' = "ahead" /\ UNCHANGED <<serving, queued, disk, floor>>
    BY <2>1, JobParts, GraphStoreAssumption DEF BeginCommit, TypeOK, Revisions
  <2>3. QED
    BY <2>1, <2>2 DEF Course, Intents
<1>14. CASE Exit \/ Crash \/ PowerLoss
  BY <1>14, ForgetCourse DEF Exit, Crash, PowerLoss
<1>15. CASE LandLate \/ RotateTrail \/ UNCHANGED vars
  BY <1>15 DEF LandLate, RotateTrail, vars, Course
<1>16. CASE PlaceMarker \/ TouchStore
  <2>1. disk'.mirror = disk.mirror
    BY <1>16 DEF PlaceMarker, TouchStore, TypeOK, Dir
  <2>2. QED
    BY <1>16, <2>1 DEF PlaceMarker, TouchStore, Course
<1>17. QED
  BY <1>1, <1>2, <1>3, <1>4, <1>5, <1>6, <1>7, <1>8, <1>9, <1>10, <1>11, <1>12, <1>13, <1>14,
     <1>15, <1>16 DEF Next

LEMMA FailAgrees ==
  ASSUME Course, Agrees, NEW why, Fail(why), UNCHANGED <<disk, floor, mem, serving, excused>>,
         serving => pc # "checkpoint"
  PROVE  Agrees'
<1>1. CASE serving
  BY <1>1 DEF Fail, Course, Agrees, HasStore, Untouched, Writing, Readable
<1>2. CASE ~serving
  BY <1>2 DEF Fail, Agrees, HasStore, Writing
<1>3. QED
  BY <1>1, <1>2

LEMMA AgreesNext ==
  ASSUME TypeOK, Course, Agrees, [Next]_vars
  PROVE  Agrees'
<1> USE DEF Writing
<1>f. disk.store \in File /\ disk.store.rev \in Nat
  BY GraphStoreAssumption DEF TypeOK, Dir, File, Revisions
<1>1. CASE Open
  BY <1>1 DEF Open, Course, Agrees, HasStore
<1>2. CASE PeekSync \/ BootRefuse
  <2>1. CASE \E why : Fail(why)
    BY <1>2, <2>1, FailAgrees DEF PeekSync, BootRefuse
  <2>2. CASE PeekSync /\ pc' = "synced"
    BY <2>2 DEF PeekSync, Course, Agrees, HasStore
  <2>3. QED
    BY <1>2, <2>1, <2>2 DEF PeekSync, BootRefuse
<1>3. CASE BootLoad
  <2>1. CASE \E why : Fail(why) /\ UNCHANGED <<floor, mem, queued>>
    BY <1>3, <2>1, FailAgrees DEF BootLoad
  <2>2. CASE \E stale \in BOOLEAN : LoadAccepted(disk.store, stale)
    BY <1>3, <2>2 DEF BootLoad, LoadAccepted, Agrees, Readable
  <2>3. QED
    BY <1>3, <2>1, <2>2 DEF BootLoad
<1>4. CASE BootSeed
  <2>1. CASE \E why : Fail(why)
    BY <1>4, <2>1, FailAgrees DEF BootSeed
  <2>2. CASE pc' = "ahead" /\ job' = SeedJob(Assess = "reseed")
    <3>1. job'.kind \in {"seeding", "reseeding"}
      <4>1. PICK b \in BOOLEAN : b = (Assess = "reseed")
        BY Zenon
      <4>2. QED
        BY <2>2, <4>1, JobParts
    <3>2. ~serving /\ UNCHANGED serving
      BY <1>4 DEF BootSeed, Course
    <3>3. QED
      BY <2>2, <3>1, <3>2 DEF Agrees, HasStore
  <2>3. QED
    BY <1>4, <2>1, <2>2 DEF BootSeed
<1>5. CASE CheckpointLoaded
  <2>1. CASE Fail("failed")
    BY <1>5, <2>1, FailAgrees DEF CheckpointLoaded
  <2>2. CASE pc' = (IF job = NoJob THEN "mirror" ELSE "ahead") /\ UNCHANGED job
    BY <1>5, <2>2 DEF CheckpointLoaded, Agrees, HasStore, Untouched, Readable
  <2>3. QED
    BY <1>5, <2>1, <2>2 DEF CheckpointLoaded
<1>6. CASE AppendAhead
  <2>1. CASE Fail("failed")
    BY <1>6, <2>1, FailAgrees DEF AppendAhead
  <2>2. CASE ~Fail("failed")
    BY <1>6, <2>2, AheadSteps DEF Agrees, HasStore, Untouched, Readable
  <2>3. QED
    BY <2>1, <2>2
<1>7. CASE Preserve
  <2>1. CASE Fail("failed")
    BY <1>7, <2>1, FailAgrees DEF Preserve
  <2>2. CASE pc' = "unmirror" /\ UNCHANGED job
    BY <1>7, <2>2 DEF Preserve, Agrees, HasStore, Untouched, Readable
  <2>3. QED
    BY <1>7, <2>1, <2>2 DEF Preserve
<1>8. CASE RemoveMirror
  <2>1. CASE Fail("failed") /\ UNCHANGED disk
    BY <1>8, <2>1, FailAgrees DEF RemoveMirror
  <2>2. CASE disk' = [disk EXCEPT !.mirror = 0] /\ pc' = "publish" /\ UNCHANGED job
    <3>1. disk'.store = disk.store
      BY <2>2 DEF TypeOK, Dir
    <3>2. QED
      BY <1>8, <2>2, <3>1 DEF RemoveMirror, Agrees, HasStore, Untouched, Readable
  <2>3. QED
    BY <1>8, <2>1, <2>2 DEF RemoveMirror
<1>9. CASE Publish
  <2>1. CASE Fail("failed") /\ UNCHANGED <<disk, floor>>
    BY <1>9, <2>1, FailAgrees DEF Publish
  <2>2. CASE /\ pc' = IF job.kind = "reseeding" THEN "unmark" ELSE "checkpoint"
             /\ UNCHANGED job /\ floor' = job.rev
             /\ disk' = [disk EXCEPT !.store = NextFile]
    <3>1. disk'.store = NextFile
      BY <2>2 DEF TypeOK, Dir
    <3>2. QED
      BY <2>2, <3>1 DEF Agrees, NextFile, Sealed, Readable
  <2>3. QED
    BY <1>9, <2>1, <2>2 DEF Publish
<1>10. CASE RemoveMarker
  <2>1. CASE Fail("failed") /\ UNCHANGED disk
    BY <1>10, <2>1, FailAgrees DEF RemoveMarker
  <2>2. CASE pc' = "checkpoint" /\ UNCHANGED job /\ disk' = [disk EXCEPT !.marker = FALSE]
    <3>1. disk'.store = disk.store
      BY <2>2 DEF TypeOK, Dir
    <3>2. QED
      BY <1>10, <2>2, <3>1 DEF RemoveMarker, Agrees, HasStore, Untouched, Readable
  <2>3. QED
    BY <1>10, <2>1, <2>2 DEF RemoveMarker
<1>11. CASE WriteCheckpoint
  <2>1. CASE Fail("failed") /\ ~serving /\ UNCHANGED mem
    BY <1>11, <2>1, FailAgrees DEF WriteCheckpoint
  <2>2. CASE mem' = job.g /\ pc' = IF queued = NoJob THEN "mirror" ELSE "ahead"
    BY <1>11, <2>2 DEF WriteCheckpoint, Agrees, HasStore, Untouched, Readable
  <2>3. QED
    BY <1>11, <2>1, <2>2 DEF WriteCheckpoint
<1>12. CASE PublishMirror
  <2>1. disk'.store = disk.store
    BY <1>12 DEF PublishMirror, TypeOK, Dir
  <2>2. QED
    BY <1>12, <2>1 DEF PublishMirror, Agrees, HasStore, Untouched, Readable
<1>13. CASE CommitReload \/ CommitAccept \/ CommitLive
  <2>1. PICK to, kinds : BeginCommit(to, kinds) /\ pc = "up"
    BY <1>13, CommitSteps
  <2>2. QED
    BY <2>1 DEF BeginCommit, Course, Agrees, HasStore, Untouched, Readable
<1>14. CASE Exit \/ Crash \/ PowerLoss
  BY <1>14 DEF Exit, Crash, PowerLoss, ForgetProcess, Agrees, HasStore
<1>15. CASE LandLate \/ RotateTrail \/ UNCHANGED vars
  BY <1>15 DEF LandLate, RotateTrail, vars, Agrees, HasStore, Untouched, Readable
<1>16. CASE PlaceMarker
  <2>1. disk'.store = disk.store
    BY <1>16 DEF PlaceMarker, TypeOK, Dir
  <2>2. QED
    BY <1>16, <2>1 DEF PlaceMarker, Agrees, HasStore, Untouched, Readable
<1>17. CASE TouchStore
  BY <1>17 DEF TouchStore, Course, Agrees, HasStore, Untouched
<1>18. QED
  BY <1>1, <1>2, <1>3, <1>4, <1>5, <1>6, <1>7, <1>8, <1>9, <1>10, <1>11, <1>12, <1>13, <1>14,
     <1>15, <1>16, <1>17 DEF Next

\* The facts the proofs below share.
StoreInv == TypeOK /\ Course /\ Agrees

LEMMA StoreInvAlways == Spec => []StoreInv
<1>1. Init => StoreInv
  <2> SUFFICES ASSUME Init PROVE Course /\ Agrees
    BY TypeInit DEF StoreInv
  <2>1. QED
    BY DEF Init, Course, Agrees, HasStore, Writing
<1>2. StoreInv /\ [Next]_vars => StoreInv'
  BY TypeNext, CourseNext, AgreesNext DEF StoreInv
<1>3. QED
  BY <1>1, <1>2, PTL DEF Spec

-----------------------------------------------------------------------------
(* What a write owes the trail *)

\* Over a store with content c, a write that ends a containment or replaces a
\* baseline has its record in the trail t or still has to append it.
Owes(j, c, t) ==
  /\ (c.held /\ ~j.g.held)
       => \E k \in {"released", "reseeding"} :
            k \in j.ahead \/ \E r \in t : r.kind = k /\ r.rev = j.rev
  /\ (j.kind # "reseeding" /\ j.g.base # c.base)
       => /\ j.from = c.base
          /\ \/ "baseline" \in j.ahead
             \/ [kind |-> "baseline", rev |-> j.rev, digest |-> 0, from |-> c.base] \in t

Owed ==
  (Readable(disk.store) /\ Untouched) =>
    /\ (pc \in Writing \union {"checkpointLoaded"} /\ job # NoJob)
         => Owes(job, disk.store.g, trail)
    /\ (queued # NoJob /\ pc # "exiting")
         => /\ Owes(queued, disk.store.g, trail)
            /\ job.g.held = disk.store.g.held /\ job.g.base = disk.store.g.base

\* A reseed has the file it replaces preserved, or still has to.
Preserved ==
  (job.kind = "reseeding" /\ disk.store.tag # "absent") =>
    /\ pc \in {"ahead", "preserve"} => job.prior
    /\ pc \in {"unmirror", "publish"} => disk.store.digest \in rejected

LEMMA PreservedNext ==
  ASSUME StoreInv, Preserved, [Next]_vars
  PROVE  Preserved'
<1> USE DEF StoreInv
<1>n. NoJob.kind = "none"
  BY DEF NoJob
<1>0. CASE job' = NoJob
  BY <1>0, <1>n DEF Preserved
<1>w. CASE pc' \notin Writing
  BY <1>w DEF Preserved, Writing
<1>1. CASE Open \/ PeekSync \/ BootRefuse
  BY <1>1, <1>0, <1>w DEF Open, PeekSync, BootRefuse, Fail, Writing
<1>2. CASE BootLoad
  BY <1>2, <1>0, <1>w DEF BootLoad, LoadAccepted, Fail, Writing
<1>3. CASE BootSeed
  <2>1. CASE \E why : Fail(why)
    BY <2>1, <1>0 DEF Fail
  <2>2. CASE pc' = "ahead" /\ job' = SeedJob(Assess = "reseed")
    <3>1. PICK b \in BOOLEAN : b = (Assess = "reseed")
      BY Zenon
    <3>2. job'.kind = "reseeding" => b
      BY <2>2, <3>1, JobParts
    <3>3. (job'.kind = "reseeding" /\ disk.store.tag # "absent") => job'.prior
      BY <2>2, <3>1, <3>2, JobParts
    <3>4. QED
      BY <1>3, <2>2, <3>3 DEF BootSeed, Preserved
  <2>3. QED
    BY <1>3, <2>1, <2>2 DEF BootSeed
<1>4. CASE CheckpointLoaded
  <2>1. CASE Fail("failed")
    BY <2>1, <1>0 DEF Fail
  <2>2. CASE job' = job
    BY <1>4, <1>n, <2>2 DEF CheckpointLoaded, Course, Preserved
  <2>3. QED
    BY <1>4, <2>1, <2>2 DEF CheckpointLoaded
<1>5. CASE AppendAhead
  <2>1. CASE Fail("failed")
    BY <2>1, <1>0 DEF Fail
  <2>2. CASE ~Fail("failed")
    BY <1>5, <2>2, AheadSteps DEF Preserved
  <2>3. QED
    BY <2>1, <2>2
<1>6. CASE Preserve
  <2>1. CASE Fail("failed")
    BY <2>1, <1>0 DEF Fail
  <2>2. CASE rejected' = rejected \union {disk.store.digest}
    BY <1>6, <2>1, <2>2 DEF Preserve, Preserved
  <2>3. QED
    BY <1>6, <2>1, <2>2 DEF Preserve
<1>7. CASE RemoveMirror
  <2>1. CASE Fail("failed")
    BY <2>1, <1>0 DEF Fail
  <2>2. CASE disk' = [disk EXCEPT !.mirror = 0] /\ pc' = "publish" /\ UNCHANGED job
    <3>1. disk'.store = disk.store
      BY <2>2 DEF TypeOK, Dir
    <3>2. QED
      BY <1>7, <2>2, <3>1 DEF RemoveMirror, Preserved
  <2>3. QED
    BY <1>7, <2>1, <2>2 DEF RemoveMirror
<1>8. CASE Publish \/ RemoveMarker
  BY <1>8, <1>0, <1>w DEF Publish, RemoveMarker, Fail, Writing
<1>9. CASE WriteCheckpoint
  <2>1. CASE Fail("failed")
    BY <2>1, <1>0 DEF Fail
  <2>2. CASE job' = queued
    BY <1>9, <1>n, <2>2 DEF WriteCheckpoint, Course, Preserved
  <2>3. QED
    BY <1>9, <2>1, <2>2 DEF WriteCheckpoint
<1>10. CASE PublishMirror
  BY <1>10, <1>w DEF PublishMirror, Writing
<1>11. CASE CommitReload \/ CommitAccept \/ CommitLive
  <2>1. PICK to, kinds : BeginCommit(to, kinds)
    BY <1>11, CommitSteps
  <2>2. job'.kind = "transition"
    BY <2>1, JobParts DEF BeginCommit
  <2>3. QED
    BY <2>2 DEF Preserved
<1>12. CASE Exit \/ Crash \/ PowerLoss
  BY <1>12, <1>0 DEF Exit, Crash, PowerLoss, ForgetProcess
<1>13. CASE LandLate \/ RotateTrail \/ UNCHANGED vars
  BY <1>13 DEF LandLate, RotateTrail, vars, Preserved
<1>14. CASE PlaceMarker
  <2>1. disk'.store = disk.store
    BY <1>14 DEF PlaceMarker, TypeOK, Dir
  <2>2. QED
    BY <1>14, <2>1 DEF PlaceMarker, Preserved
<1>15. CASE TouchStore
  BY <1>15, <1>w DEF TouchStore, Writing
<1>16. QED
  BY <1>1, <1>2, <1>3, <1>4, <1>5, <1>6, <1>7, <1>8, <1>9, <1>10, <1>11, <1>12, <1>13, <1>14,
     <1>15 DEF Next

\* Only a publish makes a seal.
LEMMA SealedByPublish ==
  ASSUME TypeOK, [Next]_vars, seals' # seals
  PROVE  /\ pc = "publish" /\ disk'.store = NextFile
         /\ UNCHANGED <<trail, rejected, excused, serving>>
<1>1. CASE Publish
  <2>1. disk' = [disk EXCEPT !.store = NextFile]
    BY <1>1 DEF Publish
  <2>2. disk'.store = NextFile
    BY <2>1 DEF TypeOK, Dir
  <2>3. QED
    BY <1>1, <2>2 DEF Publish
<1>2. CASE ~Publish
  BY <1>2 DEF Next, vars, Open, PeekSync, BootRefuse, BootLoad, BootSeed, CheckpointLoaded,
    AppendAhead, LandLate, Preserve, RemoveMirror, RemoveMarker, WriteCheckpoint, PublishMirror,
    CommitReload, CommitAccept, CommitLive, BeginCommit, Exit, Crash, PowerLoss, PlaceMarker,
    TouchStore, RotateTrail
<1>3. QED
  BY <1>1, <1>2

\* A reseed overwrites a store file, readable or not, only after its bytes were
\* published under another name (seed calls preserve before persist).
THEOREM ReseedAlwaysPreserves == Spec => ReseedPreserves
<1>1. Init => Preserved
  BY DEF Init, Preserved
<1>2. ASSUME StoreInv, Preserved, [Next]_vars
      PROVE  [(seals' # seals /\ job.kind = "reseeding" /\ disk.store.tag # "absent")
                => disk.store.digest \in rejected]_vars
  BY <1>2, SealedByPublish DEF StoreInv, Preserved
<1>3. QED
  BY <1>1, <1>2, StoreInvAlways, PreservedNext, PTL DEF Spec, ReseedPreserves

LEMMA OwesKept ==
  ASSUME NEW j, NEW c, NEW d, NEW t, NEW u, Owes(j, c, t), t \subseteq u,
         c.held = d.held, c.base = d.base
  PROVE  Owes(j, d, u)
BY DEF Owes

\* A record that is appended is no longer owed.
LEMMA OwesPaid ==
  ASSUME NEW j, NEW i, NEW c, NEW t, NEW u, NEW k, Owes(j, c, t), t \subseteq u,
         i.kind = j.kind, i.rev = j.rev, i.g = j.g, i.from = j.from, i.ahead = j.ahead \ {k},
         [kind |-> k, rev |-> j.rev, digest |-> 0,
          from |-> IF k = "baseline" THEN j.from ELSE None] \in u
  PROVE  Owes(i, c, u)
<1>1. ASSUME c.held, ~i.g.held
      PROVE  \E l \in {"released", "reseeding"} :
               l \in i.ahead \/ \E r \in u : r.kind = l /\ r.rev = i.rev
  <2>1. PICK l \in {"released", "reseeding"} :
          l \in j.ahead \/ \E r \in t : r.kind = l /\ r.rev = j.rev
    BY <1>1 DEF Owes
  <2>2. CASE l = k
    BY <2>2
  <2>3. CASE l # k
    BY <2>1, <2>3
  <2>4. QED
    BY <2>2, <2>3
<1>2. ASSUME i.kind # "reseeding", i.g.base # c.base
      PROVE  /\ i.from = c.base
             /\ \/ "baseline" \in i.ahead
                \/ [kind |-> "baseline", rev |-> i.rev, digest |-> 0, from |-> c.base] \in u
  <2>1. /\ j.from = c.base
        /\ \/ "baseline" \in j.ahead
           \/ [kind |-> "baseline", rev |-> j.rev, digest |-> 0, from |-> c.base] \in t
    BY <1>2 DEF Owes
  <2>2. CASE k = "baseline"
    BY <2>1, <2>2
  <2>3. CASE k # "baseline"
    BY <2>1, <2>3
  <2>4. QED
    BY <2>2, <2>3
<1>3. QED
  BY <1>1, <1>2 DEF Owes

\* The jobs a load, a seed and a commit start with owe what they have to.
LEMMA OwesStart ==
  ASSUME TypeOK, NEW t
  PROVE  /\ \A f \in File : Owes(MigrateJob(f), f.g, t)
         /\ \A f \in File, rev \in Nat :
              f.g.base = input.accepted => Owes(TransitionJob(f, rev), f.g, t)
         /\ \A c : Owes(SeedJob(TRUE), c, t)
         /\ \A to, kinds : (to.base = mem.base \/ "baseline" \in kinds)
              => Owes(CommitJob(to, kinds), mem, t)
<1>1. ASSUME NEW f \in File
      PROVE  Owes(MigrateJob(f), f.g, t)
  <2>1. MigrateJob(f).g.held = f.g.held /\ MigrateJob(f).g.base = f.g.base
    <3>1. MigrateJob(f).g = [f.g EXCEPT !.vocab = input.g.vocab]
      BY JobParts
    <3>2. f.g \in Content
      BY DEF File
    <3>3. QED
      BY <3>1, <3>2 DEF Content
  <2>2. QED
    BY <2>1 DEF Owes
<1>2. ASSUME NEW f \in File, NEW rev \in Nat, f.g.base = input.accepted
      PROVE  Owes(TransitionJob(f, rev), f.g, t)
  BY <1>2, JobParts DEF Owes
<1>3. ASSUME NEW c
      PROVE  Owes(SeedJob(TRUE), c, t)
  BY JobParts DEF Owes
<1>4. ASSUME NEW to, NEW kinds, to.base = mem.base \/ "baseline" \in kinds
      PROVE  Owes(CommitJob(to, kinds), mem, t)
  BY <1>4, JobParts DEF Owes
<1>5. QED
  BY <1>1, <1>2, <1>3, <1>4

\* Nothing is owed by a process that ends, or outside a change.
LEMMA OwedIdle ==
  ASSUME queued' = NoJob \/ pc' = "exiting",
         job' = NoJob \/ pc' \notin Writing \union {"checkpointLoaded"}
  PROVE  Owed'
BY DEF Owed

LEMMA OwedNext ==
  ASSUME StoreInv, Owed, [Next]_vars
  PROVE  Owed'
<1> USE DEF StoreInv
<1>f. disk.store \in File /\ disk.store.rev \in Nat
  BY GraphStoreAssumption DEF TypeOK, Dir, File, Revisions
<1>t. trail \subseteq trail'
  BY TrailGrows
<1>0. ASSUME NEW why, Fail(why), UNCHANGED <<queued, serving>>
      PROVE  Owed'
  <2>1. serving => queued = NoJob
    BY DEF Course, Writing
  <2>2. QED
    BY <1>0, <2>1, OwedIdle DEF Fail
<1>k. ASSUME UNCHANGED <<job, queued, serving, excused>>, disk'.store = disk.store,
             pc' \in Writing \union {"checkpointLoaded"}
               => pc \in Writing \union {"checkpointLoaded"},
             pc' = "exiting" <=> pc = "exiting"
      PROVE  Owed'
  BY <1>k, <1>t, OwesKept DEF Owed, Readable, Untouched
<1>1. CASE Open \/ PeekSync \/ BootRefuse
  <2>1. CASE \E why : Fail(why)
    BY <1>0, <1>1, <2>1 DEF Open, PeekSync, BootRefuse
  <2>2. CASE pc' \in {"opened", "synced"} /\ UNCHANGED <<job, queued>> /\ pc \in {"down", "opened"}
    BY <2>2, OwedIdle DEF Course, Writing
  <2>3. QED
    BY <1>1, <2>1, <2>2 DEF Open, PeekSync, BootRefuse
<1>2. CASE BootLoad
  <2>1. CASE \E why : Fail(why) /\ UNCHANGED <<floor, mem, queued>>
    BY <1>0, <1>2, <2>1 DEF BootLoad
  <2>2. ASSUME NEW dropped \in BOOLEAN, NEW stale \in BOOLEAN,
               LoadRefusal(disk.store, dropped, stale) = "none",
               LoadAccepted(disk.store, stale)
        PROVE  Owed'
    <3>1. disk.store.g.base = input.accepted
      BY <2>2 DEF LoadRefusal
    <3>2. disk.store.rev + 1 \in Nat /\ disk.store.rev + 2 \in Nat
      BY <1>f
    <3>3. /\ Owes(MigrateJob(disk.store), disk.store.g, trail')
          /\ Owes(TransitionJob(disk.store, disk.store.rev + 1), disk.store.g, trail')
          /\ Owes(TransitionJob(disk.store, disk.store.rev + 2), disk.store.g, trail')
      BY <1>f, <3>1, <3>2, OwesStart
    <3>4. /\ MigrateJob(disk.store).g.held = disk.store.g.held
          /\ MigrateJob(disk.store).g.base = disk.store.g.base
      <4>1. MigrateJob(disk.store).g = [disk.store.g EXCEPT !.vocab = input.g.vocab]
        BY <1>f, JobParts
      <4>2. disk.store.g \in Content
        BY <1>f DEF File
      <4>3. QED
        BY <4>1, <4>2 DEF Content
    <3>5. /\ disk' = disk
          /\ \/ job' = NoJob /\ queued' = NoJob
             \/ job' = TransitionJob(disk.store, disk.store.rev + 1) /\ queued' = NoJob
             \/ /\ job' = MigrateJob(disk.store)
                /\ queued' \in {NoJob, TransitionJob(disk.store, disk.store.rev + 2)}
      BY <1>2, <2>2, LoadSteps DEF BootLoad
    <3>6. QED
      BY <3>3, <3>4, <3>5 DEF Owed
  <2>3. QED
    BY <1>2, <2>1, <2>2 DEF BootLoad
<1>3. CASE BootSeed
  <2>1. CASE \E why : Fail(why)
    BY <1>0, <1>3, <2>1 DEF BootSeed
  <2>2. CASE pc' = "ahead" /\ job' = SeedJob(Assess = "reseed")
    <3>1. queued' = NoJob /\ disk' = disk /\ Assess \in {"seed", "reseed"}
      BY <1>3 DEF BootSeed, Course
    <3>2. CASE Assess = "reseed"
      <4>1. job' = SeedJob(TRUE)
        BY <2>2, <3>2
      <4>2. Owes(SeedJob(TRUE), disk.store.g, trail')
        BY OwesStart
      <4>3. QED
        BY <3>1, <4>1, <4>2 DEF Owed
    <3>3. CASE Assess = "seed"
      <4>1. ~Readable(disk.store)
        BY <3>3 DEF Assess
      <4>2. QED
        BY <3>1, <4>1 DEF Owed, Readable
    <3>4. QED
      BY <3>1, <3>2, <3>3
  <2>3. QED
    BY <1>3, <2>1, <2>2 DEF BootSeed
<1>4. CASE CheckpointLoaded
  <2>1. CASE Fail("failed")
    BY <1>0, <1>4, <2>1 DEF CheckpointLoaded
  <2>2. CASE pc' = (IF job = NoJob THEN "mirror" ELSE "ahead") /\ UNCHANGED job
    BY <1>4, <1>k, <2>2 DEF CheckpointLoaded
  <2>3. QED
    BY <1>4, <2>1, <2>2 DEF CheckpointLoaded
<1>5. CASE AppendAhead
  <2>1. CASE Fail("failed")
    BY <1>0, <1>5, <2>1 DEF AppendAhead
  <2>2. CASE ~Fail("failed")
    <3>1. PICK k \in job.ahead :
            /\ AppendConfirmed(AheadRecord(k))
            /\ job'.kind = job.kind /\ job'.rev = job.rev /\ job'.g = job.g
            /\ job'.from = job.from /\ job'.ahead = job.ahead \ {k}
            /\ pc' \in Writing
      BY <1>5, <2>2, AheadSteps DEF Writing
    <3>2. UNCHANGED <<disk, serving, excused, queued>> /\ pc = "ahead"
      BY <1>5 DEF AppendAhead
    <3>3. [kind |-> k, rev |-> job.rev, digest |-> 0,
           from |-> IF k = "baseline" THEN job.from ELSE None] \in trail'
      BY <3>1 DEF AppendConfirmed, Land, AheadRecord
    <3>4. job # NoJob
      BY <3>1 DEF NoJob
    <3>5. Owes(job, disk.store.g, trail) => Owes(job', disk.store.g, trail')
      BY <1>t, <3>1, <3>3, OwesPaid
    <3>6. queued # NoJob /\ Owes(queued, disk.store.g, trail) => Owes(queued, disk.store.g, trail')
      BY <1>t, OwesKept
    <3>7. QED
      BY <3>1, <3>2, <3>4, <3>5, <3>6 DEF Owed, Untouched, Writing
  <2>3. QED
    BY <2>1, <2>2
<1>6. CASE Preserve
  <2>1. CASE Fail("failed")
    BY <1>0, <1>6, <2>1 DEF Preserve
  <2>2. CASE pc' = "unmirror" /\ UNCHANGED job
    BY <1>6, <1>k, <2>2 DEF Preserve, Writing
  <2>3. QED
    BY <1>6, <2>1, <2>2 DEF Preserve
<1>7. CASE RemoveMirror
  <2>1. CASE Fail("failed")
    BY <1>0, <1>7, <2>1 DEF RemoveMirror
  <2>2. CASE disk' = [disk EXCEPT !.mirror = 0] /\ pc' = "publish" /\ UNCHANGED job
    <3>1. disk'.store = disk.store
      BY <2>2 DEF TypeOK, Dir
    <3>2. QED
      BY <1>7, <1>k, <2>2, <3>1 DEF RemoveMirror, Writing
  <2>3. QED
    BY <1>7, <2>1, <2>2 DEF RemoveMirror
<1>8. CASE Publish
  <2>1. CASE Fail("failed")
    BY <1>0, <1>8, <2>1 DEF Publish
  <2>2. CASE /\ disk' = [disk EXCEPT !.store = NextFile] /\ UNCHANGED job
             /\ pc' = IF job.kind = "reseeding" THEN "unmark" ELSE "checkpoint"
    <3>1. disk'.store.g = job.g
      BY <2>2 DEF TypeOK, Dir, NextFile, Sealed
    <3>2. pc = "publish" /\ UNCHANGED <<queued, trail, serving, excused>>
      BY <1>8 DEF Publish
    <3>3. CASE queued = NoJob
      BY <2>2, <3>2, <3>3, OwedIdle DEF Writing
    <3>4. CASE queued # NoJob
      <4>1. ~serving /\ job.kind = "migrating"
        BY <3>2, <3>4 DEF Course
      <4>2. Readable(disk.store)
        BY <3>2, <4>1 DEF Agrees, HasStore, Untouched, Writing
      <4>3. /\ Owes(queued, disk.store.g, trail)
            /\ job.g.held = disk.store.g.held /\ job.g.base = disk.store.g.base
        BY <3>2, <3>4, <4>1, <4>2 DEF Owed, Untouched
      <4>4. Owes(queued, job.g, trail)
        BY <4>3, OwesKept
      <4>5. QED
        BY <2>2, <3>1, <3>2, <4>4 DEF Owed, Writing
    <3>5. QED
      BY <3>3, <3>4
  <2>3. QED
    BY <1>8, <2>1, <2>2 DEF Publish
<1>9. CASE RemoveMarker
  <2>1. CASE Fail("failed")
    BY <1>0, <1>9, <2>1 DEF RemoveMarker
  <2>2. CASE pc' = "checkpoint" /\ UNCHANGED job
    <3>1. queued' = NoJob
      BY <1>9 DEF RemoveMarker, Course
    <3>2. QED
      BY <2>2, <3>1, OwedIdle DEF Writing
  <2>3. QED
    BY <1>9, <2>1, <2>2 DEF RemoveMarker
<1>10. CASE WriteCheckpoint
  <2>1. CASE Fail("failed") /\ UNCHANGED queued
    BY <1>0, <1>10, <2>1 DEF WriteCheckpoint
  <2>2. CASE /\ job' = queued /\ queued' = NoJob
             /\ pc' = IF queued = NoJob THEN "mirror" ELSE "ahead"
    <3>1. pc = "checkpoint" /\ UNCHANGED <<disk, serving, excused>>
      BY <1>10 DEF WriteCheckpoint
    <3>2. Owes(queued, disk.store.g, trail) => Owes(queued, disk.store.g, trail')
      BY <1>t, OwesKept
    <3>3. QED
      BY <2>2, <3>1, <3>2 DEF Owed, Untouched
  <2>3. QED
    BY <1>10, <2>1, <2>2 DEF WriteCheckpoint
<1>11. CASE PublishMirror
  BY <1>11, OwedIdle DEF PublishMirror, Course, Writing
<1>12. CASE CommitReload \/ CommitAccept \/ CommitLive
  <2>1. PICK to, kinds : /\ BeginCommit(to, kinds) /\ pc = "up"
                         /\ to.base = mem.base \/ "baseline" \in kinds
    BY <1>12, CommitSteps
  <2>2. /\ job' = CommitJob(to, kinds) /\ queued' = NoJob
        /\ UNCHANGED <<disk, trail, serving, excused>> /\ serving
    BY <2>1 DEF BeginCommit, Course
  <2>3. Owes(CommitJob(to, kinds), mem, trail)
    BY <2>1, OwesStart
  <2>4. Untouched => disk.store.g = mem
    BY <2>1, <2>2 DEF Agrees, HasStore
  <2>5. QED
    BY <2>2, <2>3, <2>4 DEF Owed, Untouched
<1>13. CASE Exit \/ Crash \/ PowerLoss
  BY <1>13, OwedIdle DEF Exit, Crash, PowerLoss, ForgetProcess
<1>14. CASE LandLate \/ RotateTrail \/ UNCHANGED vars
  BY <1>14, <1>k DEF LandLate, RotateTrail, vars
<1>15. CASE PlaceMarker
  <2>1. disk'.store = disk.store
    BY <1>15 DEF PlaceMarker, TypeOK, Dir
  <2>2. QED
    BY <1>15, <1>k, <2>1 DEF PlaceMarker
<1>16. CASE TouchStore
  BY <1>16, OwedIdle DEF TouchStore, Course, Writing
<1>17. QED
  BY <1>1, <1>2, <1>3, <1>4, <1>5, <1>6, <1>7, <1>8, <1>9, <1>10, <1>11, <1>12, <1>13, <1>14,
     <1>15, <1>16 DEF Next

LEMMA OwedAlways == Spec => []Owed
<1>1. Init => Owed
  BY DEF Init, Owed
<1>2. QED
  BY <1>1, StoreInvAlways, OwedNext, PTL DEF Spec

\* At the publish nothing is owed any more: the records are in the trail.
LEMMA OwedAtPublish ==
  ASSUME StoreInv, Owed, pc = "publish", Readable(disk.store), Untouched
  PROVE  /\ (disk.store.g.held /\ ~job.g.held)
              => \E r \in trail : r.kind \in {"released", "reseeding"} /\ r.rev = job.rev
         /\ (job.kind # "reseeding" /\ job.g.base # disk.store.g.base)
              => [kind |-> "baseline", rev |-> job.rev, digest |-> 0,
                  from |-> disk.store.g.base] \in trail
<1>1. job.ahead = {} /\ job # NoJob
  BY DEF StoreInv, Course, Writing, NoJob, Intents
<1>2. Owes(job, disk.store.g, trail)
  BY <1>1 DEF Owed, Writing
<1>3. QED
  BY <1>1, <1>2 DEF Owes

\* A write that replaces one baseline by another has, in the trail, the events
\* computed against the baseline it replaces: load refuses a store whose baseline is
\* not the one that was peeked, and a commit starts from what is stored.
THEOREM BaselineHistoryHolds == Spec => BaselineHistory
<1>1. ASSUME StoreInv, Owed, [Next]_vars
      PROVE  [(/\ seals' # seals
               /\ Readable(disk.store)
               /\ disk'.store.g.base # disk.store.g.base
               /\ job.kind # "reseeding"
               /\ serving => "touched" \notin excused)
              => [kind |-> "baseline", rev |-> job.rev, digest |-> 0,
                  from |-> disk.store.g.base] \in trail]_vars
  <2> SUFFICES ASSUME seals' # seals, Readable(disk.store),
                      disk'.store.g.base # disk.store.g.base, job.kind # "reseeding",
                      serving => "touched" \notin excused
               PROVE  [kind |-> "baseline", rev |-> job.rev, digest |-> 0,
                       from |-> disk.store.g.base] \in trail
    OBVIOUS
  <2>1. pc = "publish" /\ disk'.store.g = job.g
    BY <1>1, SealedByPublish DEF StoreInv, NextFile, Sealed
  <2>2. QED
    BY <1>1, <2>1, OwedAtPublish DEF Untouched
<1>2. QED
  BY <1>1, StoreInvAlways, OwedAlways, PTL DEF Spec, BaselineHistory

\* No write ends a containment without a `released` record of its revision, except a
\* reseed root authorized, although the layer that ends it may come from a file, a
\* reload or a caller.
THEOREM ContainmentAlwaysKept == Spec => ContainmentKept
<1>1. ASSUME StoreInv, Owed, [Next]_vars
      PROVE  [(/\ seals' # seals
               /\ Readable(disk.store)
               /\ disk.store.g.held
               /\ ~disk'.store.g.held
               /\ serving => "touched" \notin excused)
              => \E r \in trail : /\ r.kind \in {"released", "reseeding"}
                                  /\ r.rev = disk'.store.rev]_vars
  <2> SUFFICES ASSUME seals' # seals, Readable(disk.store), disk.store.g.held,
                      ~disk'.store.g.held, serving => "touched" \notin excused
               PROVE  \E r \in trail : /\ r.kind \in {"released", "reseeding"}
                                       /\ r.rev = disk'.store.rev
    OBVIOUS
  <2>1. pc = "publish" /\ disk'.store.g = job.g /\ disk'.store.rev = job.rev
    BY <1>1, SealedByPublish DEF StoreInv, NextFile, Sealed
  <2>2. QED
    BY <1>1, <2>1, OwedAtPublish DEF Untouched
<1>2. QED
  BY <1>1, StoreInvAlways, OwedAlways, PTL DEF Spec, ContainmentKept

-----------------------------------------------------------------------------
(* The anchor *)

LateCheckpoints == {r \in late : r.kind = "checkpoint"}

\* Unless a late line overtook it, the anchor is the highest checkpoint of the trail and
\* the store in use is not below it.  A checkpoint that may still land is one of the
\* process that serves or exits, and not above its store.
Anchored ==
  /\ ~overtaken => anchor.rev = top
  /\ pc \in {"down", "opened", "synced", "checkpointLoaded"} => late = {}
  /\ LateCheckpoints # {} => serving \/ pc = "exiting"
  /\ \A r \in LateCheckpoints : r.rev <= floor
  /\ ~overtaken /\ HasStore => floor >= top
  /\ ~overtaken /\ pc \in Writing => job.rev >= top

LEMMA Numbers ==
  ASSUME TypeOK
  PROVE  /\ top \in Nat /\ floor \in Nat /\ anchor.rev \in Nat /\ seals \in Nat
         /\ job.rev \in Nat /\ queued.rev \in Nat
         /\ disk.store.rev \in Nat /\ disk.mirror \in Nat /\ safe.mirror \in Nat
         /\ \A r \in late : r.rev \in Nat
         /\ \A f \in backups : f.rev \in Nat
BY GraphStoreAssumption DEF TypeOK, Revisions, Checkpoint, Job, Dir, File, Record

\* A record written ahead is no checkpoint, whether or not it lands in time.
LEMMA AheadIsNoCheckpoint ==
  ASSUME TypeOK, NEW k \in job.ahead,
         AppendConfirmed(AheadRecord(k)) \/ AppendFailed(AheadRecord(k))
  PROVE  /\ UNCHANGED <<anchor, top, overtaken, LateCheckpoints>>
         /\ AppendConfirmed(AheadRecord(k)) => UNCHANGED late
<1>1. k \in AheadKinds
  BY DEF TypeOK, Job
<1>2. AheadRecord(k).kind # "checkpoint"
  BY <1>1 DEF AheadRecord, AheadKinds, Intents
<1>3. QED
  BY <1>2 DEF AppendConfirmed, AppendFailed, Land, LateCheckpoints

\* A failed step ends the change and leaves the anchor alone.
LEMMA FailAnchored ==
  ASSUME StoreInv, Anchored, NEW why, Fail(why),
         UNCHANGED <<anchor, top, overtaken, LateCheckpoints, floor, serving>>,
         late' = late \/ pc \notin {"down", "opened", "synced"}
  PROVE  Anchored'
<1>1. pc' = IF serving THEN "up" ELSE "exiting"
  BY DEF Fail
<1>2. serving' => HasStore
  BY DEF HasStore
<1>3. HasStore' => HasStore
  BY <1>1, <1>2 DEF HasStore, Writing
<1>4. QED
  BY <1>1, <1>3 DEF Anchored, Writing

LEMMA AnchoredBoot ==
  ASSUME StoreInv, Anchored, Open \/ PeekSync \/ BootRefuse \/ BootLoad \/ BootSeed
  PROVE  Anchored'
<1> USE DEF StoreInv
<1>n. UNCHANGED <<anchor, top, overtaken, late, serving, LateCheckpoints>> /\ ~serving /\ late = {}
  BY DEF Open, PeekSync, BootRefuse, BootLoad, BootSeed, Course, Writing, Anchored, LateCheckpoints
<1>l. LateCheckpoints = {}
  BY <1>n DEF LateCheckpoints
<1>1. CASE Open \/ PeekSync \/ BootRefuse
  <2>1. CASE \E why : Fail(why)
    BY <1>1, <1>n, <2>1, FailAnchored DEF Open, PeekSync, BootRefuse
  <2>2. CASE pc' \in {"opened", "synced"}
    BY <1>n, <1>l, <2>2 DEF Anchored, HasStore, Writing
  <2>3. QED
    BY <1>1, <2>1, <2>2 DEF Open, PeekSync, BootRefuse
<1>2. CASE BootLoad
  <2>1. CASE \E why : Fail(why) /\ UNCHANGED <<floor, mem, queued>>
    BY <1>2, <1>n, <2>1, FailAnchored DEF BootLoad
  <2>2. CASE \E stale \in BOOLEAN : LoadAccepted(disk.store, stale)
    <3>1. disk.store.rev >= anchor.rev
      BY <1>2, Numbers DEF BootLoad, Assess, Readable
    <3>2. floor' = disk.store.rev /\ pc' = "checkpointLoaded"
      BY <2>2 DEF LoadAccepted
    <3>3. QED
      BY <1>n, <1>l, <3>1, <3>2 DEF Anchored, HasStore, Writing
  <2>3. QED
    BY <1>2, <2>1, <2>2 DEF BootLoad
<1>3. CASE BootSeed
  <2>1. CASE \E why : Fail(why)
    BY <1>3, <1>n, <2>1, FailAnchored DEF BootSeed
  <2>2. CASE pc' = "ahead" /\ job' = SeedJob(Assess = "reseed")
    <3>1. PICK b \in BOOLEAN : b = (Assess = "reseed")
      BY Zenon
    <3>2. /\ job'.kind = IF b THEN "reseeding" ELSE "seeding"
          /\ job'.rev = IF b THEN ReseedFloor + 1 ELSE 1
      BY <2>2, <3>1, JobParts
    <3>3. b \/ Assess = "seed"
      BY <1>3, <3>1 DEF BootSeed
    <3>4. Assess = "seed" => anchor.rev = 0
      BY DEF Assess, NoCheckpoint
    <3>5. KnownRevision \in Nat
      BY Numbers DEF KnownRevision
    <3>6. job'.rev >= anchor.rev
      BY <3>2, <3>3, <3>4, <3>5, Numbers DEF ReseedFloor, HigherOf
    <3>7. ~HasStore'
      BY <1>n, <2>2, <3>2 DEF HasStore
    <3>8. QED
      BY <1>n, <1>l, <2>2, <3>6, <3>7 DEF Anchored
  <2>3. QED
    BY <1>3, <2>1, <2>2 DEF BootSeed
<1>4. QED
  BY <1>1, <1>2, <1>3

\* A checkpoint of the store in use, confirmed, failed or left to land.
LEMMA AnchoredCheckpoint ==
  ASSUME StoreInv, Anchored, CheckpointLoaded \/ WriteCheckpoint
  PROVE  Anchored'
<1> USE DEF StoreInv
<1> DEFINE r == CheckpointRecord(floor, disk.store.digest)
<1>1. /\ pc \in {"checkpointLoaded", "checkpoint"} /\ HasStore
      /\ UNCHANGED <<serving, floor>> /\ (~overtaken => floor >= top)
      /\ overtaken \in BOOLEAN
  BY DEF CheckpointLoaded, WriteCheckpoint, Anchored, HasStore, TypeOK
<1>2. r.kind = "checkpoint" /\ r.rev = floor
  BY DEF CheckpointRecord
<1>l. LateCheckpoints # {} => serving
  BY <1>1 DEF Anchored
<1>3. CASE /\ AppendConfirmed(r) /\ pc' \in {"mirror", "ahead"} /\ job' \in {job, queued}
           /\ pc' = "ahead" => job'.rev > floor
  <2>1. /\ late' = late /\ anchor'.rev = floor /\ top' = HigherOf(top, floor)
        /\ overtaken' = IF floor >= top THEN FALSE ELSE overtaken
    BY <1>2, <1>3 DEF AppendConfirmed, Land
  <2>2. ~overtaken' => top' = floor
    BY <1>1, <2>1, Numbers DEF HigherOf
  <2>3. LateCheckpoints' = LateCheckpoints
    BY <2>1 DEF LateCheckpoints
  <2>4. \A t \in LateCheckpoints' : t.rev <= floor'
    BY <1>1, <2>3 DEF Anchored
  <2>5. ~overtaken' => anchor'.rev = top' /\ floor' >= top'
    BY <1>1, <2>1, <2>2, Numbers
  <2>6. ~overtaken' /\ pc' \in Writing => job'.rev >= top'
    BY <1>3, <2>2, Numbers DEF Writing
  <2>7. QED
    BY <1>1, <1>3, <1>l, <2>3, <2>4, <2>5, <2>6 DEF Anchored
<1>4. CASE AppendFailed(r) /\ (pc' = "exiting" \/ (serving /\ pc' = "mirror"))
  <2>1. UNCHANGED <<anchor, top, overtaken>> /\ LateCheckpoints' \subseteq LateCheckpoints \union {r}
    BY <1>4 DEF AppendFailed, LateCheckpoints
  <2>2. pc' \notin Writing /\ (~overtaken' /\ HasStore' => floor' >= top')
    BY <1>1, <1>4, <2>1 DEF Writing
  <2>3. \A t \in LateCheckpoints' : t.rev <= floor'
    BY <1>1, <1>2, <2>1, Numbers DEF Anchored
  <2>4. QED
    BY <1>1, <1>4, <2>1, <2>2, <2>3 DEF Anchored
<1>5. CASE CheckpointLoaded
  <2>0. ~serving /\ (job = NoJob \/ job.rev > floor)
    BY <1>5 DEF CheckpointLoaded, Course, Writing
  <2>1. CASE /\ AppendConfirmed(r) /\ UNCHANGED job
             /\ pc' = IF job = NoJob THEN "mirror" ELSE "ahead"
    BY <1>3, <2>0, <2>1
  <2>2. CASE AppendFailed(r) /\ Fail("failed")
    <3>1. pc' = "exiting"
      BY <2>0, <2>2 DEF Fail
    <3>2. QED
      BY <1>4, <2>2, <3>1
  <2>3. QED
    BY <1>5, <2>1, <2>2 DEF CheckpointLoaded
<1>6. CASE WriteCheckpoint
  <2>1. job.rev = floor /\ pc = "checkpoint"
    BY <1>6 DEF WriteCheckpoint, Course
  <2>2. queued # NoJob => ~serving /\ queued.rev > floor
    BY <2>1 DEF Course
  <2>3. CASE AppendConfirmed(r) /\ job' = queued /\ pc' = IF queued = NoJob THEN "mirror" ELSE "ahead"
    BY <1>3, <2>2, <2>3
  <2>4. CASE AppendFailed(r) /\ serving /\ pc' = IF queued = NoJob THEN "mirror" ELSE "ahead"
    <3>1. pc' = "mirror"
      BY <2>2, <2>4
    <3>2. QED
      BY <1>4, <2>4, <3>1
  <2>5. CASE AppendFailed(r) /\ ~serving /\ Fail("failed")
    <3>1. pc' = "exiting"
      BY <2>5 DEF Fail
    <3>2. QED
      BY <1>4, <2>5, <3>1
  <2>6. QED
    BY <1>6, <2>1, <2>3, <2>4, <2>5 DEF WriteCheckpoint
<1>7. QED
  BY <1>5, <1>6

LEMMA AnchoredWrite ==
  ASSUME StoreInv, Anchored,
         Preserve \/ RemoveMirror \/ Publish \/ RemoveMarker \/ PublishMirror
  PROVE  Anchored'
<1> USE DEF StoreInv
<1>n. /\ UNCHANGED <<anchor, top, overtaken, late, LateCheckpoints>>
      /\ pc \notin {"down", "opened", "synced"}
  BY DEF Preserve, RemoveMirror, Publish, RemoveMarker, PublishMirror, LateCheckpoints
<1>1. CASE \E why : Fail(why) /\ UNCHANGED <<floor, serving>>
  BY <1>n, <1>1, FailAnchored
<1>2. CASE Preserve \/ RemoveMirror
  <2>1. CASE /\ UNCHANGED <<job, floor, serving>>
             /\ pc \in {"preserve", "unmirror"} /\ pc' \in {"unmirror", "publish"}
    BY <1>n, <2>1 DEF Anchored, HasStore, Writing
  <2>2. QED
    BY <1>1, <1>2, <2>1 DEF Preserve, RemoveMirror
<1>3. CASE Publish
  <2>1. CASE floor' = job.rev /\ pc' \in {"unmark", "checkpoint"}
    <3>1. pc = "publish" /\ UNCHANGED serving
      BY <1>3 DEF Publish
    <3>2. ~overtaken => job.rev >= top
      BY <3>1 DEF Anchored, Writing
    <3>3. \A t \in LateCheckpoints : t.rev <= job.rev
      BY <3>1, Numbers DEF Anchored, Course, Writing, LateCheckpoints
    <3>4. QED
      BY <1>n, <2>1, <3>1, <3>2, <3>3 DEF Anchored, Writing
  <2>2. QED
    BY <1>1, <1>3, <2>1 DEF Publish
<1>4. CASE RemoveMarker
  <2>1. CASE pc' = "checkpoint" /\ pc = "unmark" /\ UNCHANGED <<floor, serving>>
    BY <1>n, <2>1 DEF Anchored, HasStore, Writing
  <2>2. QED
    BY <1>1, <1>4, <2>1 DEF RemoveMarker
<1>5. CASE PublishMirror
  BY <1>n, <1>5 DEF PublishMirror, Anchored, HasStore, Writing
<1>6. QED
  BY <1>2, <1>3, <1>4, <1>5

LEMMA AnchoredNext ==
  ASSUME StoreInv, Anchored, [Next]_vars
  PROVE  Anchored'
<1> USE DEF StoreInv
<1>1. CASE AppendAhead
  <2>1. PICK k \in job.ahead :
          \/ AppendFailed(AheadRecord(k)) /\ Fail("failed")
          \/ /\ AppendConfirmed(AheadRecord(k))
             /\ job'.kind = job.kind /\ job'.rev = job.rev
             /\ pc' \in {"ahead", "preserve", "unmirror"}
    BY <1>1, AheadSteps
  <2>2. pc = "ahead" /\ UNCHANGED <<anchor, top, overtaken, LateCheckpoints, floor, serving>>
    BY <1>1, <2>1, AheadSteps, AheadIsNoCheckpoint
  <2>3. CASE Fail("failed")
    BY <2>2, <2>3, FailAnchored
  <2>4. CASE /\ AppendConfirmed(AheadRecord(k))
             /\ job'.kind = job.kind /\ job'.rev = job.rev
             /\ pc' \in {"ahead", "preserve", "unmirror"}
    BY <2>2, <2>4 DEF Anchored, HasStore, Writing
  <2>5. QED
    BY <2>1, <2>3, <2>4
<1>2. CASE LandLate
  <2>1. PICK r \in late :
          /\ Land(r) /\ late' = late \ {r}
          /\ overtaken' = IF r.kind = "checkpoint" THEN r.rev < top ELSE overtaken
    BY <1>2 DEF LandLate
  <2>2. UNCHANGED <<pc, serving, floor, job>>
    BY <1>2 DEF LandLate
  <2>3. CASE r.kind # "checkpoint"
    <3>1. UNCHANGED <<anchor, top, overtaken, LateCheckpoints>>
      BY <2>1, <2>3 DEF Land, LateCheckpoints
    <3>2. QED
      BY <2>1, <2>2, <3>1 DEF Anchored, HasStore
  <2>4. CASE r.kind = "checkpoint"
    <3>1. r \in LateCheckpoints /\ r.rev <= floor
      BY <2>4 DEF LateCheckpoints, Anchored
    <3>2. LateCheckpoints' \subseteq LateCheckpoints
      BY <2>1 DEF LateCheckpoints
    <3>3. ~overtaken' => anchor'.rev = r.rev /\ top' = r.rev
      BY <2>1, <2>4, Numbers DEF Land, HigherOf
    <3>4. pc \in Writing => job.rev > floor
      BY DEF Course
    <3>5. QED
      BY <2>1, <2>2, <3>1, <3>2, <3>3, <3>4, Numbers DEF Anchored, HasStore
  <2>5. QED
    BY <2>3, <2>4
<1>3. CASE CommitReload \/ CommitAccept \/ CommitLive
  <2>1. PICK to, kinds : BeginCommit(to, kinds) /\ pc = "up"
    BY <1>3, CommitSteps
  <2>2. /\ job'.rev = floor + 1 /\ pc' = "ahead" /\ HasStore
        /\ UNCHANGED <<anchor, top, overtaken, late, LateCheckpoints, floor, serving>>
    BY <2>1, JobParts DEF BeginCommit, LateCheckpoints, Course, HasStore
  <2>3. QED
    BY <2>1, <2>2, Numbers DEF Anchored, Writing
<1>4. CASE Exit \/ Crash \/ PowerLoss
  <2>1. pc' = "down" /\ late' = {} /\ ~serving' /\ UNCHANGED <<anchor, top, overtaken>>
    BY <1>4 DEF Exit, Crash, PowerLoss, ForgetProcess
  <2>2. LateCheckpoints' = {}
    BY <2>1 DEF LateCheckpoints
  <2>3. QED
    BY <2>1, <2>2 DEF Anchored, HasStore, Writing
<1>5. CASE PlaceMarker \/ TouchStore \/ UNCHANGED vars
  BY <1>5 DEF PlaceMarker, TouchStore, vars, Anchored, HasStore, LateCheckpoints
<1>6. CASE RotateTrail
  <2>1. /\ pc = "down" /\ anchor'.rev = 0 /\ top' = 0 /\ ~serving /\ ~overtaken'
        /\ UNCHANGED <<late, pc, serving>>
    BY <1>6 DEF RotateTrail, NoCheckpoint, Course, Writing
  <2>2. late = {} /\ LateCheckpoints' = {}
    BY <2>1 DEF Anchored, LateCheckpoints
  <2>3. QED
    BY <2>1, <2>2 DEF Anchored, HasStore, Writing
<1>7. QED
  BY <1>1, <1>2, <1>3, <1>4, <1>5, <1>6, AnchoredBoot, AnchoredCheckpoint, AnchoredWrite DEF Next

\* The daemon never serves from a store older than a checkpoint of the trail in use,
\* whichever earlier store is put back, at any time, unless a checkpoint that landed late
\* stands behind a newer one: assess compares with the newest checkpoint line, and Anchored
\* shows that nothing but such a line lets it differ from the highest.
THEOREM RollbackAlwaysDetected == Spec => []RollbackDetected
<1>1. Init => Anchored
  <2> SUFFICES ASSUME Init PROVE Anchored
    OBVIOUS
  <2>1. anchor.rev = top
    BY DEF Init, InitFresh, InitLegacy, NoCheckpoint
  <2>2. QED
    BY <2>1 DEF Init, Anchored, LateCheckpoints, HasStore, Writing
<1>2. StoreInv /\ Anchored /\ [Next]_vars => Anchored'
  BY AnchoredNext
<1>3. StoreInv /\ Anchored => RollbackDetected
  BY DEF StoreInv, Course, Anchored, HasStore, RollbackDetected
<1>4. QED
  BY <1>1, <1>2, <1>3, StoreInvAlways, PTL DEF Spec

-----------------------------------------------------------------------------
(* Nothing happened to the store that no code step did *)

\* The file on disk is the newest store published, and a change goes above it.
NewestOnDisk ==
  /\ \/ disk.store = NoFile /\ backups = {}
     \/ disk.store \in backups
  /\ \A f \in backups : f.tag = "sealed" /\ f.rev >= 1 /\ f.rev <= disk.store.rev
  /\ \A a, b \in backups : a.rev = b.rev => a.digest = b.digest
  /\ pc \in Writing => job.rev > disk.store.rev

\* Every checkpoint, also one that may still land, is of a store that was published.
Known(cp) == \E f \in backups : f.rev = cp.rev /\ f.digest = cp.digest

CheckpointsKnown ==
  /\ anchor = NoCheckpoint \/ Known(anchor)
  /\ \A r \in LateCheckpoints : Known(r)

Mirrors(d) == d.mirror # 0 => d.mirror = d.store.rev

Clean == excused = {} => NewestOnDisk /\ CheckpointsKnown

LEMMA ExcusedGrows ==
  ASSUME [Next]_vars
  PROVE  excused \subseteq excused'
BY DEF Next, vars, Open, PeekSync, BootRefuse, BootLoad, BootSeed, CheckpointLoaded,
  AppendAhead, LandLate, Preserve, RemoveMirror, Publish, RemoveMarker, WriteCheckpoint,
  PublishMirror, CommitReload, CommitAccept, CommitLive, BeginCommit, Exit, Crash, PowerLoss,
  PlaceMarker, TouchStore, RotateTrail

\* In a step no one is to be excused for, the store stays or the publish replaces it.
LEMMA StoreStays ==
  ASSUME TypeOK, [Next]_vars, excused' = {}
  PROVE  /\ excused = {}
         /\ \/ disk'.store = disk.store /\ backups' = backups
            \/ /\ Publish /\ pc = "publish" /\ pc' \notin Writing
               /\ disk'.store = NextFile /\ backups' = backups \union {NextFile}
<1>1. excused = {}
  BY ExcusedGrows
<1>2. CASE Publish
  <2>1. disk' = [disk EXCEPT !.store = NextFile] => disk'.store = NextFile
    BY DEF TypeOK, Dir
  <2>2. QED
    BY <1>1, <1>2, <2>1 DEF Publish, Writing
<1>3. CASE PowerLoss
  BY <1>1, <1>3 DEF PowerLoss
<1>4. CASE TouchStore
  BY <1>4 DEF TouchStore
<1>5. CASE RemoveMirror \/ RemoveMarker \/ PublishMirror \/ PlaceMarker
  <2>1. disk'.store = disk.store
    BY <1>5 DEF RemoveMirror, RemoveMarker, PublishMirror, PlaceMarker, TypeOK, Dir
  <2>2. QED
    BY <1>1, <1>5, <2>1 DEF RemoveMirror, RemoveMarker, PublishMirror, PlaceMarker
<1>6. CASE UNCHANGED <<disk, backups>>
  BY <1>1, <1>6
<1>7. QED
  BY <1>2, <1>3, <1>4, <1>5, <1>6 DEF Next, vars, Open, PeekSync, BootRefuse, BootLoad, BootSeed,
    CheckpointLoaded, AppendAhead, LandLate, Preserve, WriteCheckpoint, CommitReload, CommitAccept,
    CommitLive, BeginCommit, Exit, Crash, RotateTrail

\* A change without a store below it is a seed, whose revision was chosen at the boot.
LEMMA SeedInTheWorks ==
  ASSUME StoreInv, [Next]_vars, pc' \in Writing, ~HasStore'
  PROVE  \/ BootSeed /\ job' = SeedJob(Assess = "reseed") /\ UNCHANGED disk
         \/ pc \in Writing /\ job'.rev = job.rev
<1> USE DEF StoreInv
<1>1. CASE Open \/ PeekSync \/ BootRefuse \/ BootLoad
  BY <1>1 DEF Open, PeekSync, BootRefuse, BootLoad, LoadAccepted, Fail, Writing
<1>2. CASE BootSeed
  BY <1>2 DEF BootSeed, Fail, Writing
<1>3. CASE CheckpointLoaded
  BY <1>3 DEF CheckpointLoaded, Course, Fail, HasStore, Writing
<1>4. CASE AppendAhead
  BY <1>4, AheadSteps DEF Fail, Writing
<1>5. CASE Preserve \/ RemoveMirror \/ Publish \/ RemoveMarker \/ PublishMirror
  BY <1>5 DEF Preserve, RemoveMirror, Publish, RemoveMarker, PublishMirror, Fail, Writing
<1>6. CASE WriteCheckpoint
  BY <1>6 DEF WriteCheckpoint, Course, Fail, HasStore, Writing
<1>7. CASE CommitReload \/ CommitAccept \/ CommitLive
  <2>1. PICK to, kinds : BeginCommit(to, kinds)
    BY <1>7, CommitSteps
  <2>2. job'.kind = "transition"
    BY <2>1, JobParts DEF BeginCommit
  <2>3. QED
    BY <2>2 DEF HasStore
<1>8. CASE Exit \/ Crash \/ PowerLoss
  BY <1>8 DEF Exit, Crash, PowerLoss, Writing
<1>9. CASE LandLate \/ PlaceMarker \/ TouchStore \/ RotateTrail \/ UNCHANGED vars
  BY <1>9 DEF LandLate, PlaceMarker, TouchStore, RotateTrail, vars
<1>10. QED
  BY <1>1, <1>2, <1>3, <1>4, <1>5, <1>6, <1>7, <1>8, <1>9 DEF Next

LEMMA NewestStays ==
  ASSUME StoreInv, StoreInv', NewestOnDisk, [Next]_vars, excused' = {}
  PROVE  NewestOnDisk'
<1> USE DEF StoreInv
<1>1. CASE disk'.store = disk.store /\ backups' = backups
  <2>1. ASSUME pc' \in Writing
        PROVE  job'.rev > disk.store.rev
    <3>1. CASE HasStore'
      BY <1>1, <2>1, <3>1 DEF Agrees, Untouched, Course
    <3>2. CASE pc \in Writing /\ job'.rev = job.rev
      BY <3>2 DEF NewestOnDisk
    <3>3. CASE BootSeed /\ job' = SeedJob(Assess = "reseed")
      <4>1. PICK b \in BOOLEAN : b = (Assess = "reseed")
        BY Zenon
      <4>2. job'.rev = IF b THEN ReseedFloor + 1 ELSE 1
        BY <3>3, <4>1, JobParts
      <4>3. Readable(disk.store) \/ disk.store.rev = 0
        BY DEF NewestOnDisk, Readable, NoFile
      <4>4. b \/ ~Readable(disk.store)
        BY <3>3, <4>1 DEF BootSeed, Assess
      <4>5. QED
        BY <4>2, <4>3, <4>4, Numbers DEF ReseedFloor, HigherOf, KnownRevision
    <3>4. QED
      BY <2>1, <3>1, <3>2, <3>3, SeedInTheWorks
  <2>2. QED
    BY <1>1, <2>1 DEF NewestOnDisk
<1>2. CASE /\ pc = "publish" /\ pc' \notin Writing
           /\ disk'.store = NextFile /\ backups' = backups \union {NextFile}
  <2>1. NextFile.tag = "sealed" /\ NextFile.rev = job.rev
    BY DEF NextFile, Sealed
  <2>2. job.rev > disk.store.rev
    BY <1>2 DEF NewestOnDisk, Writing
  <2>3. \A f \in backups : f.tag = "sealed" /\ f.rev >= 1 /\ f.rev < job.rev
    BY <2>2, Numbers DEF NewestOnDisk
  <2>4. \A f \in backups' : f.tag = "sealed" /\ f.rev >= 1 /\ f.rev <= job.rev
    BY <1>2, <2>1, <2>2, <2>3, Numbers
  <2>5. \A a, b \in backups' : a.rev = b.rev => a.digest = b.digest
    BY <1>2, <2>1, <2>3, Numbers DEF NewestOnDisk
  <2>6. QED
    BY <1>2, <2>1, <2>4, <2>5 DEF NewestOnDisk
<1>3. QED
  BY <1>1, <1>2, StoreStays

LEMMA KnownStays ==
  ASSUME StoreInv, NewestOnDisk, CheckpointsKnown, [Next]_vars, excused' = {}
  PROVE  CheckpointsKnown'
<1> USE DEF StoreInv
<1>e. excused = {} /\ backups \subseteq backups'
  BY StoreStays
<1>k. ASSUME NEW cp, Known(cp)
      PROVE  \E f \in backups' : f.rev = cp.rev /\ f.digest = cp.digest
  BY <1>e, <1>k DEF Known
<1>c. ASSUME NEW r, r = CheckpointRecord(floor, disk.store.digest), HasStore
      PROVE  Known(r)
  <2>1. Readable(disk.store) /\ floor = disk.store.rev
    BY <1>c, <1>e DEF Agrees, Untouched
  <2>2. disk.store \in backups
    BY <2>1 DEF NewestOnDisk, Readable, NoFile
  <2>3. QED
    BY <1>c, <2>1, <2>2 DEF Known, CheckpointRecord
<1>0. CASE UNCHANGED anchor /\ LateCheckpoints' \subseteq LateCheckpoints
  BY <1>0, <1>k DEF CheckpointsKnown, Known
<1>1. CASE CheckpointLoaded \/ WriteCheckpoint
  <2> DEFINE r == CheckpointRecord(floor, disk.store.digest)
  <2>1. HasStore
    BY <1>1 DEF CheckpointLoaded, WriteCheckpoint, HasStore
  <2>2. Known(r)
    BY <1>c, <2>1
  <2>3. AppendConfirmed(r) \/ AppendFailed(r)
    BY <1>1 DEF CheckpointLoaded, WriteCheckpoint, Course
  <2>4. /\ anchor' = anchor \/ (anchor'.rev = r.rev /\ anchor'.digest = r.digest)
        /\ late' \subseteq late \union {r}
    <3>1. CASE AppendConfirmed(r)
      BY <3>1 DEF AppendConfirmed, Land
    <3>2. CASE AppendFailed(r)
      BY <3>2 DEF AppendFailed
    <3>3. QED
      BY <2>3, <3>1, <3>2
  <2>5. QED
    BY <1>k, <2>2, <2>4 DEF CheckpointsKnown, Known, LateCheckpoints
<1>2. CASE AppendAhead
  BY <1>0, <1>2, AheadSteps, AheadIsNoCheckpoint
<1>3. CASE LandLate
  <2>1. PICK r \in late : Land(r) /\ late' = late \ {r}
    BY <1>3 DEF LandLate
  <2>2. LateCheckpoints' \subseteq LateCheckpoints
    BY <2>1 DEF LateCheckpoints
  <2>3. CASE r.kind = "checkpoint"
    <3>1. Known(r) /\ anchor'.rev = r.rev /\ anchor'.digest = r.digest
      BY <2>1, <2>3 DEF Land, CheckpointsKnown, LateCheckpoints
    <3>2. QED
      BY <1>k, <2>2, <3>1 DEF CheckpointsKnown, Known
  <2>4. CASE r.kind # "checkpoint"
    BY <1>0, <2>1, <2>2, <2>4 DEF Land
  <2>5. QED
    BY <2>3, <2>4
<1>4. CASE RotateTrail
  BY <1>4, <1>k DEF RotateTrail, CheckpointsKnown, LateCheckpoints, Known
<1>5. CASE Exit \/ Crash \/ PowerLoss
  BY <1>0, <1>5 DEF Exit, Crash, PowerLoss, ForgetProcess, LateCheckpoints
<1>6. CASE UNCHANGED <<anchor, late>>
  BY <1>0, <1>6 DEF LateCheckpoints
<1>7. QED
  BY <1>1, <1>2, <1>3, <1>4, <1>5, <1>6 DEF Next, vars, Open, PeekSync, BootRefuse, BootLoad,
    BootSeed, Preserve, RemoveMirror, Publish, RemoveMarker, PublishMirror, CommitReload,
    CommitAccept, CommitLive, BeginCommit, PlaceMarker, TouchStore

LEMMA CleanAlways == Spec => []Clean
<1>1. Init => Clean
  <2> SUFFICES ASSUME Init PROVE NewestOnDisk /\ CheckpointsKnown
    BY DEF Clean
  <2>1. LateCheckpoints = {} /\ pc \notin Writing
    BY DEF Init, LateCheckpoints, Writing
  <2>2. CASE InitFresh
    BY <2>1, <2>2 DEF InitFresh, NewestOnDisk, CheckpointsKnown
  <2>3. CASE \E v \in Vocabs : InitLegacy(v)
    BY <2>1, <2>3 DEF InitLegacy, Legacy, Sealed, NewestOnDisk, CheckpointsKnown, Known
  <2>4. QED
    BY <2>2, <2>3 DEF Init
<1>2. StoreInv /\ StoreInv' /\ Clean /\ [Next]_vars => Clean'
  BY ExcusedGrows, NewestStays, KnownStays DEF Clean
<1>3. QED
  BY <1>1, <1>2, StoreInvAlways, PTL DEF Spec

\* A revision that reached the disk is never given to a second store, whatever failed
\* in between, as long as nothing but the code touched the store: persist refuses a
\* revision that is not above its floor and raises the floor once the rename happened.
THEOREM RevisionNeverReused == Spec => []NoRevisionReuse
<1>1. Clean => NoRevisionReuse
  BY DEF Clean, NewestOnDisk, NoRevisionReuse
<1>2. QED
  BY <1>1, CleanAlways, PTL

MirrorsTrue == excused = {} => Mirrors(disk) /\ Mirrors(safe)

LEMMA MirrorsNext ==
  ASSUME StoreInv, MirrorsTrue, [Next]_vars
  PROVE  MirrorsTrue'
<1> USE DEF StoreInv
<1> SUFFICES ASSUME excused' = {} PROVE (Mirrors(disk) /\ Mirrors(safe))'
  BY DEF MirrorsTrue
<1>m. excused = {} /\ Mirrors(disk) /\ Mirrors(safe)
  BY StoreStays DEF MirrorsTrue
<1>0. CASE \/ UNCHANGED <<disk, safe>>
           \/ UNCHANGED disk /\ safe' = disk
  BY <1>m, <1>0 DEF Mirrors
<1>1. CASE Preserve
  BY <1>0, <1>1 DEF Preserve
<1>2. CASE RemoveMirror \/ RemoveMarker
  <2>1. /\ disk'.store = disk.store /\ disk'.mirror \in {0, disk.mirror} /\ safe' = safe
    BY <1>2 DEF RemoveMirror, RemoveMarker, TypeOK, Dir
  <2>2. QED
    BY <1>m, <2>1 DEF Mirrors
<1>3. CASE Publish
  <2>1. CASE disk' = [disk EXCEPT !.store = NextFile] /\ safe' \in {safe, disk'}
    <3>1. disk.mirror = 0
      BY <1>3 DEF Publish, Course
    <3>2. disk'.mirror = 0
      BY <2>1, <3>1 DEF TypeOK, Dir
    <3>3. QED
      BY <1>m, <2>1, <3>2 DEF Mirrors
  <2>2. QED
    BY <1>0, <1>3, <2>1 DEF Publish
<1>4. CASE PublishMirror
  <2>1. floor = disk.store.rev
    BY <1>4, <1>m DEF PublishMirror, Agrees, HasStore, Untouched
  <2>2. /\ disk'.store = disk.store /\ disk'.mirror \in {0, floor} /\ safe' \in {safe, disk'}
    BY <1>4 DEF PublishMirror, TypeOK, Dir
  <2>3. QED
    BY <1>m, <2>1, <2>2 DEF Mirrors
<1>5. CASE PowerLoss
  <2>1. safe.store = disk.store
    BY <1>5 DEF PowerLoss
  <2>2. /\ disk'.store = disk.store /\ disk'.mirror \in {disk.mirror, safe.mirror}
        /\ safe' = disk'
    BY <1>5, <2>1 DEF PowerLoss
  <2>3. QED
    BY <1>m, <2>1, <2>2 DEF Mirrors
<1>6. CASE PlaceMarker
  <2>1. /\ disk'.store = disk.store /\ disk'.mirror = disk.mirror
        /\ safe'.store = safe.store /\ safe'.mirror = safe.mirror
    BY <1>6 DEF PlaceMarker, TypeOK, Dir
  <2>2. QED
    BY <1>m, <2>1 DEF Mirrors
<1>7. CASE TouchStore
  BY <1>7 DEF TouchStore
<1>8. QED
  BY <1>0, <1>1, <1>2, <1>3, <1>4, <1>5, <1>6, <1>7 DEF Next, vars, Open, PeekSync, BootRefuse,
    BootLoad, BootSeed, CheckpointLoaded, AppendAhead, LandLate, WriteCheckpoint, CommitReload,
    CommitAccept, CommitLive, BeginCommit, Exit, Crash, RotateTrail

\* A mirror on disk is the mirror of the store on disk, also after a crash or a power
\* loss between any two steps: persist removes the mirror before it publishes, and the
\* mirror is rendered only when the store is in place.
THEOREM MirrorAlwaysTrue == Spec => []MirrorTrue
<1>1. Init => MirrorsTrue
  BY DEF Init, InitFresh, InitLegacy, MirrorsTrue, Mirrors
<1>2. StoreInv /\ MirrorsTrue /\ [Next]_vars => MirrorsTrue'
  BY MirrorsNext
<1>3. MirrorsTrue => MirrorTrue
  BY DEF MirrorsTrue, Mirrors, MirrorTrue
<1>4. QED
  BY <1>1, <1>2, <1>3, StoreInvAlways, PTL DEF Spec

\* What assess and decode_store say of a store that is the newest one published and
\* that every checkpoint knows.
LEMMA AssessClean ==
  ASSUME TypeOK, NewestOnDisk, CheckpointsKnown
  PROVE  /\ disk.store.tag # "damaged"
         /\ Assess \notin StoreRefusals
<1>1. disk.store.tag # "damaged"
  BY DEF NewestOnDisk, NoFile
<1>2. Assess # "unreadable"
  BY AssessType DEF AssessKinds
<1>3. ASSUME Assess = "missing" PROVE FALSE
  <2>1. ~Readable(disk.store) /\ anchor # NoCheckpoint
    BY <1>3 DEF Assess
  <2>2. backups # {}
    BY <2>1 DEF CheckpointsKnown, Known
  <2>3. QED
    BY <2>1, <2>2 DEF NewestOnDisk, Readable
<1>4. ASSUME Assess = "rolledback" PROVE FALSE
  <2>1. disk.store.rev < anchor.rev
    BY <1>4 DEF Assess
  <2>2. CASE anchor = NoCheckpoint
    BY <2>1, <2>2, Numbers DEF NoCheckpoint
  <2>3. CASE Known(anchor)
    BY <2>1, <2>3, Numbers DEF Known, NewestOnDisk
  <2>4. QED
    BY <2>2, <2>3 DEF CheckpointsKnown
<1>5. ASSUME Assess = "substituted" PROVE FALSE
  <2>1. /\ Readable(disk.store) /\ disk.store.rev = anchor.rev
        /\ disk.store.digest # anchor.digest
    BY <1>5 DEF Assess
  <2>2. disk.store \in backups
    BY <2>1 DEF NewestOnDisk, Readable, NoFile
  <2>3. CASE anchor = NoCheckpoint
    BY <2>1, <2>2, <2>3, Numbers DEF NoCheckpoint, NewestOnDisk
  <2>4. CASE Known(anchor)
    BY <2>1, <2>2, <2>4 DEF Known, NewestOnDisk
  <2>5. QED
    BY <2>3, <2>4 DEF CheckpointsKnown
<1>6. QED
  BY <1>1, <1>2, <1>3, <1>4, <1>5 DEF StoreRefusals

LEMMA RefusalNext ==
  ASSUME StoreInv, Clean, NoFalseRefusal, [Next]_vars
  PROVE  NoFalseRefusal'
<1> USE DEF StoreInv
<1> SUFFICES ASSUME excused' = {} PROVE refusal' \notin StoreRefusals
  BY DEF NoFalseRefusal
<1>e. /\ refusal \notin StoreRefusals /\ disk.store.tag # "damaged" /\ Assess \notin StoreRefusals
  BY ExcusedGrows, AssessClean DEF NoFalseRefusal, Clean
<1>0. ASSUME NEW why, Fail(why), why \notin StoreRefusals
      PROVE  refusal' \notin StoreRefusals
  BY <1>0, <1>e DEF Fail
<1>f. "failed" \notin StoreRefusals /\ "none" \notin StoreRefusals
  BY DEF StoreRefusals
<1>1. CASE Open \/ PeekSync
  BY <1>e, <1>f, <1>1 DEF Open, PeekSync
<1>2. CASE BootRefuse
  <2>1. Fail(Assess)
    BY <1>e, <1>2 DEF BootRefuse
  <2>2. QED
    BY <1>0, <1>e, <2>1
<1>3. CASE BootLoad
  <2>1. PICK dropped \in BOOLEAN, stale \in BOOLEAN :
          \/ LoadAccepted(disk.store, stale)
          \/ Fail(LoadRefusal(disk.store, dropped, stale))
    BY <1>3 DEF BootLoad
  <2>2. LoadRefusal(disk.store, dropped, stale) \notin StoreRefusals
    BY DEF LoadRefusal, StoreRefusals
  <2>3. QED
    BY <1>0, <1>e, <2>1, <2>2 DEF LoadAccepted
<1>4. CASE BootSeed
  <2>1. Fail("baselineUnseen") \/ Fail("unrecorded") \/ UNCHANGED refusal
    BY <1>4 DEF BootSeed
  <2>2. QED
    BY <1>0, <1>e, <2>1 DEF StoreRefusals
<1>5. CASE Fail("failed")
  BY <1>0, <1>5, <1>f
<1>6. CASE UNCHANGED refusal
  BY <1>6, <1>e
<1>7. QED
  BY <1>1, <1>2, <1>3, <1>4, <1>5, <1>6 DEF Next, vars, CheckpointLoaded, AppendAhead, LandLate,
    Preserve, RemoveMirror, Publish, RemoveMarker, WriteCheckpoint, PublishMirror, CommitReload,
    CommitAccept, CommitLive, BeginCommit, Exit, Crash, PowerLoss, PlaceMarker, TouchStore,
    RotateTrail

\* Whatever step the daemon crashes at and whichever append stays unconfirmed, the next
\* start does not take the daemon's own store for a rolled back, substituted, missing or
\* damaged one: no checkpoint is ever of a store that was not published first, so assess
\* finds the store at or above its anchor.
THEOREM NeverFalselyRefused == Spec => []NoFalseRefusal
<1>1. Init => NoFalseRefusal
  BY DEF Init, NoFalseRefusal, StoreRefusals
<1>2. StoreInv /\ Clean /\ NoFalseRefusal /\ [Next]_vars => NoFalseRefusal'
  BY RefusalNext
<1>3. QED
  BY <1>1, <1>2, StoreInvAlways, CleanAlways, PTL DEF Spec
=============================================================================
