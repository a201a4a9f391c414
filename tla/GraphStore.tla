----------------------------- MODULE GraphStore -----------------------------
(***************************************************************************)
(* The kernel graph store of maknaed (crates/maknae-state) and the steps of *)
(* run.rs that drive it: one sealed file in the state directory, replaced   *)
(* by temp file + fsync + rename + directory fsync, with an audit trail     *)
(* that records every change ahead of it and a checkpoint after it.  At a   *)
(* start the newest checkpoint is the rollback anchor the file is judged    *)
(* by (anchor.rs `assess`).                                                 *)
(*                                                                          *)
(* A graph is abstracted to what the store rules tell apart: the accepted   *)
(* baseline, the sync base, whether the watched subject is contained, and   *)
(* the vocabulary it was written under.  A ciphertext digest is the number  *)
(* of the seal that made it: every write draws a fresh data key, so no two  *)
(* writes share a digest.                                                   *)
(***************************************************************************)
EXTENDS Naturals, FiniteSets

CONSTANTS
  Baselines,    \* accepted baseline documents
  SyncBases,    \* bindings.yaml sections the live section was last merged with
  Vocabs,       \* vocabularies of the binaries an operator may install
  None,         \* no baseline / no sync base / no vocabulary
  MaxRevision,  \* u64::MAX: the revision that cannot be exceeded
  MaxStarts,    \* bound: how often the daemon is started
  MaxEvents     \* bound: crashes, power losses, I/O and append failures, operator's acts

ASSUME GraphStoreAssumption ==
  /\ None \notin Baselines \union SyncBases \union Vocabs
  /\ MaxRevision \in Nat /\ MaxRevision >= 1
  /\ MaxStarts \in Nat /\ MaxEvents \in Nat

VARIABLES
  disk,      \* the state directory as a running process sees it
  safe,      \* the state directory a power loss falls back to
  backups,   \* every store file that was ever published
  rejected,  \* digests of the stores preserved as kernel.graph.rejected.*
  trail,     \* records of the audit trails, archived ones included
  anchor,    \* newest checkpoint line of the trail in use; revision 0: none
  top,       \* ghost: the highest revision checkpointed in the trail in use
  overtaken, \* ghost: an older checkpoint landed late, behind the highest one
  late,      \* records of unconfirmed appends whose worker may still write them
  pc,        \* where the process is
  serving,   \* whether this process finished booting
  floor,     \* StateDir.store_revision
  mem,       \* Reloader.persisted: the content of the stored graph
  input,     \* what the boot read before the store is booted, and decided from it
  job,       \* the change being written
  queued,    \* the boot transition that follows a migration
  seals,     \* seals made so far
  refusal,   \* why the last start refused the store
  excused,   \* ghost: what happened to the store that no code step did
  used       \* [starts, events] used up of the bounds

vars == <<disk, safe, backups, rejected, trail, anchor, top, overtaken, late, pc, serving,
          floor, mem, input, job, queued, seals, refusal, excused, used>>

-----------------------------------------------------------------------------
(* Values *)

Revisions == 0 .. MaxRevision

Content == [base : Baselines \union {None}, sync : SyncBases \union {None},
            held : BOOLEAN, vocab : Vocabs \union {None}]

NoContent == [base |-> None, sync |-> None, held |-> FALSE, vocab |-> None]

\* kernel.graph as read_store and decode_store find it.
File == [tag : {"absent", "damaged", "sealed"}, rev : Revisions, digest : Nat, g : Content]

NoFile == [tag |-> "absent", rev |-> 0, digest |-> 0, g |-> NoContent]

Sealed(rev, digest, g) == [tag |-> "sealed", rev |-> rev, digest |-> digest, g |-> g]

\* The state directory: the store, the revision of bindings.mirror.yaml (0: no
\* mirror) and root's reseed marker.
Dir == [store : File, mirror : Revisions, marker : BOOLEAN]

Intents == {"seeding", "reseeding", "migrating", "transition"}

AheadKinds == Intents \union {"released", "baseline", "sync"}

\* `from` is the baseline the events of a "baseline" record were computed against.
Record == [kind : AheadKinds \union {"checkpoint"}, rev : Revisions, digest : Nat,
           from : Baselines \union {None}]

\* The order in which one change writes its records ahead: a seed's intent, the
\* containments it ends, baseline events, sync events, then the intent.
Rank == [k \in AheadKinds |->
           CASE k \in {"seeding", "reseeding"} -> 0
             [] k = "released" -> 1
             [] k = "baseline" -> 2
             [] k = "sync" -> 3
             [] OTHER -> 4]

Job == [kind : Intents \union {"none"}, ahead : SUBSET AheadKinds, rev : Revisions,
        g : Content, from : Baselines \union {None}, prior : BOOLEAN]

NoJob == [kind |-> "none", ahead |-> {}, rev |-> 0, g |-> NoContent, from |-> None,
          prior |-> FALSE]

Input == [accepted : Baselines \union {None}, events : BOOLEAN,
          sync : SyncBases \union {None}, syncEvents : BOOLEAN, g : Content]

NoInput == [accepted |-> None, events |-> FALSE, sync |-> None, syncEvents |-> FALSE,
            g |-> NoContent]

Checkpoint == [rev : Revisions, digest : Nat]

NoCheckpoint == [rev |-> 0, digest |-> 0]

Refusals == {"none", "unreadable", "rolledback", "substituted", "missing", "exhausted",
             "bindings", "baselineUnseen", "syncUnseen", "unrecorded", "failed"}

PCs == {"down", "opened", "synced", "checkpointLoaded", "ahead", "preserve", "unmirror",
        "publish", "unmark", "checkpoint", "mirror", "up", "exiting"}

Excuses == {"touched", "undone"}

Used == [starts : Nat, events : Nat]

Event == /\ used.events < MaxEvents
         /\ used' = [used EXCEPT !.events = @ + 1]

-----------------------------------------------------------------------------
(* Initial states: a host where maknaed never ran, or one whose store was   *)
(* written before the sync base and the accepted baseline existed.          *)

Legacy(v) == Sealed(1, 1, [base |-> None, sync |-> None, held |-> TRUE, vocab |-> v])

InitFresh ==
  /\ disk = [store |-> NoFile, mirror |-> 0, marker |-> FALSE]
  /\ backups = {}
  /\ trail = {}
  /\ anchor = NoCheckpoint
  /\ top = 0
  /\ seals = 0

InitLegacy(v) ==
  /\ disk = [store |-> Legacy(v), mirror |-> 0, marker |-> FALSE]
  /\ backups = {Legacy(v)}
  /\ trail = {[kind |-> "seeding", rev |-> 1, digest |-> 0, from |-> None],
              [kind |-> "checkpoint", rev |-> 1, digest |-> 1, from |-> None]}
  /\ anchor = [rev |-> 1, digest |-> 1]
  /\ top = 1
  /\ seals = 1

Init ==
  /\ InitFresh \/ \E v \in Vocabs : InitLegacy(v)
  /\ safe = disk
  /\ rejected = {}
  /\ overtaken = FALSE
  /\ late = {}
  /\ pc = "down"
  /\ serving = FALSE
  /\ floor = 0
  /\ mem = NoContent
  /\ input = NoInput
  /\ job = NoJob
  /\ queued = NoJob
  /\ refusal = "none"
  /\ excused = {}
  /\ used = [starts |-> 0, events |-> 0]

-----------------------------------------------------------------------------
(* The process leaves memory behind, and the audit workers with it. *)

ForgetProcess ==
  /\ late' = {}
  /\ serving' = FALSE
  /\ floor' = 0
  /\ mem' = NoContent
  /\ input' = NoInput
  /\ job' = NoJob
  /\ queued' = NoJob

\* A boot step failed: run_inner returns the error and the process exits.
\* A commit failed: the caller is refused and the daemon serves on.
Fail(why) ==
  IF serving
    THEN /\ pc' = "up"
         /\ job' = NoJob
         /\ UNCHANGED refusal
    ELSE /\ pc' = "exiting"
         /\ job' = NoJob
         /\ refusal' = why

-----------------------------------------------------------------------------
(* Starting: what run_inner and boot_merged_graph read before they boot the *)
(* store.  The marker and the file are read again by `boot`, so the         *)
(* operator may act in between.                                             *)

Readable(f) == f.tag = "sealed"

StoredBaseline(f) == IF Readable(f) THEN f.g.base ELSE None

\* run_inner: reseed_authorized and peek_baseline, so that a marker hides the store.
PeekedBaseline == IF disk.marker THEN None ELSE StoredBaseline(disk.store)

\* at_boot's choice of the baseline to run: without an accepted baseline the
\* file's is seeded; with one, the followed sections may change it.  A change is
\* an event.
BootInput(run, v) ==
  [NoInput EXCEPT !.accepted = PeekedBaseline, !.events = (run # PeekedBaseline),
                  !.g = [NoContent EXCEPT !.base = run, !.vocab = v]]

Open ==
  /\ pc = "down"
  /\ used.starts < MaxStarts
  /\ used' = [used EXCEPT !.starts = @ + 1]
  /\ \E run \in Baselines, v \in Vocabs : input' = BootInput(run, v)
  /\ pc' = "opened"
  /\ refusal' = "none"
  /\ UNCHANGED <<disk, safe, backups, rejected, trail, anchor, top, overtaken, late, serving,
                 floor, mem, job, queued, seals, excused>>

PeekedSync == IF disk.marker \/ ~Readable(disk.store) THEN None ELSE disk.store.g.sync

\* boot_sync_base, then merge_source: the sync base the file was merged with and
\* the sync base and identity layer that merge asks for.  A first merge is
\* always an event; a later one is only when it meets a conflict or adopts.
PeekSync ==
  /\ pc = "opened"
  /\ IF ~disk.marker /\ disk.store.tag = "damaged"
       THEN /\ Fail("unreadable")
            /\ UNCHANGED input
       ELSE /\ \E to \in SyncBases, held \in BOOLEAN, ev \in BOOLEAN :
                 /\ PeekedSync = None => ev
                 /\ input' = [input EXCEPT !.sync = PeekedSync, !.syncEvents = ev,
                                           !.g.sync = to, !.g.held = held]
            /\ pc' = "synced"
            /\ UNCHANGED <<job, refusal>>
  /\ UNCHANGED <<disk, safe, backups, rejected, trail, anchor, top, overtaken, late, serving,
                 floor, mem, queued, seals, excused, used>>

-----------------------------------------------------------------------------
(* assess: what a start does with the file, the anchor and the marker. *)

AssessKinds == {"seed", "reseed", "load", "rolledback", "substituted", "missing", "exhausted"}

HigherOf(a, b) == IF a > b THEN a ELSE b

\* A damaged file under a marker counts as no store: only the anchor's revision is known.
KnownRevision == IF Readable(disk.store) THEN disk.store.rev ELSE 0

ReseedFloor == HigherOf(KnownRevision, anchor.rev)

\* Faulty assess: an older store is loaded as if it had merely not been checkpointed.
AssessNoRollback ==
  CASE disk.marker -> IF ReseedFloor = MaxRevision THEN "exhausted" ELSE "reseed"
    [] ~disk.marker /\ ~Readable(disk.store) /\ anchor = NoCheckpoint -> "seed"
    [] ~disk.marker /\ ~Readable(disk.store) /\ anchor # NoCheckpoint -> "missing"
    [] OTHER -> "load"

Assess ==
  CASE disk.marker -> IF ReseedFloor = MaxRevision THEN "exhausted" ELSE "reseed"
    [] ~disk.marker /\ ~Readable(disk.store) /\ anchor = NoCheckpoint -> "seed"
    [] ~disk.marker /\ ~Readable(disk.store) /\ anchor # NoCheckpoint -> "missing"
    [] ~disk.marker /\ Readable(disk.store) /\ disk.store.rev < anchor.rev -> "rolledback"
    [] ~disk.marker /\ Readable(disk.store) /\ disk.store.rev = anchor.rev
         /\ disk.store.digest # anchor.digest -> "substituted"
    [] OTHER -> "load"

\* boot: the damaged file, or assess's refusal.
BootRefuse ==
  /\ pc = "synced"
  /\ LET why == IF disk.store.tag = "damaged" /\ ~disk.marker THEN "unreadable" ELSE Assess
     IN /\ why \notin {"seed", "reseed", "load"}
        /\ Fail(why)
  /\ UNCHANGED <<disk, safe, backups, rejected, trail, anchor, top, overtaken, late, serving,
                 floor, mem, input, queued, seals, excused, used>>

-----------------------------------------------------------------------------
(* load *)

Migrates(f) == f.g.vocab # input.g.vocab

\* The transition a load makes: the file's layer, the running baseline or the
\* merged sync base differs from the stored one, or the store is not in the form
\* this binary writes (is_canonical), `stale`.
Transitions(f, stale) == \/ stale
                         \/ input.g.held # f.g.held
                         \/ input.g.base # f.g.base
                         \/ input.g.sync # f.g.sync

Writes(f, stale) == (IF Migrates(f) THEN 1 ELSE 0) + (IF Transitions(f, stale) THEN 1 ELSE 0)

\* Faulty load: the baseline seen at the peek is not compared with the one read now.
LoadRefusalUnseen(f, dropped, stale) ==
  IF f.g.sync = None /\ dropped THEN "bindings"
  ELSE IF f.g.sync # input.sync THEN "syncUnseen"
  ELSE IF Migrates(f) /\ f.rev = MaxRevision THEN "exhausted"
  ELSE IF input.g.base # f.g.base /\ ~input.events THEN "unrecorded"
  ELSE IF f.rev + Writes(f, stale) > MaxRevision THEN "exhausted"
  ELSE "none"

\* load's refusals, in order.  A store without a sync base is refused when the
\* file would drop its explicit bindings: that is the file's doing, `dropped`.
LoadRefusal(f, dropped, stale) ==
  IF f.g.sync = None /\ dropped THEN "bindings"
  ELSE IF f.g.base # input.accepted THEN "baselineUnseen"
  ELSE IF f.g.sync # input.sync THEN "syncUnseen"
  ELSE IF Migrates(f) /\ f.rev = MaxRevision THEN "exhausted"
  ELSE IF input.g.base # f.g.base /\ ~input.events THEN "unrecorded"
  ELSE IF f.rev + Writes(f, stale) > MaxRevision THEN "exhausted"
  ELSE "none"

MigrateJob(f) ==
  [NoJob EXCEPT !.kind = "migrating", !.ahead = {"migrating"}, !.rev = f.rev + 1,
                !.g = [f.g EXCEPT !.vocab = input.g.vocab]]

TransitionJob(f, rev) ==
  [NoJob EXCEPT !.kind = "transition", !.rev = rev, !.g = input.g,
                !.from = input.accepted,
                !.ahead = {"transition"}
                  \union (IF f.g.held /\ ~input.g.held THEN {"released"} ELSE {})
                  \union (IF input.g.base # f.g.base THEN {"baseline"} ELSE {})
                  \union (IF input.syncEvents THEN {"sync"} ELSE {})]

\* load accepts the file: the revision floor and the persisted graph are its own,
\* and what this start changes is one or two further writes.
LoadAccepted(f, stale) ==
  LET after == IF Migrates(f) THEN f.rev + 2 ELSE f.rev + 1
  IN /\ floor' = f.rev
     /\ mem' = f.g
     /\ job' = CASE Migrates(f) -> MigrateJob(f)
                 [] ~Migrates(f) /\ Transitions(f, stale) -> TransitionJob(f, after)
                 [] OTHER -> NoJob
     /\ queued' = IF Migrates(f) /\ Transitions(f, stale) THEN TransitionJob(f, after) ELSE NoJob
     /\ pc' = "checkpointLoaded"
     /\ UNCHANGED refusal

BootLoad ==
  /\ pc = "synced"
  /\ Readable(disk.store)
  /\ Assess = "load"
  /\ \E dropped \in BOOLEAN, stale \in BOOLEAN :
       LET why == LoadRefusal(disk.store, dropped, stale)
       IN /\ Migrates(disk.store) => ~stale
          /\ \/ why = "none" /\ LoadAccepted(disk.store, stale)
             \/ why # "none" /\ Fail(why) /\ UNCHANGED <<floor, mem, queued>>
  /\ UNCHANGED <<disk, safe, backups, rejected, trail, anchor, top, overtaken, late, serving,
                 input, seals, excused, used>>

-----------------------------------------------------------------------------
(* seed: at revision 1 on a first boot, above every known revision when root's *)
(* marker authorizes it.                                                        *)

\* Faulty seed: only a store that decoded is preserved.
SeedJobReadablePrior(authorized) ==
  [NoJob EXCEPT !.kind = IF authorized THEN "reseeding" ELSE "seeding",
                !.ahead = {IF authorized THEN "reseeding" ELSE "seeding", "baseline"},
                !.rev = IF authorized THEN ReseedFloor + 1 ELSE 1,
                !.g = input.g,
                !.prior = authorized /\ Readable(disk.store)]

SeedJob(authorized) ==
  [NoJob EXCEPT !.kind = IF authorized THEN "reseeding" ELSE "seeding",
                !.ahead = {IF authorized THEN "reseeding" ELSE "seeding", "baseline"},
                !.rev = IF authorized THEN ReseedFloor + 1 ELSE 1,
                !.g = input.g,
                !.prior = authorized /\ disk.store.tag # "absent"]

BootSeed ==
  /\ pc = "synced"
  /\ disk.store.tag = "damaged" => disk.marker
  /\ Assess \in {"seed", "reseed"}
  /\ LET authorized == (Assess = "reseed")
     IN CASE ~authorized /\ input.accepted # None ->
               /\ Fail("baselineUnseen")
          [] (authorized \/ input.accepted = None) /\ ~input.events ->
               /\ Fail("unrecorded")
          [] OTHER ->
               /\ job' = SeedJob(authorized)
               /\ pc' = "ahead"
               /\ UNCHANGED refusal
  /\ UNCHANGED <<disk, safe, backups, rejected, trail, anchor, top, overtaken, late, serving,
                 floor, mem, input, queued, seals, excused, used>>

-----------------------------------------------------------------------------
(* Audit appends.  An append is confirmed, refused, or unconfirmed within   *)
(* its bound; the worker of an unconfirmed one may still write the record.  *)

\* A line is written.  The writer mutex is no queue, so an unconfirmed checkpoint may be
\* written behind a newer one; a checkpoint at the highest revision mends that.
Land(r) ==
  /\ trail' = trail \union {r}
  /\ anchor' = IF r.kind = "checkpoint" THEN [rev |-> r.rev, digest |-> r.digest] ELSE anchor
  /\ top' = IF r.kind = "checkpoint" THEN HigherOf(top, r.rev) ELSE top

AppendConfirmed(r) ==
  /\ Land(r)
  /\ overtaken' = IF r.kind = "checkpoint" /\ r.rev >= top THEN FALSE ELSE overtaken
  /\ UNCHANGED <<late, used>>

AppendFailed(r) ==
  /\ Event
  /\ late' \in {late, late \union {r}}
  /\ UNCHANGED <<trail, anchor, top, overtaken>>

LandLate ==
  /\ \E r \in late : /\ Land(r)
                     /\ late' = late \ {r}
                     /\ overtaken' = IF r.kind = "checkpoint" THEN r.rev < top ELSE overtaken
  /\ UNCHANGED <<disk, safe, backups, rejected, pc, serving, floor, mem, input, job, queued,
                 seals, refusal, excused, used>>

AheadRecord(k) == [kind |-> k, rev |-> job.rev, digest |-> 0,
                   from |-> IF k = "baseline" THEN job.from ELSE None]

\* Faulty write-ahead: a failed append is reported and the change goes on.
AppendAheadLenient ==
  /\ pc = "ahead"
  /\ \E k \in job.ahead :
       /\ \A o \in job.ahead : Rank[k] <= Rank[o]
       /\ AppendConfirmed(AheadRecord(k)) \/ AppendFailed(AheadRecord(k))
       /\ job' = [job EXCEPT !.ahead = @ \ {k}]
       /\ pc' = CASE job.ahead # {k} -> "ahead"
                  [] job.ahead = {k} /\ job.prior -> "preserve"
                  [] OTHER -> "unmirror"
  /\ UNCHANGED <<disk, safe, backups, rejected, serving, floor, mem, input, queued, seals,
                 refusal, excused>>

\* The records written ahead, in order; a failed one ends the change.
AppendAhead ==
  /\ pc = "ahead"
  /\ \E k \in job.ahead :
       /\ \A o \in job.ahead : Rank[k] <= Rank[o]
       /\ \/ /\ AppendConfirmed(AheadRecord(k))
             /\ job' = [job EXCEPT !.ahead = @ \ {k}]
             /\ pc' = CASE job.ahead # {k} -> "ahead"
                        [] job.ahead = {k} /\ job.prior -> "preserve"
                        [] OTHER -> "unmirror"
             /\ UNCHANGED refusal
          \/ /\ AppendFailed(AheadRecord(k))
             /\ Fail("failed")
  /\ UNCHANGED <<disk, safe, backups, rejected, serving, floor, mem, input, queued, seals,
                 excused>>

CheckpointRecord(rev, digest) == [kind |-> "checkpoint", rev |-> rev, digest |-> digest,
                                  from |-> None]

\* load records the store it accepted before it changes anything.
CheckpointLoaded ==
  /\ pc = "checkpointLoaded"
  /\ LET r == CheckpointRecord(floor, disk.store.digest)
     IN \/ /\ AppendConfirmed(r)
           /\ pc' = IF job = NoJob THEN "mirror" ELSE "ahead"
           /\ UNCHANGED <<job, refusal>>
        \/ /\ AppendFailed(r)
           /\ Fail("failed")
  /\ UNCHANGED <<disk, safe, backups, rejected, serving, floor, mem, input, queued, seals,
                 excused>>

-----------------------------------------------------------------------------
(* Writing the store *)

\* preserve: the replaced file is published under its own name before it is
\* overwritten; a copy that is not durable is an error like any other.
Preserve ==
  /\ pc = "preserve"
  /\ \/ /\ rejected' = rejected \union {disk.store.digest}
        /\ safe' = disk
        /\ pc' = "unmirror"
        /\ UNCHANGED <<job, refusal, used>>
     \/ /\ Event
        /\ Fail("failed")
        /\ UNCHANGED <<rejected, safe>>
  /\ UNCHANGED <<disk, backups, trail, anchor, top, overtaken, late, serving, floor, mem, input,
                 queued, seals, excused>>

\* Faulty persist: the mirror stays until it is rendered again.
RemoveMirrorSkipped ==
  /\ pc = "unmirror"
  /\ pc' = "publish"
  /\ UNCHANGED <<disk, safe, backups, rejected, trail, anchor, top, overtaken, late, serving,
                 floor, mem, input, job, queued, seals, refusal, excused, used>>

\* Faulty persist: the checkpoint of the sealed bytes is appended ahead of the rename.
RemoveMirrorCheckpointFirst ==
  /\ pc = "unmirror"
  /\ Land(CheckpointRecord(job.rev, seals + 1))
  /\ overtaken' = FALSE
  /\ disk' = [disk EXCEPT !.mirror = 0]
  /\ pc' = "publish"
  /\ UNCHANGED <<safe, backups, rejected, late, serving, floor, mem, input, job, queued, seals,
                 refusal, excused, used>>

\* persist, first half: the floor check, then the mirror goes, or the change ends.
RemoveMirror ==
  /\ pc = "unmirror"
  /\ \/ /\ job.rev > floor
        /\ disk' = [disk EXCEPT !.mirror = 0]
        /\ pc' = "publish"
        /\ UNCHANGED <<job, refusal, used>>
     \/ /\ IF job.rev > floor THEN Event ELSE UNCHANGED used
        /\ Fail("failed")
        /\ UNCHANGED disk
  /\ UNCHANGED <<safe, backups, rejected, trail, anchor, top, overtaken, late, serving, floor,
                 mem, input, queued, seals, excused>>

NextFile == Sealed(job.rev, seals + 1, job.g)

\* Faulty persist: a publish that was not durable is returned as an error, so
\* the floor does not cover the revision that is on disk.
PublishUncoveredFloor ==
  /\ pc = "publish"
  /\ disk' = [disk EXCEPT !.store = NextFile]
  /\ backups' = backups \union {NextFile}
  /\ seals' = seals + 1
  /\ \/ /\ safe' = disk'
        /\ floor' = job.rev
        /\ pc' = IF job.kind = "reseeding" THEN "unmark" ELSE "checkpoint"
        /\ UNCHANGED <<job, refusal, used>>
     \/ /\ Event
        /\ Fail("failed")
        /\ UNCHANGED <<safe, floor>>
  /\ UNCHANGED <<rejected, trail, anchor, top, overtaken, late, serving, mem, input, queued,
                 excused>>

\* persist, second half.  The rename is the point of no return: a directory sync
\* that fails after it leaves the new file in place but not yet safe.
Publish ==
  /\ pc = "publish"
  /\ \/ /\ disk' = [disk EXCEPT !.store = NextFile]
        /\ \/ /\ safe' = disk'
              /\ UNCHANGED used
           \/ /\ Event
              /\ UNCHANGED safe
        /\ backups' = backups \union {NextFile}
        /\ seals' = seals + 1
        /\ floor' = job.rev
        /\ pc' = IF job.kind = "reseeding" THEN "unmark" ELSE "checkpoint"
        /\ UNCHANGED <<job, refusal>>
     \/ /\ Event
        /\ Fail("failed")
        /\ UNCHANGED <<disk, safe, backups, seals, floor>>
  /\ UNCHANGED <<rejected, trail, anchor, top, overtaken, late, serving, mem, input, queued,
                 excused>>

\* seed removes the marker it used; the removal is not synced by itself.
RemoveMarker ==
  /\ pc = "unmark"
  /\ \/ /\ disk' = [disk EXCEPT !.marker = FALSE]
        /\ pc' = "checkpoint"
        /\ UNCHANGED <<job, refusal, used>>
     \/ /\ Event
        /\ Fail("failed")
        /\ UNCHANGED disk
  /\ UNCHANGED <<safe, backups, rejected, trail, anchor, top, overtaken, late, serving, floor,
                 mem, input, queued, seals, excused>>

\* A boot needs its checkpoint; a commit only reports that it failed.
WriteCheckpoint ==
  /\ pc = "checkpoint"
  /\ LET r == CheckpointRecord(job.rev, disk.store.digest)
         advance == /\ mem' = job.g
                    /\ job' = queued
                    /\ queued' = NoJob
                    /\ pc' = IF queued = NoJob THEN "mirror" ELSE "ahead"
                    /\ UNCHANGED refusal
     IN \/ AppendConfirmed(r) /\ advance
        \/ AppendFailed(r) /\ serving /\ advance
        \/ /\ AppendFailed(r)
           /\ ~serving
           /\ Fail("failed")
           /\ UNCHANGED <<mem, queued>>
  /\ UNCHANGED <<disk, safe, backups, rejected, serving, floor, input, seals, excused>>

\* publish_or_remove: the mirror of the stored graph, or none.
PublishMirror ==
  /\ pc = "mirror"
  /\ \/ /\ disk' = [disk EXCEPT !.mirror = floor]
        /\ safe' = disk'
        /\ UNCHANGED used
     \/ /\ Event
        /\ disk' = [disk EXCEPT !.mirror = 0]
        /\ UNCHANGED safe
  /\ pc' = "up"
  /\ serving' = TRUE
  /\ UNCHANGED <<backups, rejected, trail, anchor, top, overtaken, late, floor, mem, input, job,
                 queued, seals, refusal, excused>>

-----------------------------------------------------------------------------
(* Commits of a serving daemon: each holds the reload turn throughout. *)

\* transition's checks against the file as it is on disk now.
CommitAllowed(to, events, syncKept) ==
  /\ floor < MaxRevision
  /\ disk.store.tag # "damaged"
  /\ LET stored == IF Readable(disk.store) THEN disk.store.g ELSE NoContent
     IN /\ IF events THEN to.base # None ELSE to.base = stored.base
        /\ syncKept => to.sync = stored.sync /\ stored.sync # None

\* Faulty commit: the containments a change ends are not recorded ahead of it.
CommitJobSilent(to, kinds) ==
  [NoJob EXCEPT !.kind = "transition", !.rev = floor + 1, !.g = to, !.from = mem.base,
                !.ahead = {"transition"} \union kinds]

CommitJob(to, kinds) ==
  [NoJob EXCEPT !.kind = "transition", !.rev = floor + 1, !.g = to, !.from = mem.base,
                !.ahead = {"transition"} \union kinds
                  \union (IF mem.held /\ ~to.held THEN {"released"} ELSE {})]

BeginCommit(to, kinds) ==
  /\ job' = CommitJob(to, kinds)
  /\ pc' = "ahead"
  /\ UNCHANGED <<disk, safe, backups, rejected, trail, anchor, top, overtaken, late, serving,
                 floor, mem, input, queued, seals, refusal, excused, used>>

\* A reload that found the identity layer or the sync base changed (rule Free).
CommitReload ==
  /\ pc = "up"
  /\ \E sync \in SyncBases, held \in BOOLEAN, kinds \in {{}, {"sync"}} :
       LET to == [mem EXCEPT !.sync = sync, !.held = held]
       IN /\ to # mem
          /\ CommitAllowed(to, FALSE, FALSE)
          /\ BeginCommit(to, kinds)

\* An operator's accept: the one commit that changes the baseline (rule Unchanged,
\* which compares the live section too).
CommitAccept ==
  /\ pc = "up"
  /\ \E base \in Baselines :
       LET to == [mem EXCEPT !.base = base]
       IN /\ base # mem.base
          /\ CommitAllowed(to, TRUE, TRUE)
          /\ to.held = disk.store.g.held
          /\ BeginCommit(to, {"baseline"})

\* A live containment or release (rule BaseKept), always with its event.
CommitLive ==
  /\ pc = "up"
  /\ LET to == [mem EXCEPT !.held = ~@]
     IN /\ CommitAllowed(to, FALSE, TRUE)
        /\ BeginCommit(to, {"sync"})

-----------------------------------------------------------------------------
(* The process and the host *)

\* The last step of a failed boot, or a stop of the serving daemon.
Exit ==
  /\ pc \in {"exiting", "up"}
  /\ pc' = "down"
  /\ ForgetProcess
  /\ UNCHANGED <<disk, safe, backups, rejected, trail, anchor, top, overtaken, seals, refusal,
                 excused, used>>

Crash ==
  /\ pc # "down"
  /\ Event
  /\ pc' = "down"
  /\ ForgetProcess
  /\ UNCHANGED <<disk, safe, backups, rejected, trail, anchor, top, overtaken, seals, refusal,
                 excused>>

\* What was not synced may or may not have reached the disk, entry by entry.
PowerLoss ==
  /\ safe # disk
  /\ Event
  /\ \E s \in {disk.store, safe.store}, m \in {disk.mirror, safe.mirror},
        k \in {disk.marker, safe.marker} :
       /\ disk' = [store |-> s, mirror |-> m, marker |-> k]
       /\ excused' = IF safe.store # disk.store THEN excused \union {"undone"} ELSE excused
  /\ safe' = disk'
  /\ pc' = "down"
  /\ ForgetProcess
  /\ UNCHANGED <<backups, rejected, trail, anchor, top, overtaken, seals, refusal>>

-----------------------------------------------------------------------------
(* The operator *)

\* sudo maknae reseed
PlaceMarker ==
  /\ ~disk.marker
  /\ Event
  /\ disk' = [disk EXCEPT !.marker = TRUE]
  /\ safe' = [safe EXCEPT !.marker = TRUE]
  /\ UNCHANGED <<backups, rejected, trail, anchor, top, overtaken, late, pc, serving, floor,
                 mem, input, job, queued, seals, refusal, excused>>

\* A backup restored, the file lost, or its bytes damaged, with the daemon down,
\* between two of its reads at a start, or serving.
TouchStore ==
  /\ pc \in {"down", "opened", "synced", "up"}
  /\ Event
  /\ \E f \in backups \union {NoFile} \union {[disk.store EXCEPT !.tag = "damaged"]} :
       /\ f # disk.store
       /\ f.tag = "damaged" => disk.store.tag = "sealed"
       /\ disk' = [disk EXCEPT !.store = f]
       /\ safe' = [safe EXCEPT !.store = f]
  /\ excused' = excused \union {"touched"}
  /\ UNCHANGED <<backups, rejected, trail, anchor, top, overtaken, late, pc, serving, floor,
                 mem, input, job, queued, seals, refusal>>

\* A manual rotation of the audit file between two runs.
RotateTrail ==
  /\ pc = "down"
  /\ anchor # NoCheckpoint
  /\ Event
  /\ anchor' = NoCheckpoint
  /\ top' = 0
  /\ overtaken' = FALSE
  /\ UNCHANGED <<disk, safe, backups, rejected, trail, late, pc, serving, floor, mem, input,
                 job, queued, seals, refusal, excused>>

Next ==
  \/ Open \/ PeekSync \/ BootRefuse \/ BootLoad \/ BootSeed
  \/ CheckpointLoaded \/ AppendAhead \/ LandLate
  \/ Preserve \/ RemoveMirror \/ Publish \/ RemoveMarker \/ WriteCheckpoint \/ PublishMirror
  \/ CommitReload \/ CommitAccept \/ CommitLive
  \/ Exit \/ Crash \/ PowerLoss
  \/ PlaceMarker \/ TouchStore \/ RotateTrail

Spec == Init /\ [][Next]_vars

-----------------------------------------------------------------------------
(* Properties *)

\* Every variable holds a value of its kind; in particular no revision passes
\* MaxRevision, which next_revision and assess refuse instead of wrapping.
TypeOK ==
  /\ disk \in Dir /\ safe \in Dir
  /\ backups \subseteq File
  /\ rejected \subseteq Nat
  /\ trail \subseteq Record /\ late \subseteq Record
  /\ anchor \in Checkpoint /\ top \in Revisions /\ overtaken \in BOOLEAN
  /\ pc \in PCs /\ serving \in BOOLEAN
  /\ floor \in Revisions
  /\ mem \in Content /\ input \in Input
  /\ job \in Job /\ queued \in Job
  /\ seals \in Nat
  /\ refusal \in Refusals
  /\ excused \subseteq Excuses
  /\ used \in Used

IntentOf(rev) == \E r \in trail : r.kind \in Intents /\ r.rev = rev

\* No store file exists, on disk, on what a power loss falls back to or in a
\* backup, whose revision has no intent in the audit trail: a failed or
\* unconfirmed append ends the change before persist is reached (store.rs
\* transition, load, seed).
WriteAhead ==
  \A f \in {disk.store, safe.store} \union backups : f.tag # "absent" => IntentOf(f.rev)

\* A write that replaces one baseline by another has, in the trail, the event
\* that names the baseline it replaced: the events were computed against the
\* file this write overwrites, although boot reads that file twice and the
\* events come from the first read (run_inner's peek, load's BaselineUnseen).
BaselineHistory ==
  [][ (/\ seals' # seals
       /\ Readable(disk.store)
       /\ disk'.store.g.base # disk.store.g.base
       /\ job.kind # "reseeding"
       /\ serving => "touched" \notin excused)
      => [kind |-> "baseline", rev |-> job.rev, digest |-> 0,
          from |-> disk.store.g.base] \in trail ]_vars

\* No write ends a containment without a `released` record of that revision,
\* except a reseed root authorized (store.rs load, transition and seed).
ContainmentKept ==
  [][ (/\ seals' # seals
       /\ Readable(disk.store)
       /\ disk.store.g.held
       /\ ~disk'.store.g.held
       /\ serving => "touched" \notin excused)
      => \E r \in trail : /\ r.kind \in {"released", "reseeding"}
                          /\ r.rev = disk'.store.rev ]_vars

StoreRefusals == {"unreadable", "rolledback", "substituted", "missing"}

\* Whatever step the daemon crashes at, and whichever append stays unconfirmed,
\* the next start does not take its own store for a rolled back, substituted,
\* missing or damaged one.
NoFalseRefusal == refusal \in StoreRefusals => excused # {}

\* The daemon never serves from a store older than a checkpoint of the trail in use,
\* whichever earlier store an operator puts back and whenever it crashes (assess), with one
\* exception: while a checkpoint whose append was given up stands behind a newer one, the
\* newest line, which is the anchor, is not the highest (write_line's mutex is no queue).
\* Only such a late line makes the exception, and the next checkpoint at the highest
\* revision, which every start on the right store writes, ends it.
RollbackDetected == serving => floor >= top \/ overtaken

\* ADR-0029's decision 8 without that exception: "At start, a store whose revision is older
\* than the latest checkpoint's [...] is refused".
RollbackAlwaysRefused == serving => floor >= top

\* A revision that reached the disk is never given to a second store, whatever
\* failed in between: the floor covers every publish that renamed (persist).
NoRevisionReuse ==
  excused = {} => \A a, b \in backups : a.rev = b.rev => a.digest = b.digest

\* A reseed overwrites a file, readable or not, only after that file's bytes
\* are preserved (seed, preserve).
ReseedPreserves ==
  [][ (seals' # seals /\ job.kind = "reseeding" /\ disk.store.tag # "absent")
      => disk.store.digest \in rejected ]_vars

\* A mirror on disk is the mirror of the store on disk, also after a crash
\* between any two steps, so `maknae policy sync` never installs bindings of
\* another revision (persist removes the mirror first).
MirrorTrue ==
  (disk.mirror # 0 /\ excused = {}) => disk.mirror = disk.store.rev

\* ADR-0029's named residual: after a persist whose outcome is uncertain "the
\* next start loads whatever store is on disk".
UncertainPersistLoads == refusal \in StoreRefusals => "touched" \in excused
=============================================================================
