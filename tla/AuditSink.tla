------------------------------ MODULE AuditSink ------------------------------
(***************************************************************************)
(* The primary audit sink (maknae-audit-append sink.rs), its append breaker *)
(* (blocking_guard.rs) and the admission of the trail at a start (maknae-io *)
(* audit_append.rs).  An append is admitted, handed to a blocking worker and *)
(* awaited within a bound; the worker takes the writer mutex in no           *)
(* particular order, writes one line and syncs it, whether or not its caller *)
(* still waits.                                                              *)
(***************************************************************************)
EXTENDS Naturals, Sequences, FiniteSets

CONSTANTS
  MaxAppends,    \* bound: appends over all starts
  MaxInFlight,   \* AUDIT_APPEND_BREAKER_MAX_IN_FLIGHT
  MaxReclaims,   \* AUDIT_APPEND_MAX_STALE_RECLAIMS
  MaxStarts,     \* bound: starts of the daemon
  MaxFaults      \* bound: I/O errors, panics, crashes and power losses

ASSUME SinkAssumption ==
  /\ MaxAppends \in Nat /\ MaxInFlight \in Nat \ {0} /\ MaxReclaims \in Nat
  /\ MaxStarts \in Nat /\ MaxFaults \in Nat

VARIABLES
  up,        \* whether a process holds the sink open
  file,      \* the trail: lines in the order they were written
  durable,   \* how many of them a power loss cannot take
  next,      \* the next attempt; ids are not reused across starts here
  inFlight,  \* BlockingBreaker.in_flight; ids grow, so the front is the smallest
  stale,     \* attempts older than AUDIT_APPEND_STALE_AFTER
  reclaims,  \* BlockingBreaker.stale_reclaims
  worker,    \* where each blocking worker is
  caller,    \* what each caller knows
  failed,    \* Primary.failed
  poisoned,  \* whether the writer mutex is poisoned
  used       \* [starts, faults] used up of the bounds

vars == <<up, file, durable, next, inFlight, stale, reclaims, worker, caller, failed,
          poisoned, used>>

Ids == 1 .. MaxAppends

\* A line is whole when its newline was written.
Line == [id : Ids, whole : BOOLEAN]

\* queued: the worker waits for the writer mutex; writing, syncing: it holds it.
WorkerStates == {"none", "queued", "writing", "syncing"}

Holding == {"writing", "syncing"}

CallerStates == {"none", "waiting", "refused", "ok", "error", "unconfirmed"}

Live == {i \in Ids : worker[i] # "none"}

Fault == /\ used.faults < MaxFaults
         /\ used' = [used EXCEPT !.faults = @ + 1]

Init ==
  /\ up = FALSE
  /\ file = <<>>
  /\ durable = 0
  /\ next = 1
  /\ inFlight = {}
  /\ stale = {}
  /\ reclaims = 0
  /\ worker = [i \in Ids |-> "none"]
  /\ caller = [i \in Ids |-> "none"]
  /\ failed = FALSE
  /\ poisoned = FALSE
  /\ used = [starts |-> 0, faults |-> 0]

-----------------------------------------------------------------------------
(* Admission *)

Torn == Len(file) > 0 /\ ~file[Len(file)].whole

\* open_pinned_with: a torn last line refuses; otherwise the file and its
\* directory are synced before anything is appended.
Open ==
  /\ ~up
  /\ ~Torn
  /\ used.starts < MaxStarts
  /\ used' = [used EXCEPT !.starts = @ + 1]
  /\ up' = TRUE
  /\ durable' = Len(file)
  /\ inFlight' = {}
  /\ stale' = {}
  /\ reclaims' = 0
  /\ failed' = FALSE
  /\ poisoned' = FALSE
  /\ UNCHANGED <<file, next, worker, caller>>

\* busy_longer_than may hold whenever a worker is inside the mutex.
WriterBusy == \E i \in Ids : worker[i] \in Holding

\* begin_attempt_at pops stale attempts off the front before it decides, as many
\* as the sink's lifetime bound still allows.
Pops(P) ==
  /\ P \subseteq stale
  /\ \A i \in P, j \in inFlight \ P : i < j
  /\ Cardinality(P) <= MaxReclaims - reclaims
  /\ \/ Cardinality(P) = MaxReclaims - reclaims
     \/ \A j \in inFlight \ P : j \in stale => \E k \in inFlight \ P : k < j

RefuseBusy ==
  /\ up
  /\ next \in Ids
  /\ WriterBusy
  /\ caller' = [caller EXCEPT ![next] = "refused"]
  /\ next' = next + 1
  /\ UNCHANGED <<up, file, durable, inFlight, stale, reclaims, worker, failed, poisoned, used>>

\* append_inner up to the spawn: admitted, or refused before a worker exists.
BeginAppend ==
  /\ up
  /\ next \in Ids
  /\ \E P \in SUBSET inFlight :
       /\ Pops(P)
       /\ reclaims' = reclaims + Cardinality(P)
       /\ IF Cardinality(inFlight \ P) < MaxInFlight
            THEN /\ inFlight' = (inFlight \ P) \union {next}
                 /\ worker' = [worker EXCEPT ![next] = "queued"]
                 /\ caller' = [caller EXCEPT ![next] = "waiting"]
            ELSE /\ inFlight' = inFlight \ P
                 /\ caller' = [caller EXCEPT ![next] = "refused"]
                 /\ UNCHANGED worker
  /\ next' = next + 1
  /\ UNCHANGED <<up, file, durable, stale, failed, poisoned, used>>

-----------------------------------------------------------------------------
(* The worker *)

\* Faulty end: the slot is released by the caller that waits, so not when it left.
EndByCaller(i, result) ==
  /\ worker' = [worker EXCEPT ![i] = "none"]
  /\ inFlight' = IF caller[i] = "waiting" THEN inFlight \ {i} ELSE inFlight
  /\ caller' = [caller EXCEPT ![i] = IF @ = "waiting" THEN result ELSE @]

\* The closure ends: the slot is released (SlotRelease, if it was not reclaimed)
\* and a caller that still waits gets the result.
End(i, result) ==
  /\ worker' = [worker EXCEPT ![i] = "none"]
  /\ inFlight' = inFlight \ {i}
  /\ caller' = [caller EXCEPT ![i] = IF @ = "waiting" THEN result ELSE @]

\* Faulty write_line: only the line's own outcome counts, not an earlier failure.
LockIgnoresFailure(i) ==
  /\ worker[i] = "queued"
  /\ ~WriterBusy
  /\ failed' = TRUE
  /\ worker' = [worker EXCEPT ![i] = "writing"]
  /\ UNCHANGED <<inFlight, caller, up, file, durable, next, stale, reclaims, poisoned, used>>

\* write_line takes the mutex; a poisoned or failed sink refuses.
Lock(i) ==
  /\ worker[i] = "queued"
  /\ ~WriterBusy
  /\ IF poisoned \/ failed
       THEN /\ End(i, "error")
            /\ UNCHANGED failed
       ELSE /\ failed' = TRUE
            /\ worker' = [worker EXCEPT ![i] = "writing"]
            /\ UNCHANGED <<inFlight, caller>>
  /\ UNCHANGED <<up, file, durable, next, stale, reclaims, poisoned, used>>

\* What a failed write_all leaves of the line.
Partial(i) == {file, Append(file, [id |-> i, whole |-> FALSE])}

Write(i) ==
  /\ worker[i] = "writing"
  /\ \/ /\ file' = Append(file, [id |-> i, whole |-> TRUE])
        /\ worker' = [worker EXCEPT ![i] = "syncing"]
        /\ UNCHANGED <<inFlight, caller, used>>
     \/ /\ Fault
        /\ file' \in Partial(i)
        /\ End(i, "error")
  /\ UNCHANGED <<up, durable, next, stale, reclaims, failed, poisoned>>

\* Faulty write_line: the line is acknowledged without its sync.
SyncSkipped(i) ==
  /\ worker[i] = "syncing"
  /\ End(i, "ok")
  /\ failed' = FALSE
  /\ UNCHANGED <<up, file, durable, next, stale, reclaims, poisoned, used>>

\* Faulty write_line: a failed sync is retried with the write before it.
SyncRetried(i) ==
  /\ worker[i] = "syncing"
  /\ \/ /\ durable' = Len(file)
        /\ failed' = FALSE
        /\ End(i, "ok")
        /\ UNCHANGED used
     \/ /\ Fault
        /\ worker' = [worker EXCEPT ![i] = "writing"]
        /\ UNCHANGED <<durable, failed, inFlight, caller>>
  /\ UNCHANGED <<up, file, next, stale, reclaims, poisoned>>

Sync(i) ==
  /\ worker[i] = "syncing"
  /\ \/ /\ durable' = Len(file)
        /\ failed' = FALSE
        /\ End(i, "ok")
        /\ UNCHANGED used
     \/ /\ Fault
        /\ End(i, "error")
        /\ UNCHANGED <<durable, failed>>
  /\ UNCHANGED <<up, file, next, stale, reclaims, poisoned>>

\* A panic inside the mutex poisons it; the join error is the caller's answer.
Panic(i) ==
  /\ worker[i] = "writing"
  /\ Fault
  /\ file' \in Partial(i)
  /\ poisoned' = TRUE
  /\ End(i, "error")
  /\ UNCHANGED <<up, durable, next, stale, reclaims, failed>>

-----------------------------------------------------------------------------
(* Time: a caller with a bound gives up when it passes (append_within; the   *)
(* caller of append waits on); an attempt is stale after half a minute.      *)

GiveUp(i) ==
  /\ caller[i] = "waiting"
  /\ caller' = [caller EXCEPT ![i] = "unconfirmed"]
  /\ UNCHANGED <<up, file, durable, next, inFlight, stale, reclaims, worker, failed, poisoned,
                 used>>

GoStale(i) ==
  /\ worker[i] # "none"
  /\ i \notin stale
  /\ stale' = stale \union {i}
  /\ UNCHANGED <<up, file, durable, next, inFlight, reclaims, worker, caller, failed, poisoned,
                 used>>

-----------------------------------------------------------------------------
(* The process and the host *)

\* Whoever waited will not learn; workers are gone.
ProcessEnds ==
  /\ up' = FALSE
  /\ worker' = [i \in Ids |-> "none"]
  /\ caller' = [i \in Ids |-> IF caller[i] = "waiting" THEN "unconfirmed" ELSE caller[i]]
  /\ inFlight' = {}
  /\ stale' = {}

\* A kill in the middle of a write may leave part of the line.
Crash ==
  /\ up
  /\ Fault
  /\ ProcessEnds
  /\ \/ UNCHANGED file
     \/ \E i \in Ids : worker[i] = "writing" /\ file' \in Partial(i)
  /\ UNCHANGED <<durable, next, reclaims, failed, poisoned>>

\* Lines that were not synced are lost from the end, the last one possibly in part.
PowerLoss ==
  /\ Fault
  /\ \E n \in durable .. Len(file) :
       \/ file' = SubSeq(file, 1, n)
       \/ /\ n > durable
          /\ file' = Append(SubSeq(file, 1, n - 1), [id |-> file[n].id, whole |-> FALSE])
  /\ ProcessEnds
  /\ UNCHANGED <<durable, next, reclaims, failed, poisoned>>

\* The operator removes a torn last line.
Recover ==
  /\ ~up
  /\ Torn
  /\ file' = SubSeq(file, 1, Len(file) - 1)
  /\ durable' = IF durable > Len(file) - 1 THEN Len(file) - 1 ELSE durable
  /\ UNCHANGED <<up, next, inFlight, stale, reclaims, worker, caller, failed, poisoned, used>>

WorkerStep(i) == Lock(i) \/ Write(i) \/ Sync(i) \/ Panic(i)

Next ==
  \/ Open \/ RefuseBusy \/ BeginAppend
  \/ \E i \in Ids : WorkerStep(i) \/ GiveUp(i) \/ GoStale(i)
  \/ Crash \/ PowerLoss \/ Recover

Spec == Init /\ [][Next]_vars

\* The runtime runs its workers and the disk answers every call, if with an error.
\* Nothing is assumed of the callers: they may wait for ever or give up.
FairSpec == Spec /\ \A i \in Ids : WF_vars(WorkerStep(i))

-----------------------------------------------------------------------------
(* Properties *)

\* Every variable holds a value of its kind.
TypeOK ==
  /\ up \in BOOLEAN
  /\ file \in Seq(Line)
  /\ durable \in 0 .. Len(file)
  /\ next \in 1 .. MaxAppends + 1
  /\ inFlight \subseteq Ids
  /\ stale \subseteq Ids
  /\ reclaims \in 0 .. MaxReclaims
  /\ worker \in [Ids -> WorkerStates]
  /\ caller \in [Ids -> CallerStates]
  /\ failed \in BOOLEAN /\ poisoned \in BOOLEAN
  /\ used \in [starts : Nat, faults : Nat]

\* An append that returned Ok is in the part of the trail no power loss can take,
\* as a whole line, for good: the response released after it is accounted for
\* (audit before respond), whatever fails afterwards.
AckedIsDurable ==
  \A i \in Ids : caller[i] = "ok" => \E k \in 1 .. durable : file[k] = [id |-> i, whole |-> TRUE]

\* Nothing is ever written after a partial line, in this run or the next: a failed
\* writer refuses (Primary.failed, the poisoned mutex) and a torn trail is not
\* opened, so no record is spliced into another.
NothingAfterTorn == \A k \in 1 .. Len(file) : file[k].whole \/ k = Len(file)

\* A record is in the trail at most once, and never when its append was refused
\* before a worker was spawned; an unconfirmed one may be there or not.
AtMostOnce ==
  /\ \A j, k \in 1 .. Len(file) : file[j].id = file[k].id => j = k
  /\ \A k \in 1 .. Len(file) : caller[file[k].id] # "refused"

\* The workers that run at once are bounded by the in-flight cap and the stale
\* slots reclaimed over the sink's life, however long the disk hangs.
WorkersBounded == Cardinality(Live) <= MaxInFlight + MaxReclaims

\* On a disk that answers, every admitted append leaves its slot: capacity comes
\* back although callers gave up (SlotRelease runs in the worker).
SlotsComeBack == \A i \in Ids : (i \in inFlight) ~> (i \notin inFlight)
=============================================================================
