--------------------------- MODULE AuditSinkProofs ---------------------------
(***************************************************************************)
(* The guarantees of the audit sink for every number of appends, starts     *)
(* and faults and every cap: an acknowledged record stays, no record is     *)
(* spliced into another or there twice, and the blocking workers are        *)
(* bounded.                                                                 *)
(***************************************************************************)
EXTENDS AuditSink, FiniteSetTheorems, TLAPS

-----------------------------------------------------------------------------
(* Type correctness *)

LEMMA FileType ==
  ASSUME TypeOK
  PROVE  /\ file \in Seq(Line) /\ Len(file) \in Nat
         /\ durable \in Nat /\ durable <= Len(file)
         /\ \A k \in 1 .. Len(file) : file[k] \in Line
BY DEF TypeOK

LEMMA AppendType ==
  ASSUME NEW s \in Seq(Line), NEW l \in Line
  PROVE  /\ Append(s, l) \in Seq(Line)
         /\ Len(Append(s, l)) = Len(s) + 1
         /\ \A k \in 1 .. Len(s) : Append(s, l)[k] = s[k]
         /\ Append(s, l)[Len(s) + 1] = l
OBVIOUS

LEMMA PrefixType ==
  ASSUME NEW s \in Seq(Line), NEW n \in 0 .. Len(s)
  PROVE  /\ SubSeq(s, 1, n) \in Seq(Line)
         /\ Len(SubSeq(s, 1, n)) = n
         /\ \A k \in 1 .. n : SubSeq(s, 1, n)[k] = s[k]
OBVIOUS

LEMMA PartialType ==
  ASSUME TypeOK, NEW i \in Ids, NEW f \in Partial(i)
  PROVE  f \in Seq(Line) /\ Len(file) <= Len(f)
<1>1. CASE f = file
  BY <1>1, FileType
<1>2. CASE f = Append(file, [id |-> i, whole |-> FALSE])
  <2>1. [id |-> i, whole |-> FALSE] \in Line
    BY DEF Line
  <2>2. QED
    BY <1>2, <2>1, FileType, AppendType
<1>3. QED
  BY <1>1, <1>2 DEF Partial

LEMMA EndType ==
  ASSUME TypeOK, NEW i \in Ids, NEW result \in CallerStates, End(i, result)
  PROVE  /\ worker' \in [Ids -> WorkerStates]
         /\ caller' \in [Ids -> CallerStates]
         /\ inFlight' \subseteq Ids
BY DEF TypeOK, End, WorkerStates

LEMMA EndsType ==
  ASSUME TypeOK, ProcessEnds
  PROVE  /\ up' \in BOOLEAN
         /\ worker' \in [Ids -> WorkerStates]
         /\ caller' \in [Ids -> CallerStates]
         /\ inFlight' \subseteq Ids /\ stale' \subseteq Ids
BY DEF TypeOK, ProcessEnds, WorkerStates, CallerStates

LEMMA FaultType ==
  ASSUME TypeOK, Fault
  PROVE  used' \in [starts : Nat, faults : Nat]
BY DEF TypeOK, Fault

LEMMA LiveFinite ==
  ASSUME TypeOK
  PROVE  IsFiniteSet(Ids) /\ IsFiniteSet(inFlight) /\ IsFiniteSet(Live)
<1>1. IsFiniteSet(Ids)
  BY FS_Interval, SinkAssumption DEF Ids
<1>2. QED
  BY <1>1, FS_Subset DEF TypeOK, Live

LEMMA TypeInit == Init => TypeOK
<1> SUFFICES ASSUME Init PROVE TypeOK
  OBVIOUS
<1>1. file \in Seq(Line) /\ durable \in 0 .. Len(file)
  BY DEF Init
<1>2. worker \in [Ids -> WorkerStates] /\ caller \in [Ids -> CallerStates]
  BY DEF Init, WorkerStates, CallerStates
<1>3. next \in 1 .. MaxAppends + 1 /\ reclaims \in 0 .. MaxReclaims
  BY SinkAssumption DEF Init
<1>4. used \in [starts : Nat, faults : Nat]
  BY DEF Init
<1>5. QED
  BY <1>1, <1>2, <1>3, <1>4 DEF Init, TypeOK

LEMMA TypeAppend ==
  ASSUME TypeOK, Open \/ RefuseBusy \/ BeginAppend
  PROVE  TypeOK'
<1>1. CASE Open
  <2>1. file' = file /\ durable' \in 0 .. Len(file')
    BY <1>1, FileType DEF Open
  <2>2. used' \in [starts : Nat, faults : Nat]
    BY <1>1 DEF Open, TypeOK
  <2>3. reclaims' \in 0 .. MaxReclaims
    BY <1>1, SinkAssumption DEF Open
  <2>4. QED
    BY <1>1, <2>1, <2>2, <2>3 DEF Open, TypeOK
<1>2. CASE RefuseBusy
  BY <1>2, SinkAssumption DEF RefuseBusy, TypeOK, CallerStates, Ids
<1>3. CASE BeginAppend
  <2>1. PICK P \in SUBSET inFlight :
          /\ Pops(P)
          /\ reclaims' = reclaims + Cardinality(P)
          /\ inFlight' \in {inFlight \ P, (inFlight \ P) \union {next}}
          /\ worker' \in {worker, [worker EXCEPT ![next] = "queued"]}
          /\ caller' \in {[caller EXCEPT ![next] = "waiting"], [caller EXCEPT ![next] = "refused"]}
    BY <1>3 DEF BeginAppend
  <2>2. Cardinality(P) \in Nat
    BY LiveFinite, FS_Subset, FS_CardinalityType
  <2>3. reclaims' \in 0 .. MaxReclaims
    BY <2>1, <2>2, SinkAssumption DEF Pops, TypeOK
  <2>4. /\ inFlight' \subseteq Ids
        /\ worker' \in [Ids -> WorkerStates]
        /\ caller' \in [Ids -> CallerStates]
    BY <1>3, <2>1 DEF BeginAppend, TypeOK, WorkerStates, CallerStates
  <2>5. next' \in 1 .. MaxAppends + 1
    BY <1>3, SinkAssumption DEF BeginAppend, TypeOK, Ids
  <2>6. QED
    BY <1>3, <2>3, <2>4, <2>5 DEF BeginAppend, TypeOK
<1>4. QED
  BY <1>1, <1>2, <1>3

LEMMA TypeWorker ==
  ASSUME TypeOK, NEW i \in Ids, WorkerStep(i)
  PROVE  TypeOK'
<1> USE DEF CallerStates
<1>1. CASE Lock(i)
  <2>1. CASE poisoned \/ failed
    BY <1>1, <2>1, EndType DEF Lock, TypeOK
  <2>2. CASE ~(poisoned \/ failed)
    BY <1>1, <2>2 DEF Lock, TypeOK, WorkerStates
  <2>3. QED
    BY <2>1, <2>2
<1>2. CASE Write(i)
  <2>1. CASE Fault /\ file' \in Partial(i) /\ End(i, "error")
    BY <1>2, <2>1, EndType, FaultType, PartialType DEF Write, TypeOK
  <2>2. CASE /\ file' = Append(file, [id |-> i, whole |-> TRUE])
             /\ worker' = [worker EXCEPT ![i] = "syncing"]
             /\ UNCHANGED <<inFlight, caller, used>>
    BY <1>2, <2>2 DEF Write, TypeOK, WorkerStates, Line
  <2>3. QED
    BY <1>2, <2>1, <2>2 DEF Write
<1>3. CASE Sync(i)
  <2>1. CASE durable' = Len(file) /\ failed' = FALSE /\ End(i, "ok") /\ UNCHANGED used
    <3>1. file' = file /\ durable' \in 0 .. Len(file')
      BY <1>3, <2>1, FileType DEF Sync
    <3>2. QED
      BY <1>3, <2>1, <3>1, EndType DEF Sync, TypeOK
  <2>2. CASE Fault /\ End(i, "error") /\ UNCHANGED <<durable, failed>>
    BY <1>3, <2>2, EndType, FaultType DEF Sync, TypeOK
  <2>3. QED
    BY <1>3, <2>1, <2>2 DEF Sync
<1>4. CASE Panic(i)
  BY <1>4, EndType, FaultType, PartialType DEF Panic, TypeOK
<1>5. QED
  BY <1>1, <1>2, <1>3, <1>4 DEF WorkerStep

LEMMA TypeOther ==
  ASSUME TypeOK,
         \/ \E i \in Ids : GiveUp(i) \/ GoStale(i)
         \/ Crash \/ PowerLoss \/ Recover
  PROVE  TypeOK'
<1>1. CASE \E i \in Ids : GiveUp(i) \/ GoStale(i)
  BY <1>1 DEF GiveUp, GoStale, TypeOK, CallerStates
<1>2. CASE Crash
  <2>1. file' \in Seq(Line) /\ Len(file) <= Len(file')
    BY <1>2, PartialType DEF Crash, TypeOK
  <2>2. QED
    BY <1>2, <2>1, EndsType, FaultType DEF Crash, TypeOK
<1>3. CASE PowerLoss
  <2>1. PICK n \in durable .. Len(file) :
          \/ file' = SubSeq(file, 1, n)
          \/ /\ n > durable
             /\ file' = Append(SubSeq(file, 1, n - 1), [id |-> file[n].id, whole |-> FALSE])
    BY <1>3 DEF PowerLoss
  <2>2. n \in 0 .. Len(file)
    BY FileType
  <2>3. file' \in Seq(Line) /\ Len(file') = n
    <3>1. CASE file' = SubSeq(file, 1, n)
      BY <2>2, <3>1, FileType, PrefixType
    <3>2. CASE n > durable /\ file' = Append(SubSeq(file, 1, n - 1), [id |-> file[n].id, whole |-> FALSE])
      <4>1. n - 1 \in 0 .. Len(file) /\ n \in 1 .. Len(file)
        BY <2>2, <3>2, FileType
      <4>2. [id |-> file[n].id, whole |-> FALSE] \in Line
        BY <4>1, FileType DEF Line
      <4>3. QED
        BY <3>2, <4>1, <4>2, FileType, PrefixType, AppendType
    <3>3. QED
      BY <2>1, <3>1, <3>2
  <2>4. QED
    BY <1>3, <2>2, <2>3, EndsType, FaultType DEF PowerLoss, TypeOK
<1>4. CASE Recover
  BY <1>4 DEF Recover, Torn, TypeOK
<1>5. QED
  BY <1>1, <1>2, <1>3, <1>4

LEMMA TypeNext == TypeOK /\ [Next]_vars => TypeOK'
<1> SUFFICES ASSUME TypeOK, [Next]_vars PROVE TypeOK'
  OBVIOUS
<1>1. CASE UNCHANGED vars
  BY <1>1 DEF vars, TypeOK
<1>2. CASE Next
  BY <1>2, TypeAppend, TypeWorker, TypeOther DEF Next
<1>3. QED
  BY <1>1, <1>2

-----------------------------------------------------------------------------
(* The workers *)

\* Attempts that were not made yet have no worker and no slot; a slot belongs to a
\* live worker; a worker without a slot was reclaimed; an ended process has none.
Slots ==
  /\ \A i \in Ids : i >= next => worker[i] = "none"
  /\ inFlight \subseteq Live
  /\ Cardinality(inFlight) <= MaxInFlight
  /\ Cardinality(Live \ inFlight) <= reclaims
  /\ ~up => Live = {}

LEMMA SlotsBound ==
  ASSUME TypeOK, Slots
  PROVE  WorkersBounded
<1>1. Cardinality(Live) = Cardinality(inFlight) + Cardinality(Live \ inFlight)
  <2>1. Live \cap inFlight = inFlight
    BY DEF Slots
  <2>2. Cardinality(Live \ inFlight) = Cardinality(Live) - Cardinality(inFlight)
    BY <2>1, LiveFinite, FS_Difference
  <2>3. QED
    BY <2>2, LiveFinite, FS_CardinalityType
<1>2. /\ Cardinality(inFlight) \in Nat
      /\ Cardinality(Live \ inFlight) \in Nat
  BY LiveFinite, FS_Subset, FS_CardinalityType
<1>3. QED
  BY <1>1, <1>2, SinkAssumption DEF WorkersBounded, Slots, TypeOK

LEMMA SlotsInit == Init => Slots
<1> SUFFICES ASSUME Init PROVE Slots
  OBVIOUS
<1>1. Live = {} /\ inFlight = {} /\ Live \ inFlight = {}
  BY DEF Init, Live
<1>2. QED
  BY <1>1, FS_EmptySet, SinkAssumption DEF Init, Slots

\* The end of a worker takes it out of both sets.
LEMMA SlotsEnd ==
  ASSUME TypeOK, Slots, NEW i \in Ids, worker[i] # "none",
         worker' = [worker EXCEPT ![i] = "none"],
         inFlight' = inFlight \ {i}, UNCHANGED <<up, next, reclaims>>
  PROVE  Slots'
<1>1. Live' = Live \ {i}
  BY DEF Live, TypeOK
<1>2. inFlight' \subseteq Live'
  BY <1>1 DEF Slots
<1>3. Cardinality(inFlight') <= Cardinality(inFlight) /\ Cardinality(inFlight') \in Nat
  BY LiveFinite, FS_Subset, FS_CardinalityType
<1>4. /\ Cardinality(Live' \ inFlight') <= Cardinality(Live \ inFlight)
      /\ Cardinality(Live' \ inFlight') \in Nat
  <2>1. Live' \ inFlight' \subseteq Live \ inFlight
    BY <1>1
  <2>2. IsFiniteSet(Live \ inFlight)
    BY LiveFinite, FS_Subset
  <2>3. QED
    BY <2>1, <2>2, FS_Subset, FS_CardinalityType
<1>5. /\ Cardinality(inFlight) \in Nat /\ Cardinality(Live \ inFlight) \in Nat
  BY LiveFinite, FS_Subset, FS_CardinalityType
<1>6. \A j \in Ids : j >= next' => worker'[j] = "none"
  BY DEF Slots, TypeOK
<1>7. QED
  BY <1>1, <1>2, <1>3, <1>4, <1>5, <1>6, SinkAssumption DEF Slots, TypeOK

\* Neither set changes: nor does anything the bound is about.
LEMMA SlotsKept ==
  ASSUME Slots, Live' = Live, \A i \in Ids : (worker'[i] = "none") <=> (worker[i] = "none"),
         UNCHANGED <<up, inFlight, next, reclaims>>
  PROVE  Slots'
BY DEF Slots

LEMMA SlotsBegin ==
  ASSUME TypeOK, Slots, BeginAppend
  PROVE  Slots'
<1>0. next \in Ids /\ up /\ up' = up /\ next' = next + 1
  BY DEF BeginAppend
<1>1. PICK P \in SUBSET inFlight :
        /\ reclaims' = reclaims + Cardinality(P)
        /\ IF Cardinality(inFlight \ P) < MaxInFlight
             THEN /\ inFlight' = (inFlight \ P) \union {next}
                  /\ worker' = [worker EXCEPT ![next] = "queued"]
             ELSE /\ inFlight' = inFlight \ P
                  /\ UNCHANGED worker
  BY DEF BeginAppend
<1>2. next \notin Live
  BY <1>0 DEF Slots, Live, TypeOK, Ids
<1>3. /\ IsFiniteSet(P) /\ IsFiniteSet(inFlight \ P) /\ IsFiniteSet(Live \ inFlight)
      /\ Cardinality(P) \in Nat /\ Cardinality(inFlight \ P) \in Nat
      /\ Cardinality(Live \ inFlight) \in Nat
  BY LiveFinite, FS_Subset, FS_CardinalityType
<1>4. Cardinality((Live \ inFlight) \union P) = Cardinality(Live \ inFlight) + Cardinality(P)
  <2>1. (Live \ inFlight) \cap P = {}
    OBVIOUS
  <2>2. Cardinality((Live \ inFlight) \union P)
          = Cardinality(Live \ inFlight) + Cardinality(P) - Cardinality({})
    BY <1>3, <2>1, FS_Union
  <2>3. QED
    BY <1>3, <2>2, FS_EmptySet
<1>5. CASE Cardinality(inFlight \ P) < MaxInFlight
  <2>1. Live' = Live \union {next}
    BY <1>0, <1>1, <1>5 DEF Live, TypeOK
  <2>2. inFlight' \subseteq Live' /\ Live' \ inFlight' = (Live \ inFlight) \union P
    BY <1>1, <1>2, <1>5, <2>1 DEF Slots
  <2>3. Cardinality(inFlight') = Cardinality(inFlight \ P) + 1
    BY <1>1, <1>2, <1>3, <1>5, FS_AddElement DEF Slots
  <2>4. \A i \in Ids : i >= next' => worker'[i] = "none"
    <3> SUFFICES ASSUME NEW i \in Ids, i >= next'
                 PROVE  worker'[i] = "none"
      OBVIOUS
    <3>1. i >= next /\ i # next
      BY <1>0, SinkAssumption DEF Ids
    <3>2. worker[i] = "none"
      BY <3>1 DEF Slots
    <3>3. QED
      BY <1>1, <1>5, <3>1, <3>2 DEF TypeOK
  <2>5. Cardinality(Live' \ inFlight') <= reclaims'
    <3>1. Cardinality(Live' \ inFlight') = Cardinality(Live \ inFlight) + Cardinality(P)
      BY <1>4, <2>2, Zenon
    <3>2. Cardinality(Live \ inFlight) <= reclaims /\ reclaims \in Nat
      BY SinkAssumption DEF Slots, TypeOK
    <3>3. QED
      BY <1>1, <1>3, <3>1, <3>2
  <2>6. QED
    BY <1>0, <1>3, <1>5, <2>2, <2>3, <2>4, <2>5, SinkAssumption DEF Slots
<1>6. CASE ~(Cardinality(inFlight \ P) < MaxInFlight)
  <2>1. Live' = Live
    BY <1>1, <1>6 DEF Live
  <2>2. inFlight' \subseteq Live' /\ Live' \ inFlight' = (Live \ inFlight) \union P
    BY <1>1, <1>6, <2>1 DEF Slots
  <2>3. Cardinality(inFlight') <= Cardinality(inFlight)
    BY <1>1, <1>6, LiveFinite, FS_Subset
  <2>4. \A i \in Ids : i >= next' => worker'[i] = "none"
    BY <1>0, <1>1, <1>6 DEF Slots, TypeOK, Ids
  <2>5. Cardinality(Live' \ inFlight') <= reclaims'
    <3>1. Cardinality(Live' \ inFlight') = Cardinality(Live \ inFlight) + Cardinality(P)
      BY <1>4, <2>2, Zenon
    <3>2. Cardinality(Live \ inFlight) <= reclaims /\ reclaims \in Nat
      BY SinkAssumption DEF Slots, TypeOK
    <3>3. QED
      BY <1>1, <1>3, <3>1, <3>2
  <2>6. Cardinality(inFlight) \in Nat /\ Cardinality(inFlight') \in Nat
    BY <1>1, <1>3, <1>6, LiveFinite, FS_CardinalityType
  <2>7. QED
    BY <1>0, <2>2, <2>3, <2>4, <2>5, <2>6, SinkAssumption DEF Slots
<1>7. QED
  BY <1>5, <1>6

LEMMA SlotsWorker ==
  ASSUME TypeOK, Slots, NEW i \in Ids, WorkerStep(i)
  PROVE  Slots'
<1>1. worker[i] # "none" /\ UNCHANGED <<up, next, reclaims>>
  BY DEF WorkerStep, Lock, Write, Sync, Panic
<1>2. CASE /\ worker' = [worker EXCEPT ![i] = "none"]
           /\ inFlight' = inFlight \ {i}
  BY <1>1, <1>2, SlotsEnd
<1>3. CASE /\ worker' \in {[worker EXCEPT ![i] = "writing"], [worker EXCEPT ![i] = "syncing"]}
           /\ inFlight' = inFlight
  <2>1. \A j \in Ids : (worker'[j] = "none") <=> (worker[j] = "none")
    BY <1>1, <1>3 DEF TypeOK
  <2>2. Live' = Live
    BY <2>1 DEF Live
  <2>3. QED
    BY <1>1, <1>3, <2>1, <2>2, SlotsKept
<1>4. QED
  BY <1>2, <1>3 DEF WorkerStep, Lock, Write, Sync, Panic, End

LEMMA SlotsEmptied ==
  ASSUME TypeOK, worker' = [i \in Ids |-> "none"], inFlight' = {}, reclaims' \in Nat
  PROVE  Slots'
<1>1. Live' = {} /\ Live' \ inFlight' = {}
  BY DEF Live
<1>2. QED
  BY <1>1, FS_EmptySet, SinkAssumption DEF Slots

LEMMA SlotsNext == TypeOK /\ Slots /\ [Next]_vars => Slots'
<1> SUFFICES ASSUME TypeOK, Slots, [Next]_vars PROVE Slots'
  OBVIOUS
<1>1. CASE UNCHANGED vars
  <2>1. Live' = Live
    BY <1>1 DEF vars, Live
  <2>2. QED
    BY <1>1, <2>1, SlotsKept DEF vars
<1>2. CASE Open
  <2>1. worker = [i \in Ids |-> "none"]
    BY <1>2 DEF Open, Slots, Live, TypeOK
  <2>2. QED
    BY <1>2, <2>1, SlotsEmptied DEF Open
<1>3. CASE RefuseBusy
  <2>1. Live' = Live /\ \A i \in Ids : i >= next' => worker'[i] = "none"
    BY <1>3 DEF RefuseBusy, Live, Slots, TypeOK, Ids
  <2>2. QED
    BY <1>3, <2>1 DEF RefuseBusy, Slots
<1>4. CASE BeginAppend
  BY <1>4, SlotsBegin
<1>5. CASE \E i \in Ids : WorkerStep(i)
  BY <1>5, SlotsWorker
<1>6. CASE Recover \/ \E i \in Ids : GiveUp(i) \/ GoStale(i)
  <2>1. UNCHANGED <<up, inFlight, next, reclaims, worker>>
    BY <1>6 DEF Recover, GiveUp, GoStale
  <2>2. Live' = Live
    BY <2>1 DEF Live
  <2>3. QED
    BY <2>1, <2>2, SlotsKept
<1>7. CASE Crash \/ PowerLoss
  BY <1>7, SlotsEmptied DEF Crash, PowerLoss, ProcessEnds, TypeOK
<1>8. QED
  BY <1>1, <1>2, <1>3, <1>4, <1>5, <1>6, <1>7 DEF Next

\* The blocking workers of a sink never outnumber its in-flight cap and the stale
\* slots it may reclaim (begin_attempt_at), whatever the caps and however long the
\* disk hangs.
THEOREM WorkersAlwaysBounded == Spec => []WorkersBounded
<1>1. Init => TypeOK /\ Slots
  BY TypeInit, SlotsInit
<1>2. TypeOK /\ Slots /\ [Next]_vars => (TypeOK /\ Slots)'
  BY TypeNext, SlotsNext
<1>3. TypeOK /\ Slots => WorkersBounded
  BY SlotsBound
<1>4. QED
  BY <1>1, <1>2, <1>3, PTL DEF Spec

-----------------------------------------------------------------------------
(* Acknowledged records *)

\* The mutex has one holder, and the line a worker syncs is the last of the file.
Writer ==
  /\ \A i, j \in Ids : worker[i] \in Holding /\ worker[j] \in Holding => i = j
  /\ \A i \in Ids : worker[i] = "syncing" =>
       Len(file) > 0 /\ file[Len(file)] = [id |-> i, whole |-> TRUE]

LEMMA WriterKept ==
  ASSUME Writer, UNCHANGED file, \A i \in Ids : worker'[i] \in Holding => worker'[i] = worker[i]
  PROVE  Writer'
BY DEF Writer, Holding

LEMMA WriterNext == TypeOK /\ Slots /\ Writer /\ [Next]_vars => Writer'
<1> SUFFICES ASSUME TypeOK, Slots, Writer, [Next]_vars PROVE Writer'
  OBVIOUS
<1> USE DEF Holding
<1>1. CASE UNCHANGED <<file, worker>>
  BY <1>1, WriterKept
<1>2. CASE BeginAppend
  <2>1. \A i \in Ids : worker'[i] = worker[i] \/ worker'[i] = "queued"
    BY <1>2 DEF BeginAppend, TypeOK
  <2>2. file' = file
    BY <1>2 DEF BeginAppend
  <2>3. QED
    BY <2>1, <2>2, WriterKept
<1>3. CASE \E i \in Ids : WorkerStep(i)
  <2> PICK i \in Ids : WorkerStep(i)
    BY <1>3
  <2>1. CASE Lock(i) \/ Sync(i)
    <3>1. file' = file
      BY <2>1 DEF Lock, Sync
    <3>2. \A j \in Ids : j # i => worker'[j] = worker[j]
      BY <2>1 DEF Lock, Sync, End, TypeOK
    <3>3. CASE worker'[i] = "none"
      BY <3>1, <3>2, <3>3, WriterKept
    <3>4. CASE worker'[i] = "writing" /\ ~WriterBusy
      BY <3>1, <3>2, <3>4 DEF Writer, WriterBusy
    <3>5. QED
      BY <2>1, <3>3, <3>4 DEF Lock, Sync, End, TypeOK
  <2>2. CASE Write(i) \/ Panic(i)
    <3>1. \A j \in Ids : j # i => worker'[j] = worker[j] /\ worker[j] \notin Holding
      BY <2>2 DEF Write, Panic, End, TypeOK, Writer
    <3>2. CASE worker'[i] = "none"
      BY <3>1, <3>2 DEF Writer
    <3>3. CASE worker'[i] = "syncing" /\ file' = Append(file, [id |-> i, whole |-> TRUE])
      <4>1. [id |-> i, whole |-> TRUE] \in Line
        BY DEF Line
      <4>2. Len(file') > 0 /\ file'[Len(file')] = [id |-> i, whole |-> TRUE]
        BY <3>3, <4>1, AppendType, FileType
      <4>3. QED
        BY <3>1, <3>3, <4>2 DEF Writer
    <3>4. QED
      BY <2>2, <3>2, <3>3 DEF Write, Panic, End, TypeOK
  <2>3. QED
    BY <2>1, <2>2 DEF WorkerStep
<1>4. CASE Crash \/ PowerLoss
  BY <1>4 DEF Crash, PowerLoss, ProcessEnds, Writer
<1>5. CASE Recover
  <2>1. \A i \in Ids : worker'[i] = "none"
    BY <1>5 DEF Recover, Slots, Live
  <2>2. QED
    BY <2>1 DEF Writer
<1>6. QED
  BY <1>1, <1>2, <1>3, <1>4, <1>5
     DEF Next, vars, Open, RefuseBusy, GiveUp, GoStale

\* The durable prefix only grows and nobody new is acknowledged.
LEMMA AckedKept ==
  ASSUME TypeOK, AckedIsDurable, durable' \in Nat, durable <= durable',
         \A k \in 1 .. durable : file'[k] = file[k],
         \A i \in Ids : caller'[i] = "ok" => caller[i] = "ok"
  PROVE  AckedIsDurable'
<1> SUFFICES ASSUME NEW i \in Ids, caller'[i] = "ok"
             PROVE  \E k \in 1 .. durable' : file'[k] = [id |-> i, whole |-> TRUE]
  BY DEF AckedIsDurable
<1>1. PICK k \in 1 .. durable : file[k] = [id |-> i, whole |-> TRUE]
  BY DEF AckedIsDurable
<1>2. k \in 1 .. durable' /\ file'[k] = [id |-> i, whole |-> TRUE]
  BY <1>1, FileType
<1>3. QED
  BY <1>2

LEMMA PartialKeeps ==
  ASSUME TypeOK, NEW i \in Ids, NEW f \in Partial(i)
  PROVE  \A k \in 1 .. durable : f[k] = file[k]
<1>1. CASE f = Append(file, [id |-> i, whole |-> FALSE])
  <2>1. [id |-> i, whole |-> FALSE] \in Line
    BY DEF Line
  <2>2. \A k \in 1 .. durable : k \in 1 .. Len(file)
    BY FileType
  <2>3. QED
    BY <1>1, <2>1, <2>2, AppendType, FileType
<1>2. QED
  BY <1>1 DEF Partial

LEMMA AckedWorker ==
  ASSUME TypeOK, Writer, AckedIsDurable, NEW i \in Ids, WorkerStep(i)
  PROVE  AckedIsDurable'
<1>1. CASE Lock(i)
  <2>1. UNCHANGED <<file, durable>>
    BY <1>1 DEF Lock
  <2>2. \A j \in Ids : caller'[j] = "ok" => caller[j] = "ok"
    BY <1>1 DEF Lock, End, TypeOK
  <2>3. QED
    BY <2>1, <2>2, AckedKept, FileType
<1>2. CASE Write(i) \/ Panic(i)
  <2>1. durable' = durable
    BY <1>2 DEF Write, Panic
  <2>2. \A j \in Ids : caller'[j] = "ok" => caller[j] = "ok"
    BY <1>2 DEF Write, Panic, End, TypeOK
  <2>3. \A k \in 1 .. durable : file'[k] = file[k]
    <3>1. CASE file' = Append(file, [id |-> i, whole |-> TRUE])
      <4>1. [id |-> i, whole |-> TRUE] \in Line
        BY DEF Line
      <4>2. \A k \in 1 .. durable : k \in 1 .. Len(file)
        BY FileType
      <4>3. QED
        BY <3>1, <4>1, <4>2, AppendType, FileType
    <3>2. CASE file' \in Partial(i)
      BY <3>2, PartialKeeps
    <3>3. QED
      BY <1>2, <3>1, <3>2 DEF Write, Panic
  <2>4. QED
    BY <2>1, <2>2, <2>3, AckedKept, FileType
<1>3. CASE Sync(i)
  <2>1. CASE durable' = Len(file) /\ End(i, "ok")
    <3>1. file' = file
      BY <1>3 DEF Sync
    <3>2. Len(file) \in 1 .. durable' /\ file[Len(file)] = [id |-> i, whole |-> TRUE]
      BY <1>3, <2>1, FileType DEF Sync, Writer
    <3>3. \A j \in Ids : j # i /\ caller'[j] = "ok" => caller[j] = "ok"
      BY <2>1 DEF End, TypeOK
    <3>4. ASSUME NEW j \in Ids, caller'[j] = "ok"
          PROVE  \E k \in 1 .. durable' : file'[k] = [id |-> j, whole |-> TRUE]
      <4>1. CASE j = i
        BY <3>1, <3>2, <4>1
      <4>2. CASE j # i
        <5>1. PICK k \in 1 .. durable : file[k] = [id |-> j, whole |-> TRUE]
          BY <3>3, <3>4, <4>2 DEF AckedIsDurable
        <5>2. k \in 1 .. durable'
          BY <2>1, FileType
        <5>3. QED
          BY <3>1, <5>1, <5>2
      <4>3. QED
        BY <4>1, <4>2
    <3>5. QED
      BY <3>4 DEF AckedIsDurable
  <2>2. CASE End(i, "error") /\ UNCHANGED durable
    <3>1. file' = file /\ \A j \in Ids : caller'[j] = "ok" => caller[j] = "ok"
      BY <1>3, <2>2 DEF Sync, End, TypeOK
    <3>2. QED
      BY <2>2, <3>1, AckedKept, FileType
  <2>3. QED
    BY <1>3, <2>1, <2>2 DEF Sync
<1>4. QED
  BY <1>1, <1>2, <1>3 DEF WorkerStep

LEMMA AckedFaults ==
  ASSUME TypeOK, AckedIsDurable, Crash \/ PowerLoss \/ Recover
  PROVE  AckedIsDurable'
<1>1. CASE Crash \/ PowerLoss
  <2>1. durable' = durable
    BY <1>1 DEF Crash, PowerLoss
  <2>2. \A j \in Ids : caller'[j] = "ok" => caller[j] = "ok"
    BY <1>1 DEF Crash, PowerLoss, ProcessEnds
  <2>3. \A k \in 1 .. durable : file'[k] = file[k]
    <3>1. CASE Crash
      BY <3>1, PartialKeeps DEF Crash
    <3>2. CASE PowerLoss
      <4>1. PICK n \in durable .. Len(file) :
              \/ file' = SubSeq(file, 1, n)
              \/ /\ n > durable
                 /\ file' = Append(SubSeq(file, 1, n - 1), [id |-> file[n].id, whole |-> FALSE])
        BY <3>2 DEF PowerLoss
      <4>2. CASE file' = SubSeq(file, 1, n)
        <5>1. n \in 0 .. Len(file) /\ \A k \in 1 .. durable : k \in 1 .. n
          BY FileType
        <5>2. QED
          BY <4>2, <5>1, PrefixType, FileType
      <4>3. CASE /\ n > durable
                 /\ file' = Append(SubSeq(file, 1, n - 1), [id |-> file[n].id, whole |-> FALSE])
        <5>1. n - 1 \in 0 .. Len(file) /\ n \in 1 .. Len(file)
          BY <4>3, FileType
        <5>2. [id |-> file[n].id, whole |-> FALSE] \in Line
          BY <5>1, FileType DEF Line
        <5>3. \A k \in 1 .. durable : k \in 1 .. n - 1
          BY <4>3, FileType
        <5>4. QED
          BY <4>3, <5>1, <5>2, <5>3, PrefixType, AppendType, FileType
      <4>4. QED
        BY <4>1, <4>2, <4>3
    <3>3. QED
      BY <1>1, <3>1, <3>2
  <2>4. QED
    BY <2>1, <2>2, <2>3, AckedKept, FileType
<1>2. CASE Recover
  <2> SUFFICES ASSUME NEW i \in Ids, caller'[i] = "ok"
               PROVE  \E k \in 1 .. durable' : file'[k] = [id |-> i, whole |-> TRUE]
    BY DEF AckedIsDurable
  <2>1. PICK k \in 1 .. durable : file[k] = [id |-> i, whole |-> TRUE]
    BY <1>2 DEF Recover, AckedIsDurable
  <2>2. k \in 1 .. Len(file) /\ k # Len(file)
    BY <1>2, <2>1, FileType DEF Recover, Torn
  <2>3. k \in 1 .. Len(file) - 1 /\ Len(file) - 1 \in 0 .. Len(file)
    BY <2>2, FileType
  <2>4. k \in 1 .. durable'
    BY <1>2, <2>3, FileType DEF Recover
  <2>5. file'[k] = file[k]
    BY <1>2, <2>3, PrefixType, FileType DEF Recover
  <2>6. QED
    BY <2>1, <2>4, <2>5
<1>3. QED
  BY <1>1, <1>2

LEMMA AckedNext ==
  TypeOK /\ Writer /\ AckedIsDurable /\ [Next]_vars => AckedIsDurable'
<1> SUFFICES ASSUME TypeOK, Writer, AckedIsDurable, [Next]_vars PROVE AckedIsDurable'
  OBVIOUS
<1>1. CASE UNCHANGED vars
  BY <1>1, AckedKept, FileType DEF vars
<1>2. CASE Open
  BY <1>2, AckedKept, FileType DEF Open
<1>3. CASE RefuseBusy \/ BeginAppend \/ \E i \in Ids : GiveUp(i) \/ GoStale(i)
  <2>1. UNCHANGED <<file, durable>>
    BY <1>3 DEF RefuseBusy, BeginAppend, GiveUp, GoStale
  <2>2. \A j \in Ids : caller'[j] = "ok" => caller[j] = "ok"
    BY <1>3 DEF RefuseBusy, BeginAppend, GiveUp, GoStale, TypeOK
  <2>3. QED
    BY <2>1, <2>2, AckedKept, FileType
<1>4. CASE \E i \in Ids : WorkerStep(i)
  BY <1>4, AckedWorker
<1>5. CASE Crash \/ PowerLoss \/ Recover
  BY <1>5, AckedFaults
<1>6. QED
  BY <1>1, <1>2, <1>3, <1>4, <1>5 DEF Next

\* A record whose append returned Ok stays in the trail as a whole line through
\* every later failure, crash, power loss and recovery (write_line syncs before it
\* answers), for every number of appends, starts and faults.
THEOREM AckedAlwaysDurable == Spec => []AckedIsDurable
<1>1. Init => TypeOK /\ Slots /\ Writer /\ AckedIsDurable
  BY TypeInit, SlotsInit DEF Init, Writer, AckedIsDurable, Holding
<1>2. TypeOK /\ Slots /\ Writer /\ AckedIsDurable /\ [Next]_vars
        => (TypeOK /\ Slots /\ Writer /\ AckedIsDurable)'
  BY TypeNext, SlotsNext, WriterNext, AckedNext
<1>3. QED
  BY <1>1, <1>2, PTL DEF Spec
-----------------------------------------------------------------------------
(* The shape of the trail *)

\* A holder of the mutex has marked the sink failed until its line is synced, and
\* found the trail whole; a torn trail is a failed sink's, or nobody has it open.
Guarded ==
  /\ \A i \in Ids : worker[i] \in Holding => failed /\ ~Torn
  /\ up /\ Torn => failed

\* What the steps do to the file: it stays, a line is added at its end, or it is cut
\* and its last line may be left in part.
Grown(i) == \E w \in BOOLEAN : file' = Append(file, [id |-> i, whole |-> w])

Cut ==
  /\ Len(file') <= Len(file)
  /\ \A k \in 1 .. Len(file') :
       /\ file'[k].id = file[k].id
       /\ k < Len(file') => file'[k] = file[k]

LEMMA GrownIs ==
  ASSUME TypeOK, NEW i \in Ids, Grown(i)
  PROVE  /\ Len(file') = Len(file) + 1
         /\ \A k \in 1 .. Len(file) : file'[k] = file[k]
         /\ file'[Len(file')].id = i
<1>1. PICK w \in BOOLEAN : file' = Append(file, [id |-> i, whole |-> w])
  BY DEF Grown
<1>2. [id |-> i, whole |-> w] \in Line
  BY DEF Line
<1>3. QED
  BY <1>1, <1>2, AppendType, FileType

LEMMA PartialGrows ==
  ASSUME NEW i \in Ids, file' \in Partial(i)
  PROVE  file' = file \/ Grown(i)
BY DEF Partial, Grown

LEMMA LossCuts ==
  ASSUME TypeOK, PowerLoss \/ Recover
  PROVE  Cut
<1>1. CASE PowerLoss
  <2>1. PICK n \in durable .. Len(file) :
          \/ file' = SubSeq(file, 1, n)
          \/ /\ n > durable
             /\ file' = Append(SubSeq(file, 1, n - 1), [id |-> file[n].id, whole |-> FALSE])
    BY <1>1 DEF PowerLoss
  <2>2. CASE file' = SubSeq(file, 1, n)
    <3>1. n \in 0 .. Len(file)
      BY FileType
    <3>2. QED
      BY <2>2, <3>1, PrefixType, FileType DEF Cut
  <2>3. CASE /\ n > durable
             /\ file' = Append(SubSeq(file, 1, n - 1), [id |-> file[n].id, whole |-> FALSE])
    <3>1. n - 1 \in 0 .. Len(file) /\ n \in 1 .. Len(file)
      BY <2>3, FileType
    <3>2. [id |-> file[n].id, whole |-> FALSE] \in Line
      BY <3>1, FileType DEF Line
    <3>3. /\ Len(file') = n
          /\ \A k \in 1 .. n - 1 : file'[k] = file[k]
          /\ file'[n].id = file[n].id
      BY <2>3, <3>1, <3>2, PrefixType, AppendType, FileType
    <3>4. QED
      BY <3>1, <3>3, FileType DEF Cut
  <2>4. QED
    BY <2>1, <2>2, <2>3
<1>2. CASE Recover
  <2>1. Len(file) - 1 \in 0 .. Len(file)
    BY <1>2, FileType DEF Recover, Torn
  <2>2. QED
    BY <1>2, <2>1, PrefixType, FileType DEF Recover, Cut
<1>3. QED
  BY <1>1, <1>2

\* A cut trail has nothing after a torn line if it had nothing before.
LEMMA CutWhole ==
  ASSUME TypeOK, TypeOK', NothingAfterTorn, Cut
  PROVE  NothingAfterTorn'
<1> SUFFICES ASSUME NEW k \in 1 .. Len(file'), k # Len(file')
             PROVE  file'[k].whole
  BY DEF NothingAfterTorn
<1>1. k < Len(file') /\ k \in 1 .. Len(file) /\ k # Len(file) /\ file'[k] = file[k]
  BY FileType DEF Cut, TypeOK
<1>2. QED
  BY <1>1 DEF NothingAfterTorn

\* A line added to a whole trail leaves none behind a torn one.
LEMMA GrownWhole ==
  ASSUME TypeOK, NothingAfterTorn, ~Torn, NEW i \in Ids, Grown(i)
  PROVE  NothingAfterTorn'
<1> SUFFICES ASSUME NEW k \in 1 .. Len(file'), k # Len(file')
             PROVE  file'[k].whole
  BY DEF NothingAfterTorn
<1>1. k \in 1 .. Len(file) /\ file'[k] = file[k]
  BY GrownIs, FileType
<1>2. QED
  BY <1>1, FileType DEF NothingAfterTorn, Torn

LEMMA GuardedWorker ==
  ASSUME TypeOK, Writer, Slots, Guarded, NothingAfterTorn, NEW i \in Ids, WorkerStep(i)
  PROVE  Guarded' /\ NothingAfterTorn'
<1> USE DEF Holding
<1>1. CASE Lock(i)
  <2>1. UNCHANGED <<file, up>> /\ Torn' = Torn
    BY <1>1 DEF Lock, Torn
  <2>2. NothingAfterTorn'
    BY <2>1 DEF NothingAfterTorn
  <2>3. CASE poisoned \/ failed
    <3>1. failed' = failed /\ \A j \in Ids : worker'[j] \in Holding => worker[j] \in Holding
      BY <1>1, <2>3 DEF Lock, End, TypeOK
    <3>2. QED
      BY <2>1, <2>2, <3>1 DEF Guarded
  <2>4. CASE ~(poisoned \/ failed)
    <3>1. up
      BY <1>1 DEF Lock, Slots, Live
    <3>2. ~Torn /\ failed'
      BY <1>1, <2>4, <3>1 DEF Guarded, Lock
    <3>3. QED
      BY <2>1, <2>2, <3>2 DEF Guarded
  <2>5. QED
    BY <2>3, <2>4
<1>2. CASE Write(i) \/ Panic(i)
  <2>1. /\ worker[i] \in Holding /\ failed /\ ~Torn /\ failed' = failed
        /\ \A j \in Ids : j # i => worker'[j] \notin Holding
    BY <1>2 DEF Write, Panic, End, TypeOK, Writer, Guarded
  <2>2. CASE file' = Append(file, [id |-> i, whole |-> TRUE]) /\ Write(i)
    <3>1. Grown(i)
      BY <2>2 DEF Grown
    <3>2. [id |-> i, whole |-> TRUE] \in Line
      BY DEF Line
    <3>3. ~Torn'
      BY <2>2, <3>2, AppendType, FileType DEF Torn
    <3>4. QED
      BY <2>1, <3>1, <3>3, GrownWhole DEF Guarded
  <2>3. CASE file' \in Partial(i) /\ worker'[i] = "none"
    <3>1. NothingAfterTorn'
      BY <2>1, <2>3, PartialGrows, GrownWhole DEF NothingAfterTorn
    <3>2. QED
      BY <2>1, <2>3, <3>1 DEF Guarded
  <2>4. QED
    BY <1>2, <2>2, <2>3 DEF Write, Panic, End, TypeOK
<1>3. CASE Sync(i)
  <2>1. UNCHANGED <<file, up>> /\ Torn' = Torn /\ ~Torn
    BY <1>3 DEF Sync, Torn, Guarded
  <2>2. \A j \in Ids : worker'[j] \notin Holding
    BY <1>3 DEF Sync, End, TypeOK, Writer
  <2>3. QED
    BY <2>1, <2>2 DEF Guarded, NothingAfterTorn
<1>4. QED
  BY <1>1, <1>2, <1>3 DEF WorkerStep

LEMMA GuardedNext ==
  TypeOK /\ Slots /\ Writer /\ Guarded /\ NothingAfterTorn /\ [Next]_vars
    => Guarded' /\ NothingAfterTorn'
<1> SUFFICES ASSUME TypeOK, Slots, Writer, Guarded, NothingAfterTorn, [Next]_vars
             PROVE  Guarded' /\ NothingAfterTorn'
  OBVIOUS
<1> USE DEF Holding
<1>t. TypeOK'
  BY TypeNext
<1>1. ASSUME UNCHANGED <<file, failed, up>>,
             \A i \in Ids : worker'[i] \in Holding => worker[i] \in Holding
      PROVE  Guarded' /\ NothingAfterTorn'
  BY <1>1 DEF Guarded, NothingAfterTorn, Torn
<1>2. CASE UNCHANGED vars
  BY <1>1, <1>2 DEF vars
<1>3. CASE Open
  <2>1. \A i \in Ids : worker'[i] = "none"
    BY <1>3 DEF Open, Slots, Live
  <2>2. ~Torn' /\ NothingAfterTorn'
    BY <1>3 DEF Open, Torn, NothingAfterTorn
  <2>3. QED
    BY <2>1, <2>2 DEF Guarded
<1>4. CASE RefuseBusy \/ BeginAppend \/ \E i \in Ids : GiveUp(i) \/ GoStale(i)
  BY <1>1, <1>4 DEF RefuseBusy, BeginAppend, GiveUp, GoStale, TypeOK
<1>5. CASE \E i \in Ids : WorkerStep(i)
  BY <1>5, GuardedWorker
<1>6. CASE Crash \/ PowerLoss \/ Recover
  <2>1. ~up' /\ \A i \in Ids : worker'[i] = "none"
    BY <1>6 DEF Crash, PowerLoss, Recover, ProcessEnds, Slots, Live
  <2>2. NothingAfterTorn'
    <3>1. CASE Crash /\ file' = file
      BY <3>1 DEF NothingAfterTorn
    <3>2. CASE \E i \in Ids : worker[i] = "writing" /\ file' \in Partial(i)
      BY <3>2, PartialGrows, GrownWhole DEF Guarded, NothingAfterTorn
    <3>3. CASE PowerLoss \/ Recover
      BY <1>t, <3>3, LossCuts, CutWhole
    <3>4. QED
      BY <1>6, <3>1, <3>2, <3>3 DEF Crash
  <2>3. QED
    BY <2>1, <2>2 DEF Guarded
<1>7. QED
  BY <1>2, <1>3, <1>4, <1>5, <1>6 DEF Next

\* No line ever follows a partial one, in this run of the daemon or the next: whoever
\* leaves one has marked the sink failed (write_line), and a torn trail is not opened
\* (open_pinned_with), whatever fails in between.
THEOREM NeverAfterTorn == Spec => []NothingAfterTorn
<1> DEFINE Inv == TypeOK /\ Slots /\ Writer /\ Guarded /\ NothingAfterTorn
<1>1. Init => Inv
  BY TypeInit, SlotsInit DEF Init, Writer, Guarded, NothingAfterTorn, Holding, Torn
<1>2. Inv /\ [Next]_vars => Inv'
  BY TypeNext, SlotsNext, WriterNext, GuardedNext
<1>3. QED
  BY <1>1, <1>2, PTL DEF Spec

-----------------------------------------------------------------------------
(* One line per record *)

\* A worker that has still to write is of an admitted attempt and has no line yet;
\* lines are of attempts that were made.
Unwritten ==
  /\ \A i \in Ids : worker[i] # "none" => caller[i] # "refused"
  /\ \A k \in 1 .. Len(file) : /\ file[k].id < next
                               /\ worker[file[k].id] \notin {"queued", "writing"}

\* A cut trail says of no record anything it did not say before.
LEMMA CutOnce ==
  ASSUME TypeOK, TypeOK', AtMostOnce, Unwritten, Cut, next' = next,
         \A i \in Ids : caller'[i] = "refused" => caller[i] = "refused",
         \A i \in Ids : worker'[i] # "none" => worker'[i] = worker[i]
  PROVE  AtMostOnce' /\ Unwritten'
<1>1. \A k \in 1 .. Len(file') : /\ k \in 1 .. Len(file)
                                 /\ file'[k].id = file[k].id /\ file[k].id \in Ids
  BY FileType DEF Cut, TypeOK, Line
<1>2. AtMostOnce'
  BY <1>1 DEF AtMostOnce
<1>3. Unwritten'
  BY <1>1 DEF Unwritten
<1>4. QED
  BY <1>2, <1>3

\* The trail stays as it is.
LEMMA SameOnce ==
  ASSUME TypeOK, TypeOK', AtMostOnce, Unwritten, UNCHANGED <<file, next>>,
         \A i \in Ids : caller'[i] = "refused" => caller[i] = "refused",
         \A i \in Ids : worker'[i] # "none" =>
           worker[i] # "none" /\ (worker'[i] \in {"queued", "writing"} => worker[i] \in {"queued", "writing"})
  PROVE  AtMostOnce' /\ Unwritten'
<1>1. \A k \in 1 .. Len(file) : file[k].id \in Ids
  BY FileType DEF Line
<1>2. QED
  BY <1>1 DEF AtMostOnce, Unwritten

\* A worker writes the one line of its record.
LEMMA GrownOnce ==
  ASSUME TypeOK, TypeOK', Slots, AtMostOnce, Unwritten, next' = next,
         NEW i \in Ids, Grown(i), worker[i] = "writing",
         worker'[i] \notin {"queued", "writing"}, caller'[i] # "refused",
         \A j \in Ids : caller'[j] = "refused" => caller[j] = "refused",
         \A j \in Ids \ {i} : worker'[j] # "none" => worker'[j] = worker[j]
  PROVE  AtMostOnce' /\ Unwritten'
<1>1. /\ Len(file) \in Nat /\ Len(file') = Len(file) + 1
      /\ \A k \in 1 .. Len(file) : file'[k] = file[k] /\ file[k].id \in Ids /\ file[k].id # i
      /\ file'[Len(file) + 1].id = i
  BY GrownIs, FileType DEF Line, Unwritten
<1>2. i < next /\ caller[i] # "refused"
  BY DEF Slots, TypeOK, Ids, Unwritten
<1>3. \A k \in 1 .. Len(file') : k \in 1 .. Len(file) \/ k = Len(file) + 1
  BY <1>1
<1>4. AtMostOnce'
  <2>1. ASSUME NEW j \in 1 .. Len(file'), NEW k \in 1 .. Len(file'), file'[j].id = file'[k].id
        PROVE  j = k
    <3>1. CASE j \in 1 .. Len(file) /\ k \in 1 .. Len(file)
      BY <1>1, <2>1, <3>1 DEF AtMostOnce
    <3>2. CASE j = Len(file) + 1 \/ k = Len(file) + 1
      BY <1>1, <1>3, <2>1, <3>2
    <3>3. QED
      BY <1>3, <3>1, <3>2
  <2>2. ASSUME NEW k \in 1 .. Len(file')
        PROVE  caller'[file'[k].id] # "refused"
    BY <1>1, <1>3 DEF AtMostOnce
  <2>3. QED
    BY <2>1, <2>2 DEF AtMostOnce
<1>5. Unwritten'
  <2>1. ASSUME NEW k \in 1 .. Len(file')
        PROVE  file'[k].id < next' /\ worker'[file'[k].id] \notin {"queued", "writing"}
    BY <1>1, <1>2, <1>3 DEF Unwritten
  <2>2. \A j \in Ids : worker'[j] # "none" => caller'[j] # "refused"
    BY DEF Unwritten
  <2>3. QED
    BY <2>1, <2>2 DEF Unwritten
<1>6. QED
  BY <1>4, <1>5

\* An attempt that begins is new to the trail.
LEMMA BeginOnce ==
  ASSUME TypeOK, TypeOK', Slots, AtMostOnce, Unwritten, RefuseBusy \/ BeginAppend
  PROVE  AtMostOnce' /\ Unwritten'
<1>1. next \in Ids /\ next' = next + 1 /\ file' = file
  BY DEF RefuseBusy, BeginAppend
<1>2. /\ \A j \in Ids : j # next => caller'[j] = caller[j] /\ worker'[j] = worker[j]
      /\ worker'[next] # "none" => caller'[next] # "refused"
  <2>1. worker[next] = "none"
    BY <1>1 DEF Slots, TypeOK, Ids
  <2>2. QED
    BY <1>1, <2>1 DEF RefuseBusy, BeginAppend, TypeOK
<1>3. \A k \in 1 .. Len(file) : file[k].id \in Ids /\ file[k].id < next /\ file[k].id # next
  BY <1>1, FileType DEF Unwritten, Line, Ids
<1>4. AtMostOnce'
  BY <1>1, <1>2, <1>3 DEF AtMostOnce
<1>5. Unwritten'
  BY <1>1, <1>2, <1>3 DEF Unwritten, Ids
<1>6. QED
  BY <1>4, <1>5

LEMMA OnceWorker ==
  ASSUME TypeOK, TypeOK', Slots, AtMostOnce, Unwritten, NEW i \in Ids, WorkerStep(i)
  PROVE  AtMostOnce' /\ Unwritten'
<1>1. /\ next' = next
      /\ \A j \in Ids : caller'[j] = "refused" => caller[j] = "refused"
      /\ \A j \in Ids \ {i} : worker'[j] = worker[j]
      /\ worker[i] # "none"
  BY DEF WorkerStep, Lock, Write, Sync, Panic, End, TypeOK
<1>2. CASE Lock(i) \/ Sync(i)
  <2>1. file' = file
    BY <1>2 DEF Lock, Sync
  <2>2. worker'[i] \in {"queued", "writing"} => worker[i] \in {"queued", "writing"}
    BY <1>2 DEF Lock, Sync, End, TypeOK
  <2>3. QED
    BY <1>1, <2>1, <2>2, SameOnce
<1>3. CASE Write(i) \/ Panic(i)
  <2>1. /\ worker[i] = "writing" /\ worker'[i] \notin {"queued", "writing"}
        /\ caller'[i] # "refused"
    BY <1>1, <1>3 DEF Write, Panic, End, TypeOK, Unwritten
  <2>2. CASE file' = file
    BY <1>1, <2>1, <2>2, SameOnce
  <2>3. CASE Grown(i)
    BY <1>1, <2>1, <2>3, GrownOnce
  <2>4. file' = file \/ Grown(i)
    BY <1>3, PartialGrows DEF Write, Panic, Grown
  <2>5. QED
    BY <2>2, <2>3, <2>4
<1>4. QED
  BY <1>2, <1>3 DEF WorkerStep

LEMMA OnceNext ==
  TypeOK /\ Slots /\ AtMostOnce /\ Unwritten /\ [Next]_vars => AtMostOnce' /\ Unwritten'
<1> SUFFICES ASSUME TypeOK, Slots, AtMostOnce, Unwritten, [Next]_vars
             PROVE  AtMostOnce' /\ Unwritten'
  OBVIOUS
<1>t. TypeOK'
  BY TypeNext
<1>1. CASE UNCHANGED vars
  BY <1>t, <1>1, SameOnce DEF vars
<1>2. CASE Open
  BY <1>t, <1>2, SameOnce DEF Open
<1>3. CASE RefuseBusy \/ BeginAppend
  BY <1>t, <1>3, BeginOnce
<1>4. CASE \E i \in Ids : WorkerStep(i)
  BY <1>t, <1>4, OnceWorker
<1>5. CASE \E i \in Ids : GiveUp(i) \/ GoStale(i)
  <2>1. UNCHANGED <<file, next, worker>>
    BY <1>5 DEF GiveUp, GoStale
  <2>2. \A j \in Ids : caller'[j] = "refused" => caller[j] = "refused"
    BY <1>5 DEF GiveUp, GoStale, TypeOK
  <2>3. QED
    BY <1>t, <2>1, <2>2, SameOnce
<1>6. CASE Crash \/ PowerLoss \/ Recover
  <2>1. /\ next' = next
        /\ \A j \in Ids : worker'[j] = "none"
        /\ \A j \in Ids : caller'[j] = "refused" => caller[j] = "refused"
    BY <1>6 DEF Crash, PowerLoss, Recover, ProcessEnds, Slots, Live
  <2>2. CASE file' = file
    BY <1>t, <2>1, <2>2, SameOnce
  <2>3. CASE \E i \in Ids : worker[i] = "writing" /\ Grown(i)
    BY <1>t, <2>1, <2>3, GrownOnce DEF Unwritten
  <2>4. CASE Cut
    BY <1>t, <2>1, <2>4, CutOnce
  <2>5. QED
    BY <1>6, <2>2, <2>3, <2>4, LossCuts, PartialGrows DEF Crash
<1>7. QED
  BY <1>1, <1>2, <1>3, <1>4, <1>5, <1>6 DEF Next

\* A record is in the trail at most once, and never when its append was refused before
\* a worker was spawned: a caller that falls back to another sink after a refusal
\* does not duplicate it, through every crash, power loss and recovery.
THEOREM AlwaysAtMostOnce == Spec => []AtMostOnce
<1> DEFINE Inv == TypeOK /\ Slots /\ AtMostOnce /\ Unwritten
<1>1. Init => Inv
  BY TypeInit, SlotsInit DEF Init, AtMostOnce, Unwritten
<1>2. Inv /\ [Next]_vars => Inv'
  BY TypeNext, SlotsNext, OnceNext
<1>3. QED
  BY <1>1, <1>2, PTL DEF Spec
=============================================================================
