--------------------------- MODULE MutationProofs ---------------------------
(***************************************************************************)
(* Filesystem attempts, for every set of requests, every tree, every limit *)
(* and every report a peer can send: the protocol keeps the ledger, what   *)
(* is recorded was granted, what is told is recorded, every granted        *)
(* attempt leaves an end, and the gate counts what runs.                   *)
(***************************************************************************)
EXTENDS Mutation, SequenceTheorems, FiniteSetTheorems, TLAPS

-----------------------------------------------------------------------------
(* Types *)

KernPcs == {"idle", "prep", "refuse", "intent", "grant", "read", "record", "ack",
            "incomplete", "over"}

KernType == [pc : KernPcs, idx : Nat, seen : SUBSET Seq(STRING), term : BOOLEAN,
             pend : Reports \union {None}, permit : BOOLEAN]

Records == Reports \union {Intent, Deny, Incomplete}

Frames == {None, Deny, [t |-> "grant"]} \union [t : {"ack"}, at : Nat]

CliType == [pc : Waiting \union {"peer", "gone", "done"}, idx : Nat, seen : SUBSET Tree,
            finish : Outcomes \union {"none"}]

StackType == Seq([dir : Tree, todo : SUBSET Tree])

WkType == [pc : {"idle", "aim", "armed", "ret"}, stack : StackType, at : Nat,
           target : Tree \union {NoPath}, closing : BOOLEAN,
           effect : Tree \union {NoPath}, finish : Outcomes \union {"none"}]

\* The types of the parts that the counting of permits does not touch.
Typed ==
  /\ op \in [Requests -> Ops]
  /\ up \in BOOLEAN
  /\ prep \in [Requests -> {"none", "running", "orphan"}]
  /\ kern \in [Requests -> KernType]
  /\ trail \in [Requests -> SUBSET Records]
  /\ landing \in [Requests -> SUBSET Records]
  /\ lost \in [Requests -> BOOLEAN]
  /\ toCli \in [Requests -> Frames]
  /\ toKern \in [Requests -> Reports \union {None}]
  /\ open \in [Requests -> BOOLEAN]
  /\ cli \in [Requests -> CliType]
  /\ wk \in [Requests -> WkType]
  /\ disk \in [Requests -> SUBSET Tree]
  /\ eff \in [Requests -> Seq(Tree)]
  /\ late \in [Requests -> SUBSET {"kern", "cli"}]
  /\ other \in [Requests -> 0 .. MaxOther]

-----------------------------------------------------------------------------
(* Turns: whose move it is on a connection *)

Granted == {"read", "record", "ack", "incomplete", "over"}
Resting == {"read", "incomplete", "over"}

\* One frame is under way at a time, and each side's place bounds the other's.
Turn(r) ==
  /\ kern[r].pc = "record" => kern[r].pend # None
  /\ toCli[r].t \in {"grant", "ack"} => toKern[r] = None /\ kern[r].pc \in Resting
  /\ toKern[r] # None => kern[r].pc \in Resting
  /\ ~open[r] => toCli[r] = None
  /\ cli[r].pc = "peer" <=> r \notin Faithful
  /\ cli[r].pc \in {"gone", "done"} => ~open[r]
  /\ cli[r].pc = "wait" => /\ toKern[r] = None /\ kern[r].pc \notin {"record", "ack"}
                           /\ toCli[r].t # "ack"
  /\ cli[r].pc = "step" => /\ toKern[r] = None /\ toCli[r] = None /\ kern[r].pc \in Resting
  /\ cli[r].pc \in {"batch", "finish"} => kern[r].pc \in Granted /\ toCli[r].t # "grant"

\* The worker is busy only inside a step, and holds what its step did.
Work(r) ==
  /\ cli[r].pc \in {"peer", "wait"} => wk[r] = Idle /\ eff[r] = <<>> /\ cli[r].idx = 0
  /\ cli[r].pc = "step" => wk[r].pc # "idle"
  /\ cli[r].pc \in {"batch", "finish", "done"} => wk[r].pc = "idle"
  /\ wk[r].pc # "ret" => wk[r].effect = NoPath /\ wk[r].finish = "none"
  /\ wk[r].pc = "armed" => wk[r].target # NoPath /\ (wk[r].closing => wk[r].stack # <<>>)
  /\ wk[r].pc = "ret" => wk[r].effect # NoPath \/ wk[r].finish # "none"
  /\ wk[r].at \in 1 .. Len(Chain) + 1
  /\ wk[r].at = Len(Chain) + 1 =>
       \/ wk[r].pc = "ret" /\ wk[r].finish # "none"
       \/ /\ wk[r].pc = "idle" /\ cli[r].pc \in {"batch", "finish", "done", "gone"}
          /\ cli[r].pc = "batch" => cli[r].finish # "none"

TurnInv == \A r \in Requests : Turn(r) /\ Work(r)
-----------------------------------------------------------------------------
(* A step of the kernel keeps the types *)

LEMMA FramesTyped ==
  /\ None \in Frames /\ Deny \in Frames /\ [t |-> "grant"] \in Frames
  /\ \A n \in Nat : [t |-> "ack", at |-> n] \in Frames
  /\ Intent \in Records /\ Deny \in Records /\ Incomplete \in Records
  /\ Reports \subseteq Records
  /\ None \notin Reports
BY DEF Frames, None, Deny, Intent, Incomplete, Records, Reports, BatchReports, FinishReports

LEMMA GotoTyped ==
  ASSUME Typed, NEW r \in Requests, NEW pc \in KernPcs, Goto(r, pc)
  PROVE  kern' \in [Requests -> KernType]
<1>1. kern \in [Requests -> KernType]
  BY DEF Typed
<1>2. kern' = [kern EXCEPT ![r].pc = pc]
  BY DEF Goto
<1>. QED  BY <1>1, <1>2 DEF KernType

LEMMA EndsTyped ==
  ASSUME Typed, NEW r \in Requests, Ends(r)
  PROVE  kern' \in [Requests -> KernType] /\ prep' = prep
<1>1. kern \in [Requests -> KernType]
  BY DEF Typed
<1>2. kern' = [kern EXCEPT ![r].pc = "over", ![r].permit = FALSE, ![r].pend = None]
  BY DEF Ends
<1>3. kern[r] \in KernType
  BY <1>1
<1>4. [kern[r] EXCEPT !.pc = "over", !.permit = FALSE, !.pend = None] \in KernType
  BY <1>3 DEF KernType, KernPcs
<1>. QED  BY <1>1, <1>2, <1>4 DEF Ends

LEMMA AppendTyped ==
  ASSUME Typed, NEW r \in Requests, NEW x \in Records, Appended(r, x) \/ AppendFails(r, x)
  PROVE  /\ trail' \in [Requests -> SUBSET Records]
         /\ landing' \in [Requests -> SUBSET Records]
         /\ lost' \in [Requests -> BOOLEAN]
<1>0. /\ trail \in [Requests -> SUBSET Records]
      /\ landing \in [Requests -> SUBSET Records]
      /\ lost \in [Requests -> BOOLEAN]
  BY DEF Typed
<1>1. CASE Appended(r, x)
  BY <1>0, <1>1 DEF Appended
<1>2. CASE AppendFails(r, x)
  <2>1. lost' \in [Requests -> BOOLEAN]
    BY <1>0, <1>2 DEF AppendFails
  <2>2. landing' \in [Requests -> SUBSET Records]
    BY <1>0, <1>2 DEF AppendFails
  <2>. QED  BY <1>0, <1>2, <2>1, <2>2 DEF AppendFails
<1>. QED  BY <1>1, <1>2

LEMMA PathsTyped ==
  ASSUME NEW m \in Reports
  PROVE  PathsOf(m) \in SUBSET Seq(STRING)
<1>1. CASE m.t = "batch"
  <2>1. m \in BatchReports
    BY <1>1 DEF Reports, FinishReports
  <2>2. m.effects \in Seq([path : Seq(STRING), fits : BOOLEAN])
    BY <2>1 DEF BatchReports
  <2>3. \A i \in 1 .. Len(m.effects) : m.effects[i] \in [path : Seq(STRING), fits : BOOLEAN]
    BY <2>2, ElementOfSeq
  <2>4. DOMAIN m.effects = 1 .. Len(m.effects)
    BY <2>2, LenProperties
  <2>. QED  BY <1>1, <2>3, <2>4 DEF PathsOf
<1>2. CASE m.t # "batch"
  BY <1>2 DEF PathsOf
<1>. QED  BY <1>1, <1>2

LEMMA KernelTyped ==
  ASSUME Typed, TurnInv, NEW r \in Requests, KernelStep(r)
  PROVE  Typed'
<1>0. /\ UNCHANGED subject => UNCHANGED <<cli, wk, disk, eff, other>>
      /\ UNCHANGED audit => UNCHANGED <<trail, landing, lost>>
      /\ UNCHANGED gate => UNCHANGED <<claims, permits, prep>>
  BY DEF subject, audit, gate
<1>k. kern \in [Requests -> KernType] /\ kern[r] \in KernType
  BY DEF Typed
<1>t. toCli \in [Requests -> Frames] /\ toKern \in [Requests -> Reports \union {None}]
  BY DEF Typed
<1>1. CASE Turned(r)
  BY <1>1, <1>0, GotoTyped DEF Turned, Typed, KernPcs
<1>2. CASE Admit(r)
  BY <1>2, <1>0, GotoTyped DEF Admit, Typed, KernPcs
<1>3. CASE Prepared(r)
  <2>1. kern' \in [Requests -> KernType]
    <3>1. CASE Goto(r, "refuse")
      BY <3>1, GotoTyped DEF KernPcs
    <3>2. CASE \E pc \in {"refuse", "intent"} :
                 kern' = [kern EXCEPT ![r].pc = pc, ![r].permit = TRUE]
      <4>1. \A pc \in {"refuse", "intent"} :
              [kern[r] EXCEPT !.pc = pc, !.permit = TRUE] \in KernType
        BY <1>k DEF KernType, KernPcs
      <4>. QED  BY <3>2, <4>1, <1>k
    <3>. QED  BY <1>3, <3>1, <3>2 DEF Prepared
  <2>. QED  BY <1>3, <1>0, <2>1 DEF Prepared, Typed
<1>4. CASE PrepTimesOut(r)
  BY <1>4, <1>0, GotoTyped DEF PrepTimesOut, Typed, KernPcs
<1>5. CASE Refuse(r)
  <2>1. toCli' \in [Requests -> Frames]
    BY <1>5, <1>t, FramesTyped DEF Refuse
  <2>2. Appended(r, Deny) \/ AppendFails(r, Deny)
    BY <1>5 DEF Refuse
  <2>. QED  BY <1>5, <1>0, <2>1, <2>2, EndsTyped, AppendTyped, FramesTyped DEF Refuse, Typed
<1>6. CASE CommitIntent(r)
  <2>1. Appended(r, Intent) \/ AppendFails(r, Intent)
    BY <1>6 DEF CommitIntent
  <2>2. kern' \in [Requests -> KernType] /\ prep' = prep
    BY <1>6, <1>0, GotoTyped, EndsTyped DEF CommitIntent, KernPcs
  <2>. QED  BY <1>6, <1>0, <2>1, <2>2, AppendTyped, FramesTyped DEF CommitIntent, Typed
<1>7. CASE SendGrant(r)
  <2>1. toCli' \in [Requests -> Frames]
    BY <1>7, <1>t, FramesTyped DEF SendGrant
  <2>2. kern' \in [Requests -> KernType]
    BY <1>7, GotoTyped DEF SendGrant, KernPcs
  <2>. QED  BY <1>7, <1>0, <2>1, <2>2 DEF SendGrant, Typed
<1>8. CASE ReadReport(r)
  <2>1. kern' \in [Requests -> KernType]
    <3>1. CASE Goto(r, "incomplete")
      BY <3>1, GotoTyped DEF KernPcs
    <3>2. CASE kern' = [kern EXCEPT
             ![r].pc = IF ReportOk(r, toKern[r]) THEN "record" ELSE "incomplete",
             ![r].pend = IF ReportOk(r, toKern[r]) THEN toKern[r] ELSE None]
      <4>1. \A pc \in {"record", "incomplete"}, m \in Reports \union {None} :
              [kern[r] EXCEPT !.pc = pc, !.pend = m] \in KernType
        BY <1>k DEF KernType, KernPcs
      <4>. QED  BY <3>2, <4>1, <1>k, <1>t
    <3>. QED  BY <1>8, <3>1, <3>2 DEF ReadReport
  <2>2. toKern' \in [Requests -> Reports \union {None}]
    BY <1>8, <1>t DEF ReadReport
  <2>. QED  BY <1>8, <1>0, <2>1, <2>2 DEF ReadReport, Typed
<1>9. CASE RecordReport(r)
  <2>1. kern[r].pend \in Records /\ kern[r].pend \in Reports
    BY <1>9, <1>k, FramesTyped DEF RecordReport, At, TurnInv, Turn, KernType
  <2>2. Appended(r, kern[r].pend) \/ AppendFails(r, kern[r].pend)
    BY <1>9 DEF RecordReport
  <2>3. kern' \in [Requests -> KernType]
    <3>1. CASE Goto(r, "incomplete")
      BY <3>1, GotoTyped DEF KernPcs
    <3>2. CASE Acknowledge(r)
      <4>1. PathsOf(kern[r].pend) \in SUBSET Seq(STRING)
        BY <2>1, PathsTyped
      <4>2. \A P \in SUBSET Seq(STRING), n \in Nat, b \in BOOLEAN :
              [kern[r] EXCEPT !.pc = "ack", !.seen = P, !.idx = n, !.term = b,
                              !.pend = None] \in KernType
        BY <1>k DEF KernType, KernPcs
      <4>5. kern[r].idx \in Nat /\ kern[r].seen \in SUBSET Seq(STRING)
        BY <1>k DEF KernType
      <4>3. (IF kern[r].pend.t = "batch" THEN Len(kern[r].pend.effects) ELSE 0) \in Nat
        BY <2>1, LenProperties DEF Reports, BatchReports, FinishReports
      <4>4. kern' = [kern EXCEPT ![r] = [kern[r] EXCEPT !.pc = "ack",
                !.seen = @ \union PathsOf(kern[r].pend),
                !.idx = @ + (IF kern[r].pend.t = "batch" THEN Len(kern[r].pend.effects) ELSE 0),
                !.term = (kern[r].pend.t = "finish"), !.pend = None]]
        BY <3>2, <1>k DEF Acknowledge
      <4>6. kern[r].seen \union PathsOf(kern[r].pend) \in SUBSET Seq(STRING)
        BY <4>1, <4>5
      <4>7. kern[r].idx + (IF kern[r].pend.t = "batch" THEN Len(kern[r].pend.effects) ELSE 0) \in Nat
        BY <4>3, <4>5
      <4>. QED  BY <1>k, <4>2, <4>4, <4>6, <4>7
    <3>. QED  BY <1>9, <3>1, <3>2 DEF RecordReport
  <2>. QED  BY <1>9, <1>0, <2>1, <2>2, <2>3, AppendTyped DEF RecordReport, Typed
<1>10. CASE SendAck(r)
  <2>0. [t |-> "ack", at |-> kern[r].idx] \in Frames
    BY <1>k, FramesTyped DEF KernType
  <2>1. toCli' \in [Requests -> Frames]
    BY <1>10, <1>t, <2>0 DEF SendAck
  <2>2. kern' \in [Requests -> KernType] /\ prep' = prep
    BY <1>10, <1>0, GotoTyped, EndsTyped DEF SendAck, KernPcs
  <2>. QED  BY <1>10, <1>0, <2>1, <2>2 DEF SendAck, Typed
<1>11. CASE WriteIncomplete(r)
  <2>1. Appended(r, Incomplete) \/ AppendFails(r, Incomplete)
    BY <1>11 DEF WriteIncomplete
  <2>. QED  BY <1>11, <1>0, <2>1, EndsTyped, AppendTyped, FramesTyped DEF WriteIncomplete, Typed
<1>. QED
  BY <1>1, <1>2, <1>3, <1>4, <1>5, <1>6, <1>7, <1>8, <1>9, <1>10, <1>11 DEF KernelStep

-----------------------------------------------------------------------------
(* A step of the client, its worker, the peer or the surroundings keeps the types *)

LEMMA TreeFacts ==
  /\ Root \in Tree /\ Root # NoPath /\ NoPath \notin Tree
  /\ Chain \in Seq(Tree) /\ Len(Chain) \in Nat /\ Len(Chain) > 0
  /\ \A i \in 1 .. Len(Chain) : Chain[i] \in Tree
  /\ Tree \subseteq Seq(STRING)
BY MutationAssumption, ElementOfSeq, LenProperties DEF NoPath

LEMMA LineTyped ==
  ASSUME NEW n \in Nat, NEW p \in Tree
  PROVE  Batch(n, <<Entry(p)>>) \in Reports
<1>1. Entry(p) \in [path : Seq(STRING), fits : BOOLEAN]
  BY TreeFacts DEF Entry
<1>. QED  BY <1>1 DEF Batch, Reports, BatchReports

LEMMA FinishTyped ==
  ASSUME NEW n \in Nat, NEW o \in Outcomes
  PROVE  Finish(n, o) \in Reports
BY DEF Finish, Reports, FinishReports

LEMMA IdleTyped == Idle \in WkType
<1>1. <<>> \in StackType
  BY DEF StackType
<1>. QED  BY <1>1 DEF Idle, WkType, NoPath

LEMMA ClientTyped ==
  ASSUME Typed, TurnInv, NEW r \in Requests, ClientStep(r)
  PROVE  Typed'
<1>0. /\ UNCHANGED subject => UNCHANGED <<cli, wk, disk, eff, other>>
      /\ UNCHANGED audit => UNCHANGED <<trail, landing, lost>>
      /\ UNCHANGED gate => UNCHANGED <<claims, permits, prep>>
  BY DEF subject, audit, gate
<1>c. /\ cli \in [Requests -> CliType] /\ cli[r] \in CliType
      /\ wk \in [Requests -> WkType] /\ wk[r] \in WkType
  BY DEF Typed
<1>t. /\ toCli \in [Requests -> Frames] /\ toKern \in [Requests -> Reports \union {None}]
      /\ open \in [Requests -> BOOLEAN]
  BY DEF Typed
<1>m. /\ \A pc \in Waiting \union {"gone", "done"} : [cli[r] EXCEPT !.pc = pc] \in CliType
      /\ [wk[r] EXCEPT !.pc = "aim"] \in WkType
  BY <1>c DEF CliType, WkType
<1>w. {"wait", "step", "batch", "finish"} \subseteq Waiting
  BY DEF Waiting
<1>1. CASE GrantArrives(r)
  <2>1. cli' \in [Requests -> CliType]
    BY <1>1, <1>c, <1>m, <1>w DEF GrantArrives
  <2>2. wk' \in [Requests -> WkType]
    BY <1>1, <1>c, <1>m DEF GrantArrives
  <2>. QED  BY <1>1, <1>0, <2>1, <2>2, FramesTyped DEF GrantArrives, Typed
<1>2. CASE Quit(r)
  <2>1. cli' \in [Requests -> CliType]
    BY <1>2, <1>c, <1>m DEF Quit
  <2>. QED  BY <1>2, <1>0, <2>1, FramesTyped DEF Quit, Typed
<1>3. CASE Killed(r)
  <2>1. cli' \in [Requests -> CliType]
    BY <1>3, <1>c, <1>m DEF Killed
  <2>. QED  BY <1>3, <1>0, <2>1, IdleTyped, FramesTyped DEF Killed, Typed
<1>4. CASE StepReturns(r)
  <2>1. wk' \in [Requests -> WkType]
    <3>1. [wk[r] EXCEPT !.pc = "idle", !.effect = NoPath, !.finish = "none"] \in WkType
      BY <1>c DEF WkType
    <3>. QED  BY <1>4, <1>c, <3>1 DEF StepReturns
  <2>2. CASE wk[r].effect # NoPath
    <3>1. Batch(cli[r].idx, <<Entry(wk[r].effect)>>) \in Reports
      BY <1>c, <2>2, LineTyped DEF CliType, WkType
    <3>2. cli' \in [Requests -> CliType]
      <4>1. [cli[r] EXCEPT !.pc = "batch", !.idx = @ + 1, !.seen = @ \union {wk[r].effect},
                           !.finish = wk[r].finish] \in CliType
        <5>1. cli[r].idx + 1 \in Nat /\ cli[r].seen \in SUBSET Tree
          BY <1>c DEF CliType
        <5>2. wk[r].effect \in Tree /\ wk[r].finish \in Outcomes \union {"none"}
          BY <1>c, <2>2 DEF WkType
        <5>3. cli[r].seen \union {wk[r].effect} \in SUBSET Tree
          BY <5>1, <5>2
        <5>. QED  BY <1>c, <5>1, <5>2, <5>3 DEF CliType, Waiting
      <4>. QED  BY <1>4, <1>c, <2>2, <4>1 DEF StepReturns
    <3>3. toKern' \in [Requests -> Reports \union {None}]
      BY <1>4, <1>t, <2>2, <3>1 DEF StepReturns
    <3>. QED  BY <1>4, <1>0, <2>1, <3>2, <3>3 DEF StepReturns, Typed
  <2>3. CASE wk[r].effect = NoPath
    <3>1. wk[r].finish \in Outcomes
      BY <1>4, <1>c, <2>3 DEF StepReturns, TurnInv, Work, WkType
    <3>2. Finish(cli[r].idx, Reported(r, wk[r].finish)) \in Reports
      BY <1>c, <3>1, FinishTyped DEF CliType, Reported, Outcomes
    <3>3. cli' \in [Requests -> CliType]
      BY <1>4, <1>c, <1>m, <1>w, <2>3 DEF StepReturns
    <3>4. toKern' \in [Requests -> Reports \union {None}]
      BY <1>4, <1>t, <2>3, <3>2 DEF StepReturns
    <3>. QED  BY <1>4, <1>0, <2>1, <3>3, <3>4 DEF StepReturns, Typed
  <2>. QED  BY <2>2, <2>3
<1>5. CASE AckArrives(r)
  <2>1. cli' \in [Requests -> CliType]
    <3>1. [cli[r] EXCEPT !.pc = "finish", !.finish = "none"] \in CliType
      BY <1>c DEF CliType, Waiting
    <3>. QED  BY <1>5, <1>c, <1>m, <1>w, <3>1 DEF AckArrives
  <2>2. wk' \in [Requests -> WkType]
    BY <1>5, <1>c, <1>m DEF AckArrives
  <2>3. toKern' \in [Requests -> Reports \union {None}]
    <3>1. cli[r].finish # "none" => Finish(cli[r].idx, Reported(r, cli[r].finish)) \in Reports
      BY <1>c, FinishTyped DEF CliType, Reported, Outcomes
    <3>. QED  BY <1>5, <1>t, <3>1 DEF AckArrives
  <2>4. open' \in [Requests -> BOOLEAN] /\ toCli' \in [Requests -> Frames]
    BY <1>5, <1>t, FramesTyped DEF AckArrives
  <2>. QED  BY <1>5, <1>0, <2>1, <2>2, <2>3, <2>4 DEF AckArrives, Typed
<1>6. CASE PeerReports(r)
  <2>1. Claimed[r] \subseteq Reports
    BY MutationAssumption
  <2>2. toKern' \in [Requests -> Reports \union {None}]
    BY <1>6, <1>t, <2>1 DEF PeerReports
  <2>. QED  BY <1>6, <1>0, <2>2, FramesTyped DEF PeerReports, Typed
<1>7. CASE PeerCloses(r)
  BY <1>7, <1>0, FramesTyped DEF PeerCloses, Typed
<1>. QED  BY <1>1, <1>2, <1>3, <1>4, <1>5, <1>6, <1>7 DEF ClientStep

LEMMA StopsTyped ==
  ASSUME Typed, NEW r \in Requests, NEW o \in Outcomes, Stops(r, o)
  PROVE  wk' \in [Requests -> WkType]
<1>1. wk \in [Requests -> WkType] /\ wk[r] \in WkType
  BY DEF Typed
<1>2. [wk[r] EXCEPT !.pc = "ret", !.finish = o] \in WkType
  BY <1>1 DEF WkType
<1>. QED  BY <1>1, <1>2 DEF Stops

LEMMA TargetsTyped ==
  ASSUME Typed, NEW r \in Requests, NEW p \in Tree, NEW d, NEW c \in BOOLEAN,
         NEW st \in StackType, Targets(r, p, d, c, st)
  PROVE  wk' \in [Requests -> WkType]
<1>1. wk \in [Requests -> WkType] /\ wk[r] \in WkType
  BY DEF Typed
<1>2. \A pc \in {"armed", "ret"}, o \in Outcomes \union {"none"} :
        [wk[r] EXCEPT !.stack = st, !.pc = pc, !.target = p, !.closing = c, !.finish = o] \in WkType
  BY <1>1 DEF WkType
<1>3. Reserve(r, p, d) \in {"armed", "LimitReached", "PathChanged"}
  BY DEF Reserve
<1>4. (IF Reserve(r, p, d) = "armed" THEN "none" ELSE Reserve(r, p, d)) \in Outcomes \union {"none"}
  BY <1>3 DEF Outcomes
<1>. QED  BY <1>1, <1>2, <1>4 DEF Targets

LEMMA SeqTop ==
  ASSUME NEW S, NEW st \in Seq(S), st # <<>>
  PROVE  /\ Len(st) \in Nat /\ Len(st) > 0 /\ Len(st) \in DOMAIN st
         /\ st[Len(st)] \in S
         /\ \A e \in S : [st EXCEPT ![Len(st)] = e] \in Seq(S)
         /\ SubSeq(st, 1, Len(st) - 1) \in Seq(S)
<1>1. Len(st) \in Nat /\ DOMAIN st = 1 .. Len(st)
  BY LenProperties
<1>2. Len(st) # 0
  BY EmptySeq
<1>3. Len(st) \in 1 .. Len(st)
  BY <1>1, <1>2
<1>4. \A i \in 1 .. Len(st) - 1 : st[i] \in S
  BY <1>1, ElementOfSeq
<1>5. 1 \in 1 .. Len(st) + 1 /\ Len(st) - 1 \in 1 - 1 .. Len(st)
  BY <1>1, <1>2
<1>6. SubSeq(st, 1, Len(st) - 1) \in Seq(S)
  BY <1>5, SubSeqProperties
<1>7. \A e \in S : [st EXCEPT ![Len(st)] = e] \in Seq(S)
  BY <1>3, ExceptSeq
<1>. QED  BY <1>1, <1>2, <1>3, <1>6, <1>7, ElementOfSeq

LEMMA StackTop ==
  ASSUME NEW st \in StackType, st # <<>>
  PROVE  /\ Len(st) \in DOMAIN st /\ Len(st) \in Nat /\ Len(st) > 0
         /\ st[Len(st)].dir \in Tree /\ st[Len(st)].todo \in SUBSET Tree
         /\ \A p : [st EXCEPT ![Len(st)].todo = @ \ {p}] \in StackType
         /\ SubSeq(st, 1, Len(st) - 1) \in StackType
<1>0. DEFINE D == [dir : Tree, todo : SUBSET Tree]
<1>1. /\ Len(st) \in DOMAIN st /\ Len(st) \in Nat /\ Len(st) > 0
      /\ st[Len(st)] \in D
      /\ \A e \in D : [st EXCEPT ![Len(st)] = e] \in Seq(D)
      /\ SubSeq(st, 1, Len(st) - 1) \in Seq(D)
  <2>1. st \in Seq(D)
    BY DEF StackType
  <2>. QED  BY <2>1, SeqTop
<1>2. \A p : [st[Len(st)] EXCEPT !.todo = @ \ {p}] \in D
  BY <1>1
<1>3. \A p : [st EXCEPT ![Len(st)] = [st[Len(st)] EXCEPT !.todo = @ \ {p}]] \in Seq(D)
  <2>. HIDE DEF D
  <2>. QED  BY <1>1, <1>2
<1>4. st[Len(st)].dir \in Tree /\ st[Len(st)].todo \in SUBSET Tree
  BY <1>1
<1>. QED  BY <1>1, <1>3, <1>4 DEF StackType

LEMMA WorkerTyped ==
  ASSUME Typed, TurnInv, NEW r \in Requests, WorkerStep(r)
  PROVE  Typed'
<1>0. /\ UNCHANGED audit => UNCHANGED <<trail, landing, lost>>
      /\ UNCHANGED gate => UNCHANGED <<claims, permits, prep>>
  BY DEF audit, gate
<1>w. /\ wk \in [Requests -> WkType] /\ wk[r] \in WkType
      /\ wk[r].stack \in StackType /\ wk[r].at \in Nat
  BY DEF Typed, WkType
<1>d. /\ disk \in [Requests -> SUBSET Tree] /\ disk[r] \in SUBSET Tree
      /\ eff \in [Requests -> Seq(Tree)] /\ eff[r] \in Seq(Tree)
  BY DEF Typed
<1>h. \A p : Children(disk[r], p) \in SUBSET Tree
  BY <1>d DEF Children
<1>g. wk[r].pc = "armed" => wk[r].target \in Tree
  BY <1>w DEF TurnInv, Work, WkType
<1>e. ASSUME Did(r), wk[r].pc = "armed"
      PROVE  eff' \in [Requests -> Seq(Tree)]
  <2>1. Append(eff[r], wk[r].target) \in Seq(Tree)
    BY <1>d, <1>e, <1>g, AppendProperties
  <2>. QED  BY <1>d, <1>e, <2>1 DEF Did
<1>1. CASE Aim(r)
  <2>1. wk' \in [Requests -> WkType]
    <3>1. CASE op[r] = "tree"
      <4>0. AimTree(r)
        BY <1>1, <3>1 DEF Aim
      <4>1. CASE wk[r].stack = <<>> /\ Targets(r, Root, 0, FALSE, wk[r].stack)
        BY <4>1, <1>w, TreeFacts, TargetsTyped
      <4>2. CASE wk[r].stack # <<>>
        <5>0. DEFINE st == wk[r].stack
                     top == st[Len(st)]
        <5>1. /\ top.dir \in Tree /\ top.todo \in SUBSET Tree
              /\ \A p : [st EXCEPT ![Len(st)].todo = @ \ {p}] \in StackType
          BY <1>w, <4>2, StackTop
        <5>2. CASE \E p \in top.todo \union Children(disk[r], top.dir) :
                     Targets(r, p, Len(p) - Len(Root), FALSE, [st EXCEPT ![Len(st)].todo = @ \ {p}])
          <6>1. PICK p \in top.todo \union Children(disk[r], top.dir) :
                     Targets(r, p, Len(p) - Len(Root), FALSE, [st EXCEPT ![Len(st)].todo = @ \ {p}])
            BY <5>2
          <6>2. p \in Tree
            BY <5>1, <1>h
          <6>. HIDE DEF st, top
          <6>. QED  BY <5>1, <6>1, <6>2, TargetsTyped
        <5>3. CASE Targets(r, top.dir, Len(top.dir) - Len(Root), TRUE, st)
          BY <5>1, <5>3, <1>w, TargetsTyped
        <5>4. CASE \E o \in {"OsRefused", "PathChanged", "UnsupportedName"} : Stops(r, o)
          BY <5>4, StopsTyped DEF Outcomes
        <5>. QED  BY <4>0, <4>2, <5>2, <5>3, <5>4 DEF AimTree
      <4>. QED  BY <4>0, <4>1, <4>2 DEF AimTree
    <3>e. <<>> \in StackType
      BY DEF StackType
    <3>2. CASE op[r] = "dirs"
      <4>1. Targets(r, Chain[wk[r].at], wk[r].at, FALSE, <<>>)
        BY <1>1, <3>2 DEF Aim
      <4>2. wk[r].at \in 1 .. Len(Chain)
        BY <1>1, <1>w, TreeFacts DEF Aim, TurnInv, Work
      <4>. QED  BY <3>e, <4>1, <4>2, TreeFacts, TargetsTyped
    <3>3. CASE op[r] # "tree" /\ op[r] # "dirs"
      <4>1. Targets(r, Root, 1, FALSE, <<>>)
        BY <1>1, <3>3 DEF Aim
      <4>. QED  BY <3>e, <4>1, TreeFacts, TargetsTyped
    <3>. QED  BY <3>1, <3>2, <3>3
  <2>. QED  BY <1>1, <1>0, <2>1 DEF Aim, Typed
<1>2. CASE CallRefused(r)
  <2>1. wk' \in [Requests -> WkType]
    BY <1>2, StopsTyped DEF CallRefused, Outcomes
  <2>. QED  BY <1>2, <1>0, <2>1 DEF CallRefused, Typed
<1>3. CASE RemoveEntry(r)
  <2>0. wk[r].pc = "armed" /\ Did(r)
    BY <1>3 DEF RemoveEntry
  <2>1. eff' \in [Requests -> Seq(Tree)]
    BY <1>e, <2>0
  <2>2. disk' \in [Requests -> SUBSET Tree]
    BY <1>3, <1>d DEF RemoveEntry
  <2>3. DEFINE rest == IF wk[r].closing THEN SubSeq(wk[r].stack, 1, Len(wk[r].stack) - 1)
                       ELSE wk[r].stack
  <2>4. rest \in StackType
    BY <2>0, <1>w, StackTop DEF TurnInv, Work
  <2>5. wk' = [wk EXCEPT ![r] = [wk[r] EXCEPT !.pc = "ret", !.effect = wk[r].target,
                 !.stack = rest, !.finish = IF rest = <<>> THEN "Success" ELSE "none"]]
    BY <1>3, <1>w DEF RemoveEntry
  <2>6. \A st \in StackType, o \in {"Success", "none"} :
           [wk[r] EXCEPT !.pc = "ret", !.effect = wk[r].target, !.stack = st, !.finish = o] \in WkType
    BY <1>w, <1>g, <2>0 DEF WkType, Outcomes
  <2>7. wk' \in [Requests -> WkType]
    <3>. HIDE DEF rest
    <3>. QED  BY <1>w, <2>4, <2>5, <2>6
  <2>. QED  BY <1>3, <1>0, <2>1, <2>2, <2>7 DEF RemoveEntry, Typed
<1>4. CASE Descend(r)
  <2>1. wk' \in [Requests -> WkType]
    <3>1. CASE Stops(r, "LimitReached")
      BY <3>1, StopsTyped DEF Outcomes
    <3>2. CASE wk' = [wk EXCEPT ![r].pc = "aim",
                 ![r].stack = Append(@, [dir |-> wk[r].target,
                                         todo |-> Children(disk[r], wk[r].target)])]
      <4>1. wk[r].target \in Tree
        BY <1>4, <1>g DEF Descend
      <4>2. [dir |-> wk[r].target, todo |-> Children(disk[r], wk[r].target)]
               \in [dir : Tree, todo : SUBSET Tree]
        BY <4>1, <1>h
      <4>3. Append(wk[r].stack, [dir |-> wk[r].target, todo |-> Children(disk[r], wk[r].target)])
               \in StackType
        BY <4>2, <1>w, AppendProperties DEF StackType
      <4>4. \A st \in StackType : [wk[r] EXCEPT !.pc = "aim", !.stack = st] \in WkType
        BY <1>w DEF WkType
      <4>. QED  BY <3>2, <1>w, <4>3, <4>4
    <3>. QED  BY <1>4, <3>1, <3>2 DEF Descend
  <2>. QED  BY <1>4, <1>0, <2>1 DEF Descend, Typed
<1>5. CASE MakeDirectory(r)
  <2>0. wk[r].pc = "armed" /\ Did(r)
    BY <1>5 DEF MakeDirectory
  <2>1. eff' \in [Requests -> Seq(Tree)]
    BY <1>e, <2>0
  <2>2. disk' \in [Requests -> SUBSET Tree]
    BY <1>5, <1>d, <1>g, <2>0 DEF MakeDirectory
  <2>3. \A n \in Nat, o \in {"Success", "none", "OsRefused"} :
           /\ [wk[r] EXCEPT !.pc = "ret", !.effect = wk[r].target, !.at = n, !.finish = o] \in WkType
           /\ [wk[r] EXCEPT !.pc = "ret", !.effect = wk[r].target, !.finish = o] \in WkType
    BY <1>w, <1>g, <2>0 DEF WkType, Outcomes
  <2>4. wk[r].at + 1 \in Nat
    BY <1>w
  <2>5. wk' \in [Requests -> WkType]
    BY <1>5, <1>w, <2>3, <2>4 DEF MakeDirectory
  <2>. QED  BY <1>5, <1>0, <2>1, <2>2, <2>5 DEF MakeDirectory, Typed
<1>6. CASE PassDirectory(r)
  <2>1. \A n \in Nat : [wk[r] EXCEPT !.pc = "aim", !.at = n] \in WkType
    BY <1>w DEF WkType
  <2>2. wk[r].at + 1 \in Nat
    BY <1>w
  <2>3. wk' \in [Requests -> WkType]
    BY <1>6, <1>w, <2>1, <2>2, StopsTyped DEF PassDirectory, Outcomes
  <2>. QED  BY <1>6, <1>0, <2>3 DEF PassDirectory, Typed
<1>7. CASE DoExact(r)
  <2>0. wk[r].pc = "armed" /\ Did(r)
    BY <1>7 DEF DoExact
  <2>1. eff' \in [Requests -> Seq(Tree)]
    BY <1>e, <2>0
  <2>2. \A o \in {"Success", "Partial", "DurabilityUnknown"} :
           [wk[r] EXCEPT !.pc = "ret", !.effect = wk[r].target, !.finish = o] \in WkType
    BY <1>w, <1>g, <2>0 DEF WkType, Outcomes
  <2>3. wk' \in [Requests -> WkType]
    BY <1>7, <1>w, <2>2 DEF DoExact
  <2>. QED  BY <1>7, <1>0, <2>1, <2>3 DEF DoExact, Typed
<1>. QED  BY <1>1, <1>2, <1>3, <1>4, <1>5, <1>6, <1>7 DEF WorkerStep

\* The steps that belong to neither end of the connection.
Around(r) ==
  OrphanEnds(r) \/ Land(r) \/ KernelLate(r) \/ ClientLate(r) \/ OtherProcess(r)

LEMMA AroundTyped ==
  ASSUME Typed, NEW r \in Requests, Around(r)
  PROVE  Typed'
<1>0. /\ UNCHANGED subject => UNCHANGED <<cli, wk, disk, eff, other>>
      /\ UNCHANGED audit => UNCHANGED <<trail, landing, lost>>
      /\ UNCHANGED gate => UNCHANGED <<claims, permits, prep>>
  BY DEF subject, audit, gate
<1>t. /\ prep \in [Requests -> {"none", "running", "orphan"}]
      /\ trail \in [Requests -> SUBSET Records] /\ landing \in [Requests -> SUBSET Records]
      /\ late \in [Requests -> SUBSET {"kern", "cli"}]
      /\ other \in [Requests -> 0 .. MaxOther]
      /\ disk \in [Requests -> SUBSET Tree]
  BY DEF Typed
<1>1. CASE OrphanEnds(r)
  <2>1. prep' \in [Requests -> {"none", "running", "orphan"}]
    BY <1>1, <1>t DEF OrphanEnds
  <2>. QED  BY <1>1, <1>0, <2>1 DEF OrphanEnds, Typed
<1>2. CASE Land(r)
  <2>1. trail' \in [Requests -> SUBSET Records] /\ landing' \in [Requests -> SUBSET Records]
    BY <1>2, <1>t DEF Land
  <2>. QED  BY <1>2, <1>0, <2>1 DEF Land, Typed
<1>3. CASE KernelLate(r)
  <2>1. late' \in [Requests -> SUBSET {"kern", "cli"}]
    BY <1>3, <1>t DEF KernelLate
  <2>. QED  BY <1>3, <1>0, <2>1 DEF KernelLate, Typed
<1>4. CASE ClientLate(r)
  <2>1. late' \in [Requests -> SUBSET {"kern", "cli"}]
    BY <1>4, <1>t DEF ClientLate
  <2>. QED  BY <1>4, <1>0, <2>1 DEF ClientLate, Typed
<1>5. CASE OtherProcess(r)
  <2>1. other' \in [Requests -> 0 .. MaxOther]
    BY <1>5, <1>t, MutationAssumption DEF OtherProcess
  <2>2. disk' \in [Requests -> SUBSET Tree]
    BY <1>5, <1>t DEF OtherProcess
  <2>. QED  BY <1>5, <1>0, <2>1, <2>2 DEF OtherProcess, Typed
<1>. QED  BY <1>1, <1>2, <1>3, <1>4, <1>5 DEF Around

LEMMA DeathTyped ==
  ASSUME Typed, TurnInv, DaemonDies
  PROVE  Typed'
<1>0. /\ UNCHANGED subject => UNCHANGED <<cli, wk, disk, eff, other>>
      /\ UNCHANGED gate => UNCHANGED <<claims, permits, prep>>
  BY DEF subject, gate
<1>1. \A r \in Requests : InHand(r) \in SUBSET Records
  BY FramesTyped DEF InHand, TurnInv, Turn, Typed, KernType
<1>2. landing' \in [Requests -> SUBSET Records]
  BY <1>1 DEF DaemonDies, Typed
<1>. QED  BY <1>0, <1>2 DEF DaemonDies, Typed

LEMMA InitTyped == Init => Typed
<1>. SUFFICES ASSUME Init PROVE Typed
  OBVIOUS
<1>1. Fresh \in KernType
  BY DEF Fresh, KernType, KernPcs
<1>2. \A r \in Requests : [pc |-> IF r \in Faithful THEN "wait" ELSE "peer",
                            idx |-> 0, seen |-> {}, finish |-> "none"] \in CliType
  BY DEF CliType, Waiting
<1>3. op \in [Requests -> Ops]
  BY MutationAssumption DEF Init
<1>4. disk \in [Requests -> SUBSET Tree]
  BY MutationAssumption DEF Init
<1>5. cli \in [Requests -> CliType]
  BY <1>2 DEF Init
<1>6. open \in [Requests -> BOOLEAN] /\ eff \in [Requests -> Seq(Tree)]
  BY DEF Init
<1>7. other \in [Requests -> 0 .. MaxOther]
  BY MutationAssumption DEF Init
<1>. QED  BY <1>1, <1>3, <1>4, <1>5, <1>6, <1>7, IdleTyped, FramesTyped DEF Init, Typed
-----------------------------------------------------------------------------
(* A step for one request leaves every other request alone *)

Kept(s) ==
  /\ op' = op /\ up' = up
  /\ prep'[s] = prep[s] /\ kern'[s] = kern[s]
  /\ trail'[s] = trail[s] /\ landing'[s] = landing[s] /\ lost'[s] = lost[s]
  /\ toCli'[s] = toCli[s] /\ toKern'[s] = toKern[s] /\ open'[s] = open[s]
  /\ cli'[s] = cli[s] /\ wk'[s] = wk[s] /\ eff'[s] = eff[s]

Step(r) == KernelStep(r) \/ ClientStep(r) \/ WorkerStep(r) \/ Around(r)

LEMMA StepLocal ==
  ASSUME Typed, NEW r \in Requests, Step(r), NEW s \in Requests, s # r
  PROVE  Kept(s)
<1>0. /\ UNCHANGED subject => UNCHANGED <<cli, wk, disk, eff, other>>
      /\ UNCHANGED audit => UNCHANGED <<trail, landing, lost>>
      /\ UNCHANGED gate => UNCHANGED <<claims, permits, prep>>
  BY DEF subject, audit, gate
<1>f. /\ prep \in [Requests -> {"none", "running", "orphan"}]
      /\ kern \in [Requests -> KernType] /\ trail \in [Requests -> SUBSET Records]
      /\ landing \in [Requests -> SUBSET Records] /\ lost \in [Requests -> BOOLEAN]
      /\ toCli \in [Requests -> Frames] /\ toKern \in [Requests -> Reports \union {None}]
      /\ open \in [Requests -> BOOLEAN] /\ cli \in [Requests -> CliType]
      /\ wk \in [Requests -> WkType] /\ eff \in [Requests -> Seq(Tree)]
  BY DEF Typed
<1>g. \A pc : Goto(r, pc) => kern'[s] = kern[s]
  BY <1>f DEF Goto
<1>e. Ends(r) => kern'[s] = kern[s] /\ prep' = prep
  BY <1>f DEF Ends
<1>a. \A x : Appended(r, x) \/ AppendFails(r, x) =>
         trail'[s] = trail[s] /\ landing'[s] = landing[s] /\ lost'[s] = lost[s]
  BY <1>f DEF Appended, AppendFails
<1>k. Acknowledge(r) => kern'[s] = kern[s]
  BY <1>f DEF Acknowledge
<1>t. \A p, d, c, st : Targets(r, p, d, c, st) => wk'[s] = wk[s]
  BY <1>f DEF Targets
<1>u. \A o : Stops(r, o) => wk'[s] = wk[s]
  BY <1>f DEF Stops
<1>i. Did(r) => eff'[s] = eff[s]
  BY <1>f DEF Did
<1>1. CASE KernelStep(r)
  <2>1. CASE Turned(r)
    BY <2>1, <1>0, <1>g DEF Turned, Kept
  <2>2. CASE Admit(r)
    BY <2>2, <1>0, <1>f, <1>g DEF Admit, Kept
  <2>3. CASE Prepared(r)
    BY <2>3, <1>0, <1>f, <1>g DEF Prepared, Kept
  <2>4. CASE PrepTimesOut(r)
    BY <2>4, <1>0, <1>f, <1>g DEF PrepTimesOut, Kept
  <2>5. CASE Refuse(r)
    BY <2>5, <1>0, <1>f, <1>e, <1>a DEF Refuse, Kept
  <2>6. CASE CommitIntent(r)
    BY <2>6, <1>0, <1>g, <1>e, <1>a DEF CommitIntent, Kept
  <2>7. CASE SendGrant(r)
    BY <2>7, <1>0, <1>f, <1>g DEF SendGrant, Kept
  <2>8. CASE ReadReport(r)
    BY <2>8, <1>0, <1>f, <1>g DEF ReadReport, Kept
  <2>9. CASE RecordReport(r)
    BY <2>9, <1>0, <1>g, <1>k, <1>a DEF RecordReport, Kept
  <2>10. CASE SendAck(r)
    BY <2>10, <1>0, <1>f, <1>g, <1>e DEF SendAck, Kept
  <2>11. CASE WriteIncomplete(r)
    BY <2>11, <1>0, <1>e, <1>a DEF WriteIncomplete, Kept
  <2>. QED  BY <1>1, <2>1, <2>2, <2>3, <2>4, <2>5, <2>6, <2>7, <2>8, <2>9, <2>10, <2>11
            DEF KernelStep
<1>2. CASE ClientStep(r)
  <2>1. CASE GrantArrives(r)
    BY <2>1, <1>0, <1>f DEF GrantArrives, Kept
  <2>2. CASE Quit(r)
    BY <2>2, <1>0, <1>f DEF Quit, Kept
  <2>3. CASE Killed(r)
    BY <2>3, <1>0, <1>f DEF Killed, Kept
  <2>4. CASE StepReturns(r)
    BY <2>4, <1>0, <1>f DEF StepReturns, Kept
  <2>5. CASE AckArrives(r)
    BY <2>5, <1>0, <1>f DEF AckArrives, Kept
  <2>6. CASE PeerReports(r)
    BY <2>6, <1>0, <1>f DEF PeerReports, Kept
  <2>7. CASE PeerCloses(r)
    BY <2>7, <1>0, <1>f DEF PeerCloses, Kept
  <2>. QED  BY <1>2, <2>1, <2>2, <2>3, <2>4, <2>5, <2>6, <2>7 DEF ClientStep
<1>3. CASE WorkerStep(r)
  <2>1. CASE Aim(r)
    BY <2>1, <1>0, <1>t, <1>u DEF Aim, AimTree, Kept
  <2>2. CASE CallRefused(r)
    BY <2>2, <1>0, <1>u DEF CallRefused, Kept
  <2>3. CASE RemoveEntry(r)
    BY <2>3, <1>0, <1>f, <1>i DEF RemoveEntry, Kept
  <2>4. CASE Descend(r)
    BY <2>4, <1>0, <1>f, <1>u DEF Descend, Kept
  <2>5. CASE MakeDirectory(r)
    BY <2>5, <1>0, <1>f, <1>i DEF MakeDirectory, Kept
  <2>6. CASE PassDirectory(r)
    BY <2>6, <1>0, <1>f, <1>u DEF PassDirectory, Kept
  <2>7. CASE DoExact(r)
    BY <2>7, <1>0, <1>f, <1>i DEF DoExact, Kept
  <2>. QED  BY <1>3, <2>1, <2>2, <2>3, <2>4, <2>5, <2>6, <2>7 DEF WorkerStep
<1>4. CASE Around(r)
  <2>1. CASE OrphanEnds(r)
    BY <2>1, <1>0, <1>f DEF OrphanEnds, Kept
  <2>2. CASE Land(r)
    BY <2>2, <1>0, <1>f DEF Land, Kept
  <2>3. CASE KernelLate(r)
    BY <2>3, <1>0 DEF KernelLate, Kept
  <2>4. CASE ClientLate(r)
    BY <2>4, <1>0 DEF ClientLate, Kept
  <2>5. CASE OtherProcess(r)
    BY <2>5, <1>0 DEF OtherProcess, Kept
  <2>. QED  BY <1>4, <2>1, <2>2, <2>3, <2>4, <2>5 DEF Around
<1>. QED  BY <1>1, <1>2, <1>3, <1>4 DEF Step

\* The daemon dies by itself only, and what was asked for stays.
LEMMA StepSame ==
  ASSUME NEW r \in Requests, Step(r)
  PROVE  op' = op /\ up' = up
<1>1. CASE KernelStep(r)
  BY <1>1 DEF KernelStep, Turned, Admit, Prepared, PrepTimesOut, Refuse, CommitIntent, SendGrant,
              ReadReport, RecordReport, SendAck, WriteIncomplete
<1>2. CASE ClientStep(r)
  BY <1>2 DEF ClientStep, GrantArrives, Quit, Killed, StepReturns, AckArrives, PeerReports,
              PeerCloses
<1>3. CASE WorkerStep(r)
  BY <1>3 DEF WorkerStep, Aim, CallRefused, RemoveEntry, Descend, MakeDirectory, PassDirectory,
              DoExact
<1>4. CASE Around(r)
  BY <1>4 DEF Around, OrphanEnds, Land, KernelLate, ClientLate, OtherProcess
<1>. QED  BY <1>1, <1>2, <1>3, <1>4 DEF Step
-----------------------------------------------------------------------------
(* What the handler's moves do to its own record *)

LEMMA GotoIs ==
  ASSUME Typed, NEW r \in Requests, NEW pc, Goto(r, pc)
  PROVE  /\ kern'[r].pc = pc /\ kern'[r].idx = kern[r].idx /\ kern'[r].seen = kern[r].seen
         /\ kern'[r].term = kern[r].term /\ kern'[r].pend = kern[r].pend
         /\ kern'[r].permit = kern[r].permit
<1>1. kern \in [Requests -> KernType] /\ kern[r] \in KernType
  BY DEF Typed
<1>2. kern'[r] = [kern[r] EXCEPT !.pc = pc]
  BY <1>1 DEF Goto
<1>. QED  BY <1>1, <1>2 DEF KernType

LEMMA EndsIs ==
  ASSUME Typed, NEW r \in Requests, Ends(r)
  PROVE  /\ kern'[r].pc = "over" /\ kern'[r].idx = kern[r].idx /\ kern'[r].seen = kern[r].seen
         /\ kern'[r].term = kern[r].term /\ kern'[r].pend = None
         /\ kern'[r].permit = FALSE
<1>1. kern \in [Requests -> KernType] /\ kern[r] \in KernType
  BY DEF Typed
<1>2. kern'[r] = [kern[r] EXCEPT !.pc = "over", !.permit = FALSE, !.pend = None]
  BY <1>1 DEF Ends
<1>. QED  BY <1>1, <1>2 DEF KernType

LEMMA PreparedIs ==
  ASSUME Typed, NEW r \in Requests, Prepared(r)
  PROVE  /\ kern'[r].pc \in {"refuse", "intent"} /\ kern'[r].idx = kern[r].idx
         /\ kern'[r].seen = kern[r].seen
         /\ kern'[r].term = kern[r].term /\ kern'[r].pend = kern[r].pend
<1>1. kern \in [Requests -> KernType] /\ kern[r] \in KernType
  BY DEF Typed
<1>2. CASE Goto(r, "refuse")
  BY <1>2, GotoIs
<1>3. CASE \E pc \in {"refuse", "intent"} :
             kern' = [kern EXCEPT ![r].pc = pc, ![r].permit = TRUE]
  <2>1. PICK pc \in {"refuse", "intent"} : kern' = [kern EXCEPT ![r].pc = pc, ![r].permit = TRUE]
    BY <1>3
  <2>2. kern'[r] = [kern[r] EXCEPT !.pc = pc, !.permit = TRUE]
    BY <1>1, <2>1
  <2>. QED  BY <1>1, <2>2 DEF KernType
<1>. QED  BY <1>2, <1>3 DEF Prepared

\* A report is taken up, or the attempt goes to its incomplete end.
LEMMA ReadIs ==
  ASSUME Typed, NEW r \in Requests, ReadReport(r)
  PROVE  /\ \/ /\ toKern[r] \in Reports /\ ReportOk(r, toKern[r])
               /\ kern'[r].pc = "record" /\ kern'[r].pend = toKern[r]
            \/ kern'[r].pc = "incomplete" /\ kern'[r].pend \in {None, kern[r].pend}
         /\ kern'[r].idx = kern[r].idx /\ kern'[r].seen = kern[r].seen
         /\ kern'[r].term = kern[r].term /\ kern'[r].permit = kern[r].permit
         /\ toKern'[r] = None
<1>1. kern \in [Requests -> KernType] /\ kern[r] \in KernType
  BY DEF Typed
<1>2. toKern'[r] = None
  BY DEF ReadReport, Typed
<1>3. CASE Goto(r, "incomplete")
  BY <1>2, <1>3, GotoIs
<1>4. CASE /\ toKern[r] # None
           /\ kern' = [kern EXCEPT
                ![r].pc = IF ReportOk(r, toKern[r]) THEN "record" ELSE "incomplete",
                ![r].pend = IF ReportOk(r, toKern[r]) THEN toKern[r] ELSE None]
  <2>1. kern'[r] = [kern[r] EXCEPT
                !.pc = IF ReportOk(r, toKern[r]) THEN "record" ELSE "incomplete",
                !.pend = IF ReportOk(r, toKern[r]) THEN toKern[r] ELSE None]
    BY <1>1, <1>4
  <2>2. toKern[r] \in Reports
    BY <1>4 DEF Typed
  <2>. QED  BY <1>1, <1>2, <2>1, <2>2 DEF KernType
<1>. QED  BY <1>3, <1>4 DEF ReadReport

LEMMA AcknowledgeIs ==
  ASSUME Typed, NEW r \in Requests, Acknowledge(r)
  PROVE  /\ kern'[r].pc = "ack" /\ kern'[r].seen = kern[r].seen \union PathsOf(kern[r].pend)
         /\ kern'[r].idx = kern[r].idx +
              (IF kern[r].pend.t = "batch" THEN Len(kern[r].pend.effects) ELSE 0)
         /\ kern'[r].term = (kern[r].pend.t = "finish") /\ kern'[r].pend = None
         /\ kern'[r].permit = kern[r].permit
<1>1. kern \in [Requests -> KernType] /\ kern[r] \in KernType
  BY DEF Typed
<1>2. kern'[r] = [kern[r] EXCEPT !.pc = "ack",
                !.seen = @ \union PathsOf(kern[r].pend),
                !.idx = @ + (IF kern[r].pend.t = "batch" THEN Len(kern[r].pend.effects) ELSE 0),
                !.term = (kern[r].pend.t = "finish"), !.pend = None]
  BY <1>1 DEF Acknowledge
<1>. QED  BY <1>1, <1>2 DEF KernType

-----------------------------------------------------------------------------
(* Whose turn it is, through the kernel's steps *)

LEMMA FrameTags ==
  /\ None.t = "none" /\ Deny.t = "deny" /\ Intent.t = "intent" /\ Incomplete.t = "incomplete"
  /\ None \notin Reports /\ Deny \notin Reports /\ Intent \notin Reports /\ Incomplete \notin Reports
  /\ \A m \in Reports : m.t \in {"batch", "finish"}
  /\ Deny # None
BY DEF None, Deny, Intent, Incomplete, Reports, BatchReports, FinishReports

LEMMA KernelTurn ==
  ASSUME Typed, TurnInv, NEW r \in Requests, KernelStep(r)
  PROVE  (Turn(r) /\ Work(r))'
<1>0. /\ UNCHANGED subject => UNCHANGED <<cli, wk, disk, eff, other>>
  BY DEF subject
<1>i. Turn(r) /\ Work(r)
  BY DEF TurnInv
<1>t. /\ toCli \in [Requests -> Frames] /\ toKern \in [Requests -> Reports \union {None}]
      /\ kern[r] \in KernType /\ cli[r] \in CliType /\ open[r] \in BOOLEAN
  BY DEF Typed
<1>w. ASSUME UNCHANGED <<cli, wk, eff>>
      PROVE  Work(r)'
  BY <1>i, <1>w DEF Work
<1>. USE DEF Turn, Resting, Granted
<1>1. CASE Turned(r)
  <2>1. Goto(r, "refuse") /\ kern[r].pc = "idle" /\ UNCHANGED <<toCli, toKern, open, cli, wk, eff>>
    BY <1>1, <1>0 DEF Turned, At
  <2>. QED  BY <2>1, <1>i, <1>w, GotoIs
<1>2. CASE Admit(r)
  <2>1. Goto(r, "prep") /\ kern[r].pc = "idle" /\ UNCHANGED <<toCli, toKern, open, cli, wk, eff>>
    BY <1>2, <1>0 DEF Admit, At
  <2>. QED  BY <2>1, <1>i, <1>w, GotoIs
<1>3. CASE Prepared(r)
  <2>1. kern[r].pc = "prep" /\ UNCHANGED <<toCli, toKern, open, cli, wk, eff>>
    BY <1>3, <1>0 DEF Prepared, At
  <2>. QED  BY <2>1, <1>3, <1>i, <1>w, PreparedIs
<1>4. CASE PrepTimesOut(r)
  <2>1. Goto(r, "refuse") /\ kern[r].pc = "prep" /\ UNCHANGED <<toCli, toKern, open, cli, wk, eff>>
    BY <1>4, <1>0 DEF PrepTimesOut, At
  <2>. QED  BY <2>1, <1>i, <1>w, GotoIs
<1>5. CASE Refuse(r)
  <2>1. Ends(r) /\ kern[r].pc = "refuse" /\ UNCHANGED <<toKern, open, cli, wk, eff>>
    BY <1>5, <1>0 DEF Refuse, At
  <2>2. \/ toCli'[r] = toCli[r]
        \/ toCli'[r] = IF open[r] THEN Deny ELSE None
    BY <1>5, <1>t DEF Refuse
  <2>. QED  BY <2>1, <2>2, <1>i, <1>w, <1>t, EndsIs, FrameTags
<1>6. CASE CommitIntent(r)
  <2>1. kern[r].pc = "intent" /\ UNCHANGED <<toCli, toKern, open, cli, wk, eff>>
    BY <1>6, <1>0 DEF CommitIntent, At
  <2>2. Goto(r, "grant") \/ Ends(r)
    BY <1>6 DEF CommitIntent
  <2>3. kern'[r].pc \in {"grant", "over"}
    BY <2>2, EndsIs, GotoIs
  <2>. QED  BY <2>1, <2>3, <1>i, <1>w
<1>7. CASE SendGrant(r)
  <2>1. kern[r].pc = "grant" /\ UNCHANGED <<toKern, open, cli, wk, eff>>
    BY <1>7, <1>0 DEF SendGrant, At
  <2>2. CASE open[r] /\ toCli' = [toCli EXCEPT ![r] = [t |-> "grant"]] /\ Goto(r, "read")
    <3>1. toCli'[r].t = "grant"
      BY <2>2, <1>t
    <3>2. cli[r].pc \in {"wait", "peer"}
      BY <2>1, <2>2, <1>i, <1>t DEF CliType, Waiting
    <3>. QED  BY <2>1, <2>2, <3>1, <3>2, <1>i, <1>w, GotoIs
  <2>3. CASE Goto(r, "incomplete") /\ UNCHANGED toCli
    BY <2>1, <2>3, <1>i, <1>w, GotoIs
  <2>. QED  BY <1>7, <2>2, <2>3 DEF SendGrant
<1>8. CASE ReadReport(r)
  <2>1. kern[r].pc = "read" /\ UNCHANGED <<toCli, open, cli, wk, eff>>
    BY <1>8, <1>0 DEF ReadReport, At
  <2>. QED  BY <2>1, <1>8, <1>i, <1>w, ReadIs, FrameTags
<1>9. CASE RecordReport(r)
  <2>1. kern[r].pc = "record" /\ UNCHANGED <<toCli, toKern, open, cli, wk, eff>>
    BY <1>9, <1>0 DEF RecordReport, At
  <2>2. Acknowledge(r) \/ Goto(r, "incomplete")
    BY <1>9 DEF RecordReport
  <2>. QED  BY <2>1, <2>2, <1>i, <1>w, AcknowledgeIs, GotoIs
<1>10. CASE SendAck(r)
  <2>1. kern[r].pc = "ack" /\ UNCHANGED <<toKern, open, cli, wk, eff>>
    BY <1>10, <1>0 DEF SendAck, At
  <2>2. CASE Goto(r, "incomplete") /\ UNCHANGED toCli
    BY <2>1, <2>2, <1>i, <1>w, GotoIs
  <2>3. CASE /\ open[r] /\ toCli' = [toCli EXCEPT ![r] = [t |-> "ack", at |-> kern[r].idx]]
             /\ Ends(r) \/ Goto(r, "read")
    <3>1. toCli'[r].t = "ack"
      BY <2>3, <1>t
    <3>2. cli[r].pc \in {"batch", "finish", "peer"}
      BY <2>1, <2>3, <1>i, <1>t DEF CliType, Waiting
    <3>3. kern'[r].pc \in {"read", "over"}
      BY <2>3, GotoIs, EndsIs
    <3>. QED  BY <2>1, <2>3, <3>1, <3>2, <3>3, <1>i, <1>w
  <2>. QED  BY <1>10, <2>2, <2>3 DEF SendAck
<1>11. CASE WriteIncomplete(r)
  <2>1. Ends(r) /\ kern[r].pc = "incomplete" /\ UNCHANGED <<toCli, toKern, open, cli, wk, eff>>
    BY <1>11, <1>0 DEF WriteIncomplete, At
  <2>. QED  BY <2>1, <1>i, <1>w, EndsIs
<1>. QED
  BY <1>1, <1>2, <1>3, <1>4, <1>5, <1>6, <1>7, <1>8, <1>9, <1>10, <1>11 DEF KernelStep

-----------------------------------------------------------------------------
(* Whose turn it is, through the client's steps *)

\* What the waiter's moves do to its own record.
LEMMA CliIs ==
  ASSUME Typed, NEW r \in Requests, NEW pc, cli' = [cli EXCEPT ![r].pc = pc]
  PROVE  /\ cli'[r].pc = pc /\ cli'[r].idx = cli[r].idx /\ cli'[r].finish = cli[r].finish
<1>1. cli \in [Requests -> CliType] /\ cli[r] \in CliType
  BY DEF Typed
<1>2. cli'[r] = [cli[r] EXCEPT !.pc = pc]
  BY <1>1
<1>. QED  BY <1>1, <1>2 DEF CliType

LEMMA WkAims ==
  ASSUME Typed, NEW r \in Requests, wk' = [wk EXCEPT ![r].pc = "aim"]
  PROVE  /\ wk'[r].pc = "aim" /\ wk'[r].at = wk[r].at /\ wk'[r].effect = wk[r].effect
         /\ wk'[r].finish = wk[r].finish
<1>1. wk \in [Requests -> WkType] /\ wk[r] \in WkType
  BY DEF Typed
<1>2. wk'[r] = [wk[r] EXCEPT !.pc = "aim"]
  BY <1>1
<1>. QED  BY <1>1, <1>2 DEF WkType

LEMMA StepReturnsIs ==
  ASSUME Typed, NEW r \in Requests, StepReturns(r)
  PROVE  /\ wk'[r].pc = "idle" /\ wk'[r].at = wk[r].at /\ wk'[r].effect = NoPath
         /\ wk'[r].finish = "none"
         /\ IF wk[r].effect # NoPath
              THEN /\ toKern'[r] = Batch(cli[r].idx, <<Entry(wk[r].effect)>>)
                   /\ cli'[r].pc = "batch" /\ cli'[r].idx = cli[r].idx + 1
                   /\ cli'[r].finish = wk[r].finish
              ELSE /\ toKern'[r] = Finish(cli[r].idx, Reported(r, wk[r].finish))
                   /\ cli'[r].pc = "finish" /\ cli'[r].idx = cli[r].idx
<1>1. /\ wk \in [Requests -> WkType] /\ wk[r] \in WkType
      /\ cli \in [Requests -> CliType] /\ cli[r] \in CliType
      /\ toKern \in [Requests -> Reports \union {None}]
  BY DEF Typed
<1>2. wk'[r] = [wk[r] EXCEPT !.pc = "idle", !.effect = NoPath, !.finish = "none"]
  BY <1>1 DEF StepReturns
<1>3. /\ wk'[r].pc = "idle" /\ wk'[r].at = wk[r].at /\ wk'[r].effect = NoPath
      /\ wk'[r].finish = "none"
  BY <1>1, <1>2 DEF WkType
<1>4. CASE wk[r].effect # NoPath
  <2>1. cli'[r] = [cli[r] EXCEPT !.pc = "batch", !.idx = @ + 1,
                                 !.seen = @ \union {wk[r].effect}, !.finish = wk[r].finish]
    BY <1>1, <1>4 DEF StepReturns
  <2>2. toKern'[r] = Batch(cli[r].idx, <<Entry(wk[r].effect)>>)
    BY <1>1, <1>4 DEF StepReturns
  <2>3. cli'[r].pc = "batch" /\ cli'[r].idx = cli[r].idx + 1 /\ cli'[r].finish = wk[r].finish
    BY <1>1, <2>1 DEF CliType
  <2>. QED  BY <1>3, <1>4, <2>2, <2>3
<1>5. CASE wk[r].effect = NoPath
  <2>1. cli' = [cli EXCEPT ![r].pc = "finish"]
    BY <1>5 DEF StepReturns
  <2>2. toKern'[r] = Finish(cli[r].idx, Reported(r, wk[r].finish))
    BY <1>1, <1>5 DEF StepReturns
  <2>. QED  BY <1>3, <1>5, <2>1, <2>2, CliIs
<1>. QED  BY <1>4, <1>5

\* The three uses of an acknowledgment.
NextStep(r) ==
  /\ cli[r].pc = "batch" /\ cli[r].finish = "none"
  /\ cli'[r].pc = "step" /\ cli'[r].idx = cli[r].idx
  /\ wk'[r].pc = "aim" /\ wk'[r].at = wk[r].at /\ wk'[r].effect = wk[r].effect
  /\ wk'[r].finish = wk[r].finish
  /\ toKern'[r] = toKern[r] /\ open'[r] = open[r]

LastReport(r) ==
  /\ cli[r].pc = "batch" /\ cli[r].finish # "none"
  /\ toKern'[r] = Finish(cli[r].idx, Reported(r, cli[r].finish))
  /\ cli'[r].pc = "finish" /\ cli'[r].idx = cli[r].idx
  /\ wk'[r] = wk[r] /\ open'[r] = open[r]

AllDone(r) ==
  /\ cli[r].pc = "finish"
  /\ cli'[r].pc = "done" /\ cli'[r].idx = cli[r].idx
  /\ open'[r] = FALSE
  /\ wk'[r] = wk[r] /\ toKern'[r] = toKern[r]

LEMMA AckArrivesIs ==
  ASSUME Typed, NEW r \in Requests, AckArrives(r)
  PROVE  toCli'[r] = None /\ (NextStep(r) \/ LastReport(r) \/ AllDone(r))
<1>1. /\ cli \in [Requests -> CliType] /\ cli[r] \in CliType
      /\ toKern \in [Requests -> Reports \union {None}] /\ toCli \in [Requests -> Frames]
      /\ open \in [Requests -> BOOLEAN]
  BY DEF Typed
<1>2. toCli'[r] = None
  BY <1>1 DEF AckArrives
<1>3. CASE /\ cli[r].pc = "batch" /\ cli[r].finish = "none"
           /\ cli' = [cli EXCEPT ![r].pc = "step"]
           /\ wk' = [wk EXCEPT ![r].pc = "aim"]
           /\ UNCHANGED <<toKern, open>>
  BY <1>2, <1>3, CliIs, WkAims DEF NextStep
<1>4. CASE /\ cli[r].pc = "batch" /\ cli[r].finish # "none"
           /\ toKern' = [toKern EXCEPT ![r] = Finish(cli[r].idx, Reported(r, cli[r].finish))]
           /\ cli' = [cli EXCEPT ![r].pc = "finish", ![r].finish = "none"]
           /\ UNCHANGED <<wk, open>>
  <2>1. cli'[r] = [cli[r] EXCEPT !.pc = "finish", !.finish = "none"]
    BY <1>1, <1>4
  <2>2. cli'[r].pc = "finish" /\ cli'[r].idx = cli[r].idx
    BY <1>1, <2>1 DEF CliType
  <2>3. toKern'[r] = Finish(cli[r].idx, Reported(r, cli[r].finish))
    BY <1>1, <1>4
  <2>. QED  BY <1>2, <1>4, <2>2, <2>3 DEF LastReport
<1>5. CASE /\ cli[r].pc = "finish"
           /\ cli' = [cli EXCEPT ![r].pc = "done"]
           /\ open' = [open EXCEPT ![r] = FALSE]
           /\ UNCHANGED <<wk, toKern>>
  <2>1. open'[r] = FALSE
    BY <1>1, <1>5
  <2>. QED  BY <1>2, <1>5, <2>1, CliIs DEF AllDone
<1>. QED  BY <1>2, <1>3, <1>4, <1>5 DEF AckArrives

LEMMA IdleIs ==
  /\ Idle.pc = "idle" /\ Idle.at = 1 /\ Idle.effect = NoPath /\ Idle.finish = "none"
BY DEF Idle

LEMMA ChainBounds ==
  /\ 1 \in 1 .. Len(Chain) + 1 /\ 1 # Len(Chain) + 1
  /\ \A n \in 1 .. Len(Chain) + 1 : n # Len(Chain) + 1 => n \in 1 .. Len(Chain)
  /\ \A n \in 1 .. Len(Chain) : n + 1 \in 1 .. Len(Chain) + 1 /\ n \in 1 .. Len(Chain) + 1
  /\ \A n \in 1 .. Len(Chain) : n # Len(Chain) + 1 /\ (n # Len(Chain) => n + 1 # Len(Chain) + 1)
BY TreeFacts

LEMMA ReportTags ==
  ASSUME NEW n, NEW x
  PROVE  /\ Batch(n, x).t = "batch" /\ Batch(n, x).at = n /\ Batch(n, x) # None
         /\ Finish(n, x).t = "finish" /\ Finish(n, x).at = n /\ Finish(n, x) # None
         /\ Batch(n, x).effects = x
<1>1. Batch(n, x).t = "batch" /\ Finish(n, x).t = "finish" /\ Batch(n, x).at = n
      /\ Finish(n, x).at = n /\ Batch(n, x).effects = x
  BY DEF Batch, Finish
<1>. QED  BY <1>1, FrameTags

LEMMA ClientTurn ==
  ASSUME Typed, TurnInv, NEW r \in Requests, ClientStep(r)
  PROVE  (Turn(r) /\ Work(r))'
<1>0. /\ UNCHANGED subject => UNCHANGED <<cli, wk, disk, eff, other>>
  BY DEF subject
<1>i. Turn(r) /\ Work(r)
  BY DEF TurnInv
<1>t. /\ toCli \in [Requests -> Frames] /\ toKern \in [Requests -> Reports \union {None}]
      /\ kern[r] \in KernType /\ cli[r] \in CliType /\ open \in [Requests -> BOOLEAN]
      /\ wk \in [Requests -> WkType] /\ wk[r].at \in Nat
  BY DEF Typed, WkType
<1>w. ASSUME UNCHANGED <<cli, wk, eff>>
      PROVE  Work(r)'
  BY <1>i, <1>w DEF Work
<1>. USE DEF Resting, Granted
<1>1. CASE GrantArrives(r)
  <2>1. /\ cli[r].pc = "wait" /\ toCli[r].t = "grant" /\ cli' = [cli EXCEPT ![r].pc = "step"]
        /\ wk' = [wk EXCEPT ![r].pc = "aim"] /\ UNCHANGED <<toKern, open, eff, kern>>
    BY <1>1 DEF GrantArrives
  <2>2. toCli'[r] = None
    BY <1>1, <1>t DEF GrantArrives
  <2>3. Turn(r)'
    BY <2>1, <2>2, <1>i, CliIs, FrameTags DEF Turn
  <2>4. wk[r] = Idle
    BY <2>1, <1>i DEF Work
  <2>5. cli'[r].pc = "step"
    BY <2>1, CliIs
  <2>6. wk'[r].pc = "aim" /\ wk'[r].at = 1 /\ wk'[r].effect = NoPath /\ wk'[r].finish = "none"
    BY <2>1, <2>4, WkAims, IdleIs
  <2>7. Work(r)'
    BY <2>5, <2>6, ChainBounds DEF Work
  <2>. QED  BY <2>3, <2>7
<1>2. CASE Quit(r)
  <2>1. cli[r].pc \in Waiting /\ cli' = [cli EXCEPT ![r].pc = "gone"] /\ UNCHANGED <<toKern, eff, kern, wk>>
    BY <1>2 DEF Quit
  <2>2. toCli'[r] = None /\ open'[r] = FALSE
    BY <1>2, <1>t DEF Quit
  <2>3. Turn(r)'
    BY <2>1, <2>2, <1>i, CliIs, FrameTags DEF Turn, Waiting
  <2>4. Work(r)'
    <3>1. cli[r].pc = "wait" => wk[r].at # Len(Chain) + 1
      BY <1>i, IdleIs, TreeFacts DEF Work
    <3>. QED  BY <2>1, <3>1, <1>i, CliIs DEF Work, Waiting
  <2>. QED  BY <2>3, <2>4
<1>3. CASE Killed(r)
  <2>1. r \in Faithful /\ cli' = [cli EXCEPT ![r].pc = "gone"] /\ UNCHANGED <<toKern, eff, kern>>
    BY <1>3 DEF Killed
  <2>2. toCli'[r] = None /\ open'[r] = FALSE /\ wk'[r] = Idle
    BY <1>3, <1>t DEF Killed
  <2>3. Turn(r)'
    BY <2>1, <2>2, <1>i, CliIs, FrameTags DEF Turn
  <2>4. Work(r)'
    <3>1. cli'[r].pc = "gone"
      BY <2>1, CliIs
    <3>2. wk'[r].pc = "idle" /\ wk'[r].at = 1 /\ wk'[r].effect = NoPath /\ wk'[r].finish = "none"
      BY <2>2, IdleIs
    <3>. QED  BY <3>1, <3>2, ChainBounds DEF Work
  <2>. QED  BY <2>3, <2>4
<1>4. CASE StepReturns(r)
  <2>1. cli[r].pc = "step" /\ wk[r].pc = "ret" /\ UNCHANGED <<toCli, open, eff, kern>>
    BY <1>4 DEF StepReturns
  <2>2. cli'[r].pc \in {"batch", "finish"} /\ toKern'[r] # None
    <3>1. CASE wk[r].effect = NoPath
      <4>1. toKern'[r] = Finish(cli[r].idx, Reported(r, wk[r].finish)) /\ cli'[r].pc = "finish"
        BY <1>4, <3>1, StepReturnsIs
      <4>. QED  BY <4>1, ReportTags
    <3>2. CASE wk[r].effect # NoPath
      <4>1. toKern'[r] = Batch(cli[r].idx, <<Entry(wk[r].effect)>>) /\ cli'[r].pc = "batch"
        BY <1>4, <3>2, StepReturnsIs
      <4>. QED  BY <4>1, ReportTags
    <3>. QED  BY <3>1, <3>2
  <2>3. Turn(r)'
    BY <2>1, <2>2, <1>i, FrameTags DEF Turn
  <2>4. Work(r)'
    <3>1. wk[r].effect # NoPath => cli'[r].pc = "batch" /\ cli'[r].finish = wk[r].finish
      BY <1>4, StepReturnsIs
    <3>2. wk[r].effect = NoPath => cli'[r].pc = "finish"
      BY <1>4, StepReturnsIs
    <3>3. wk'[r].pc = "idle" /\ wk'[r].at = wk[r].at /\ wk'[r].effect = NoPath /\ wk'[r].finish = "none"
      BY <1>4, StepReturnsIs
    <3>. QED  BY <2>1, <2>2, <3>1, <3>2, <3>3, <1>i DEF Work
  <2>. QED  BY <2>3, <2>4
<1>5. CASE AckArrives(r)
  <2>1. toCli[r].t = "ack" /\ UNCHANGED <<eff, kern>> /\ toCli'[r] = None
    BY <1>5, AckArrivesIs DEF AckArrives
  <2>2. CASE NextStep(r)
    <3>1. Turn(r)'
      BY <2>1, <2>2, <1>i, FrameTags DEF Turn, NextStep
    <3>2. Work(r)'
      <4>1. wk[r].pc = "idle" /\ wk[r].effect = NoPath
        BY <2>2, <1>i DEF Work, NextStep
      <4>2. wk[r].at # Len(Chain) + 1 /\ wk[r].at \in 1 .. Len(Chain) + 1
        BY <2>2, <4>1, <1>i DEF Work, NextStep
      <4>3. wk'[r].finish = "none"
        BY <2>2, <4>1, <1>i DEF Work, NextStep
      <4>. QED  BY <2>2, <4>1, <4>2, <4>3 DEF Work, NextStep
    <3>. QED  BY <3>1, <3>2
  <2>3. CASE LastReport(r)
    <3>1. Turn(r)'
      BY <2>1, <2>3, <1>i, FrameTags DEF Turn, LastReport
    <3>2. Work(r)'
      BY <2>1, <2>3, <1>i, TreeFacts DEF Work, LastReport
    <3>. QED  BY <3>1, <3>2
  <2>4. CASE AllDone(r)
    <3>1. Turn(r)'
      BY <2>1, <2>4, <1>i, FrameTags DEF Turn, AllDone
    <3>2. Work(r)'
      BY <2>1, <2>4, <1>i, TreeFacts DEF Work, AllDone
    <3>. QED  BY <3>1, <3>2
  <2>. QED  BY <1>5, <2>2, <2>3, <2>4, AckArrivesIs
<1>6. CASE PeerReports(r)
  <2>1. r \notin Faithful /\ kern[r].pc = "read" /\ UNCHANGED <<open, kern, cli, wk, eff>>
    BY <1>6, <1>0 DEF PeerReports
  <2>2. toCli'[r] = None
    BY <1>6, <1>t DEF PeerReports
  <2>3. Turn(r)'
    BY <2>1, <2>2, <1>i, FrameTags DEF Turn
  <2>. QED  BY <2>1, <2>3, <1>w
<1>7. CASE PeerCloses(r)
  <2>1. UNCHANGED <<toKern, kern, cli, wk, eff>>
    BY <1>7, <1>0 DEF PeerCloses
  <2>2. toCli'[r] = None /\ open'[r] = FALSE
    BY <1>7, <1>t DEF PeerCloses
  <2>3. Turn(r)'
    BY <2>1, <2>2, <1>i, FrameTags DEF Turn
  <2>. QED  BY <2>1, <2>3, <1>w
<1>. QED  BY <1>1, <1>2, <1>3, <1>4, <1>5, <1>6, <1>7 DEF ClientStep

-----------------------------------------------------------------------------
(* Whose turn it is, through the worker's steps and the surroundings *)

LEMMA StopsIs ==
  ASSUME Typed, NEW r \in Requests, NEW o, Stops(r, o)
  PROVE  /\ wk'[r].pc = "ret" /\ wk'[r].finish = o /\ wk'[r].at = wk[r].at
         /\ wk'[r].effect = wk[r].effect
<1>1. wk \in [Requests -> WkType] /\ wk[r] \in WkType
  BY DEF Typed
<1>2. wk'[r] = [wk[r] EXCEPT !.pc = "ret", !.finish = o]
  BY <1>1 DEF Stops
<1>. QED  BY <1>1, <1>2 DEF WkType

LEMMA TargetsIs ==
  ASSUME Typed, NEW r \in Requests, NEW p, NEW d, NEW c, NEW st, Targets(r, p, d, c, st)
  PROVE  /\ \/ wk'[r].pc = "armed" /\ wk'[r].finish = "none"
            \/ wk'[r].pc = "ret" /\ wk'[r].finish # "none"
         /\ wk'[r].target = p /\ wk'[r].closing = c /\ wk'[r].stack = st
         /\ wk'[r].at = wk[r].at /\ wk'[r].effect = wk[r].effect
<1>1. wk \in [Requests -> WkType] /\ wk[r] \in WkType
  BY DEF Typed
<1>2. Reserve(r, p, d) \in {"armed", "LimitReached", "PathChanged"}
  BY DEF Reserve
<1>3. wk'[r] = [wk[r] EXCEPT !.stack = st, !.pc = IF Reserve(r, p, d) = "armed" THEN "armed" ELSE "ret",
         !.target = p, !.closing = c,
         !.finish = IF Reserve(r, p, d) = "armed" THEN "none" ELSE Reserve(r, p, d)]
  BY <1>1 DEF Targets
<1>. QED  BY <1>1, <1>2, <1>3 DEF WkType

\* What an effect leaves in the worker's hands.
LEMMA EffectIs ==
  ASSUME Typed, TurnInv, NEW r \in Requests, RemoveEntry(r) \/ MakeDirectory(r) \/ DoExact(r)
  PROVE  /\ wk[r].pc = "armed" /\ wk[r].target \in Tree
         /\ wk'[r].pc = "ret" /\ wk'[r].effect = wk[r].target
         /\ wk'[r].at \in {wk[r].at, wk[r].at + 1}
         /\ wk'[r].at # wk[r].at => (wk[r].at = Len(Chain) => wk'[r].finish # "none")
         /\ eff' = [eff EXCEPT ![r] = Append(@, wk[r].target)]
         /\ UNCHANGED <<op, up, gate, kern, audit, toCli, toKern, open, cli>>
<1>1. wk \in [Requests -> WkType] /\ wk[r] \in WkType
  BY DEF Typed
<1>2. wk[r].pc = "armed" /\ Did(r) /\ UNCHANGED <<op, up, gate, kern, audit, toCli, toKern, open, cli>>
  BY DEF RemoveEntry, MakeDirectory, DoExact
<1>3. wk[r].target \in Tree
  BY <1>1, <1>2 DEF TurnInv, Work, WkType
<1>4. CASE RemoveEntry(r)
  <2>1. \E st, o : wk' = [wk EXCEPT ![r] = [wk[r] EXCEPT !.pc = "ret", !.effect = wk[r].target,
                                                         !.stack = st, !.finish = o]]
    BY <1>4, <1>1 DEF RemoveEntry
  <2>2. PICK st, o : wk' = [wk EXCEPT ![r] = [wk[r] EXCEPT !.pc = "ret", !.effect = wk[r].target,
                                                         !.stack = st, !.finish = o]]
    BY <2>1
  <2>3. wk'[r].pc = "ret" /\ wk'[r].effect = wk[r].target /\ wk'[r].at = wk[r].at
    BY <1>1, <2>2 DEF WkType
  <2>. QED  BY <1>2, <1>3, <2>3 DEF Did
<1>5. CASE MakeDirectory(r)
  <2>1. CASE wk' = [wk EXCEPT ![r].pc = "ret", ![r].effect = wk[r].target, ![r].at = @ + 1,
                     ![r].finish = IF wk[r].at = Len(Chain) THEN "Success" ELSE "none"]
    <3>1. wk'[r] = [wk[r] EXCEPT !.pc = "ret", !.effect = wk[r].target, !.at = @ + 1,
                     !.finish = IF wk[r].at = Len(Chain) THEN "Success" ELSE "none"]
      BY <1>1, <2>1
    <3>2. wk'[r].pc = "ret" /\ wk'[r].effect = wk[r].target /\ wk'[r].at = wk[r].at + 1
          /\ (wk[r].at = Len(Chain) => wk'[r].finish # "none")
      BY <1>1, <3>1 DEF WkType
    <3>. QED  BY <1>2, <1>3, <3>2 DEF Did
  <2>2. CASE wk' = [wk EXCEPT ![r].pc = "ret", ![r].effect = wk[r].target, ![r].finish = "OsRefused"]
    <3>1. wk'[r] = [wk[r] EXCEPT !.pc = "ret", !.effect = wk[r].target, !.finish = "OsRefused"]
      BY <1>1, <2>2
    <3>2. wk'[r].pc = "ret" /\ wk'[r].effect = wk[r].target /\ wk'[r].at = wk[r].at
      BY <1>1, <3>1 DEF WkType
    <3>. QED  BY <1>2, <1>3, <3>2 DEF Did
  <2>. QED  BY <1>5, <2>1, <2>2 DEF MakeDirectory
<1>6. CASE DoExact(r)
  <2>1. PICK o : wk' = [wk EXCEPT ![r].pc = "ret", ![r].effect = wk[r].target, ![r].finish = o]
    BY <1>6 DEF DoExact
  <2>2. wk'[r] = [wk[r] EXCEPT !.pc = "ret", !.effect = wk[r].target, !.finish = o]
    BY <1>1, <2>1
  <2>3. wk'[r].pc = "ret" /\ wk'[r].effect = wk[r].target /\ wk'[r].at = wk[r].at
    BY <1>1, <2>2 DEF WkType
  <2>. QED  BY <1>2, <1>3, <2>3 DEF Did
<1>. QED  BY <1>4, <1>5, <1>6

\* What a step without an effect leaves.
Walks(r) == Aim(r) \/ CallRefused(r) \/ Descend(r) \/ PassDirectory(r)

LEMMA WalkIs ==
  ASSUME Typed, TurnInv, NEW r \in Requests, Walks(r)
  PROVE  /\ wk[r].pc \in {"aim", "armed"}
         /\ wk'[r].effect = NoPath
         /\ wk'[r].pc \in {"aim", "armed"} => wk'[r].finish = "none"
         /\ wk'[r].pc \in {"aim", "armed", "ret"}
         /\ wk'[r].pc = "ret" => wk'[r].finish # "none"
         /\ wk'[r].pc = "armed" => wk'[r].target # NoPath /\ (wk'[r].closing => wk'[r].stack # <<>>)
         /\ wk'[r].at \in 1 .. Len(Chain)
         /\ UNCHANGED <<op, up, gate, kern, audit, toCli, toKern, open, cli, eff>>
<1>1. wk \in [Requests -> WkType] /\ wk[r] \in WkType
  BY DEF Typed
<1>0. wk[r].pc \in {"aim", "armed"} /\ UNCHANGED <<op, up, gate, kern, audit, toCli, toKern, open, cli, eff>>
  BY DEF Walks, Aim, CallRefused, Descend, PassDirectory
<1>2. wk[r].effect = NoPath /\ wk[r].finish = "none" /\ wk[r].at \in 1 .. Len(Chain)
  BY <1>0, ChainBounds DEF TurnInv, Work
<1>3. ASSUME NEW p \in Tree, NEW d, NEW c, NEW st, Targets(r, p, d, c, st), c => st # <<>>
      PROVE  /\ wk'[r].effect = NoPath
             /\ wk'[r].pc \in {"aim", "armed"} => wk'[r].finish = "none"
             /\ wk'[r].pc \in {"aim", "armed", "ret"}
             /\ wk'[r].pc = "ret" => wk'[r].finish # "none"
             /\ wk'[r].pc = "armed" => wk'[r].target # NoPath /\ (wk'[r].closing => wk'[r].stack # <<>>)
             /\ wk'[r].at \in 1 .. Len(Chain)
  BY <1>2, <1>3, TargetsIs, TreeFacts
<1>4. ASSUME NEW o \in Outcomes, Stops(r, o)
      PROVE  /\ wk'[r].effect = NoPath /\ wk'[r].pc = "ret" /\ wk'[r].finish # "none"
             /\ wk'[r].at \in 1 .. Len(Chain)
  BY <1>2, <1>4, StopsIs DEF Outcomes
<1>5. CASE Aim(r)
  <2>1. CASE op[r] = "tree"
    <3>0. AimTree(r)
      BY <1>5, <2>1 DEF Aim
    <3>1. CASE wk[r].stack = <<>> /\ Targets(r, Root, 0, FALSE, wk[r].stack)
      BY <3>1, <1>0, <1>3, TreeFacts
    <3>2. CASE wk[r].stack # <<>>
      <4>0. DEFINE st == wk[r].stack
                   top == st[Len(st)]
      <4>1. top.dir \in Tree /\ top.todo \in SUBSET Tree
        BY <1>1, <3>2, StackTop DEF WkType
      <4>2. CASE \E p \in top.todo \union Children(disk[r], top.dir) :
                   Targets(r, p, Len(p) - Len(Root), FALSE, [st EXCEPT ![Len(st)].todo = @ \ {p}])
        <5>1. PICK p \in top.todo \union Children(disk[r], top.dir) :
                   Targets(r, p, Len(p) - Len(Root), FALSE, [st EXCEPT ![Len(st)].todo = @ \ {p}])
          BY <4>2
        <5>2. disk[r] \in SUBSET Tree
          BY DEF Typed
        <5>3. p \in Tree
          BY <4>1, <5>2 DEF Children
        <5>. HIDE DEF st, top
        <5>. QED  BY <5>1, <5>3, <1>0, <1>3
      <4>3. CASE Targets(r, top.dir, Len(top.dir) - Len(Root), TRUE, st)
        <5>1. /\ \/ wk'[r].pc = "armed" /\ wk'[r].finish = "none"
                 \/ wk'[r].pc = "ret" /\ wk'[r].finish # "none"
              /\ wk'[r].target = top.dir /\ wk'[r].stack = st
              /\ wk'[r].at = wk[r].at /\ wk'[r].effect = wk[r].effect
          <6>. HIDE DEF st, top
          <6>1. DEFINE v == Reserve(r, top.dir, Len(top.dir) - Len(Root))
          <6>2. v \in {"armed", "LimitReached", "PathChanged"}
            BY DEF Reserve
          <6>3. wk'[r] = [wk[r] EXCEPT !.stack = st, !.pc = IF v = "armed" THEN "armed" ELSE "ret",
                    !.target = top.dir, !.closing = TRUE,
                    !.finish = IF v = "armed" THEN "none" ELSE v]
            BY <1>1, <4>3 DEF Targets
          <6>. HIDE DEF v
          <6>. QED  BY <1>1, <6>2, <6>3 DEF WkType
        <5>2. wk'[r].target # NoPath /\ wk'[r].stack # <<>>
          BY <5>1, <4>1, <3>2, TreeFacts
        <5>. HIDE DEF st, top
        <5>. QED  BY <5>1, <5>2, <1>0, <1>2
      <4>4. CASE \E o \in {"OsRefused", "PathChanged", "UnsupportedName"} : Stops(r, o)
        BY <4>4, <1>0, <1>4 DEF Outcomes
      <4>. QED  BY <3>0, <3>2, <4>2, <4>3, <4>4 DEF AimTree
    <3>. QED  BY <3>0, <3>1, <3>2 DEF AimTree
  <2>2. CASE op[r] = "dirs"
    <3>1. Targets(r, Chain[wk[r].at], wk[r].at, FALSE, <<>>)
      BY <1>5, <2>2 DEF Aim
    <3>2. Chain[wk[r].at] \in Tree
      BY <1>2, TreeFacts
    <3>. QED  BY <3>1, <3>2, <1>0, <1>3
  <2>3. CASE op[r] # "tree" /\ op[r] # "dirs"
    <3>1. Targets(r, Root, 1, FALSE, <<>>)
      BY <1>5, <2>3 DEF Aim
    <3>. QED  BY <3>1, <1>0, <1>3, TreeFacts
  <2>. QED  BY <2>1, <2>2, <2>3
<1>6. CASE CallRefused(r)
  BY <1>6, <1>0, <1>4 DEF CallRefused, Outcomes
<1>7. CASE Descend(r)
  <2>1. CASE Stops(r, "LimitReached")
    BY <2>1, <1>0, <1>4 DEF Outcomes
  <2>2. CASE wk' = [wk EXCEPT ![r].pc = "aim",
                 ![r].stack = Append(@, [dir |-> wk[r].target,
                                         todo |-> Children(disk[r], wk[r].target)])]
    <3>1. PICK st : wk'[r] = [wk[r] EXCEPT !.pc = "aim", !.stack = st]
      BY <1>1, <2>2
    <3>2. wk'[r].pc = "aim" /\ wk'[r].at = wk[r].at /\ wk'[r].effect = wk[r].effect
          /\ wk'[r].finish = wk[r].finish
      BY <1>1, <3>1 DEF WkType
    <3>. QED  BY <3>2, <1>0, <1>2
  <2>. QED  BY <1>7, <2>1, <2>2 DEF Descend
<1>8. CASE PassDirectory(r)
  <2>1. CASE Stops(r, "Success")
    BY <2>1, <1>0, <1>4 DEF Outcomes
  <2>2. CASE wk[r].at # Len(Chain) /\ wk' = [wk EXCEPT ![r].pc = "aim", ![r].at = @ + 1]
    <3>1. wk'[r] = [wk[r] EXCEPT !.pc = "aim", !.at = @ + 1]
      BY <1>1, <2>2
    <3>2. wk'[r].pc = "aim" /\ wk'[r].at = wk[r].at + 1 /\ wk'[r].effect = wk[r].effect
          /\ wk'[r].finish = wk[r].finish
      BY <1>1, <3>1 DEF WkType
    <3>3. wk[r].at + 1 \in 1 .. Len(Chain)
      BY <1>2, <2>2, TreeFacts
    <3>. QED  BY <3>2, <3>3, <1>0, <1>2
  <2>. QED  BY <1>8, <2>1, <2>2 DEF PassDirectory
<1>. QED  BY <1>5, <1>6, <1>7, <1>8 DEF Walks

LEMMA WorkerTurn ==
  ASSUME Typed, TurnInv, NEW r \in Requests, WorkerStep(r)
  PROVE  (Turn(r) /\ Work(r))'
<1>i. Turn(r) /\ Work(r)
  BY DEF TurnInv
<1>c. cli[r].pc \in Waiting \union {"peer", "gone", "done"}
  BY DEF Typed, CliType
<1>1. CASE RemoveEntry(r) \/ MakeDirectory(r) \/ DoExact(r)
  <2>1. /\ wk[r].pc = "armed" /\ wk[r].target \in Tree
        /\ wk'[r].pc = "ret" /\ wk'[r].effect = wk[r].target
        /\ wk'[r].at \in {wk[r].at, wk[r].at + 1}
        /\ wk'[r].at # wk[r].at => (wk[r].at = Len(Chain) => wk'[r].finish # "none")
        /\ UNCHANGED <<kern, toCli, toKern, open, cli>>
    BY <1>1, EffectIs
  <2>2. wk'[r].effect # NoPath
    BY <2>1, TreeFacts
  <2>3. wk[r].at \in 1 .. Len(Chain)
    BY <2>1, <1>i, ChainBounds DEF Work
  <2>4. cli[r].pc \in {"step", "gone"}
    BY <2>1, <1>i, <1>c, IdleIs DEF Work, Waiting
  <2>5. /\ wk'[r].at \in 1 .. Len(Chain) + 1
        /\ wk'[r].at = Len(Chain) + 1 => wk'[r].finish # "none"
    BY <2>1, <2>3, ChainBounds
  <2>6. Work(r)'
    BY <2>1, <2>2, <2>4, <2>5 DEF Work
  <2>7. Turn(r)'
    BY <2>1, <1>i DEF Turn
  <2>. QED  BY <2>6, <2>7
<1>2. CASE Walks(r)
  <2>1. /\ wk[r].pc \in {"aim", "armed"}
        /\ wk'[r].effect = NoPath
        /\ wk'[r].pc \in {"aim", "armed"} => wk'[r].finish = "none"
        /\ wk'[r].pc \in {"aim", "armed", "ret"}
        /\ wk'[r].pc = "ret" => wk'[r].finish # "none"
        /\ wk'[r].pc = "armed" => wk'[r].target # NoPath /\ (wk'[r].closing => wk'[r].stack # <<>>)
        /\ wk'[r].at \in 1 .. Len(Chain)
        /\ UNCHANGED <<kern, toCli, toKern, open, cli, eff>>
    BY <1>2, WalkIs
  <2>2. cli[r].pc \in {"step", "gone"}
    BY <2>1, <1>i, <1>c, IdleIs DEF Work, Waiting
  <2>3. wk'[r].at \in 1 .. Len(Chain) + 1 /\ wk'[r].at # Len(Chain) + 1
    BY <2>1, ChainBounds
  <2>4. Work(r)'
    BY <2>1, <2>2, <2>3 DEF Work
  <2>5. Turn(r)'
    BY <2>1, <1>i DEF Turn
  <2>. QED  BY <2>4, <2>5
<1>. QED  BY <1>1, <1>2 DEF WorkerStep, Walks

LEMMA AroundTurn ==
  ASSUME TurnInv, NEW r \in Requests, Around(r)
  PROVE  (Turn(r) /\ Work(r))'
<1>1. UNCHANGED <<kern, toCli, toKern, open, cli, wk, eff>>
  BY DEF Around, OrphanEnds, Land, KernelLate, ClientLate, OtherProcess, subject
<1>2. Turn(r) /\ Work(r)
  BY DEF TurnInv
<1>3. Turn(r)'
  BY <1>1, <1>2 DEF Turn
<1>4. Work(r)'
  BY <1>1, <1>2 DEF Work
<1>. QED  BY <1>3, <1>4

LEMMA TurnStep ==
  ASSUME Typed, TurnInv, [Next]_vars
  PROVE  TurnInv'
<1>1. CASE UNCHANGED vars
  <2>1. UNCHANGED <<kern, toCli, toKern, open, cli, wk, eff>>
    BY <1>1 DEF vars, subject
  <2>. QED  BY <2>1 DEF TurnInv, Turn, Work
<1>2. CASE DaemonDies
  <2>1. UNCHANGED <<kern, toCli, toKern, open, cli, wk, eff>>
    BY <1>2 DEF DaemonDies, subject
  <2>. QED  BY <2>1 DEF TurnInv, Turn, Work
<1>3. ASSUME NEW r \in Requests, Step(r)
      PROVE  TurnInv'
  <2>1. (Turn(r) /\ Work(r))'
    BY <1>3, KernelTurn, ClientTurn, WorkerTurn, AroundTurn DEF Step
  <2>2. ASSUME NEW s \in Requests, s # r
        PROVE  (Turn(s) /\ Work(s))'
    <3>1. Kept(s)
      BY <1>3, <2>2, StepLocal
    <3>2. Turn(s) /\ Work(s)
      BY DEF TurnInv
    <3>3. Turn(s)'
      BY <3>1, <3>2 DEF Kept, Turn
    <3>4. Work(s)'
      BY <3>1, <3>2 DEF Kept, Work
    <3>. QED  BY <3>3, <3>4
  <2>. QED  BY <2>1, <2>2 DEF TurnInv
<1>. QED  BY <1>1, <1>2, <1>3 DEF Next, Step, Around

LEMMA InitTurn == Init => TurnInv
<1>. SUFFICES ASSUME Init, NEW r \in Requests PROVE Turn(r) /\ Work(r)
  BY DEF TurnInv
<1>1. /\ kern[r] = Fresh /\ toCli[r] = None /\ toKern[r] = None /\ wk[r] = Idle /\ eff[r] = <<>>
      /\ cli[r].pc = (IF r \in Faithful THEN "wait" ELSE "peer") /\ cli[r].idx = 0
  BY DEF Init
<1>2. Turn(r)
  BY <1>1, FrameTags DEF Turn, Fresh
<1>3. Work(r)
  BY <1>1, IdleIs, ChainBounds DEF Work
<1>. QED  BY <1>2, <1>3

LEMMA StepCases ==
  ASSUME [Next]_vars
  PROVE  UNCHANGED vars \/ DaemonDies \/ \E r \in Requests : Step(r)
BY DEF Next, Step, Around

\* Every reachable state is typed, and each end of a connection is where the
\* other one lets it be.
THEOREM TurnsAlwaysTaken == Spec => [](Typed /\ TurnInv)
<1>1. Init => Typed /\ TurnInv
  BY InitTyped, InitTurn
<1>2. Typed /\ TurnInv /\ [Next]_vars => (Typed /\ TurnInv)'
  <2>. SUFFICES ASSUME Typed, TurnInv, [Next]_vars PROVE (Typed /\ TurnInv)'
    OBVIOUS
  <2>1. TurnInv'
    BY TurnStep
  <2>2. Typed'
    <3>1. CASE UNCHANGED vars
      BY <3>1 DEF vars, gate, audit, subject, Typed
    <3>2. CASE DaemonDies
      BY <3>2, DeathTyped
    <3>3. CASE \E r \in Requests : Step(r)
      BY <3>3, KernelTyped, ClientTyped, WorkerTyped, AroundTyped DEF Step
    <3>. QED  BY <3>1, <3>2, <3>3, StepCases
  <2>. QED  BY <2>1, <2>2
<1>. QED  BY <1>1, <1>2, PTL DEF Spec

-----------------------------------------------------------------------------
(* The gate *)

Running == {r \in Requests : prep[r] # "none"}
Holding == {r \in Requests : kern[r].permit}

\* Where a handler is says whether its worker runs and whether it holds a permit.
Seat(r) ==
  /\ prep[r] = "running" <=> kern[r].pc = "prep"
  /\ prep[r] # "none" => kern[r].pc # "idle"
  /\ kern[r].permit => kern[r].pc \notin {"idle", "prep", "over"}

GateInv ==
  /\ \A r \in Requests : Seat(r)
  /\ claims = {UidOf[r] : r \in Running}
  /\ \A r, s \in Running : UidOf[r] = UidOf[s] => r = s
  /\ permits \in Nat
  /\ permits + Cardinality(Running) + Cardinality(Holding) = MaxWorkers

LEMMA FiniteGate ==
  /\ IsFiniteSet(Running) /\ Cardinality(Running) \in Nat
  /\ IsFiniteSet(Holding) /\ Cardinality(Holding) \in Nat
<1>1. Running \subseteq Requests /\ Holding \subseteq Requests
  BY DEF Running, Holding
<1>2. IsFiniteSet(Running) /\ IsFiniteSet(Holding)
  BY <1>1, FS_Subset, MutationAssumption
<1>. QED  BY <1>2, FS_CardinalityType

\* Nothing about the gate moves.
LEMMA GateIdle ==
  ASSUME GateInv, UNCHANGED <<claims, permits, prep>>,
         \A s \in Requests : kern'[s].permit = kern[s].permit,
         \A s \in Requests : Seat(s)'
  PROVE  GateInv'
<1>1. Running' = Running
  BY DEF Running
<1>2. Holding' = Holding
  BY DEF Holding
<1>. QED  BY <1>1, <1>2 DEF GateInv

\* A handler returns, with or without a permit.
LEMMA GateEnds ==
  ASSUME Typed, GateInv, NEW r \in Requests, Ends(r), kern[r].pc # "prep",
         \A s \in Requests : s # r => kern'[s] = kern[s]
  PROVE  GateInv'
<1>0. UNCHANGED <<claims, prep>>
  BY DEF Ends
<1>1. kern'[r].pc = "over" /\ kern'[r].permit = FALSE
  BY EndsIs
<1>2. Running' = Running
  BY <1>0 DEF Running
<1>3. Holding' = Holding \ {r}
  BY <1>1 DEF Holding
<1>4. \A s \in Requests : Seat(s)'
  BY <1>0, <1>1 DEF GateInv, Seat
<1>5. Cardinality(Holding \ {r}) = IF r \in Holding THEN Cardinality(Holding) - 1
                                   ELSE Cardinality(Holding)
  BY FiniteGate, FS_RemoveElement
<1>6. permits' = IF r \in Holding THEN permits + 1 ELSE permits
  BY DEF Ends, Holding
<1>7. /\ permits' \in Nat
      /\ permits' + Cardinality(Running') + Cardinality(Holding') = MaxWorkers
  BY <1>2, <1>3, <1>5, <1>6, FiniteGate DEF GateInv
<1>. QED  BY <1>0, <1>2, <1>4, <1>7 DEF GateInv

\* A worker is started with a claim and a permit.
LEMMA GateAdmits ==
  ASSUME Typed, GateInv, NEW r \in Requests, Admit(r),
         \A s \in Requests : s # r => kern'[s] = kern[s]
  PROVE  GateInv'
<1>0. /\ UidOf[r] \notin claims /\ permits > 0 /\ kern[r].pc = "idle"
      /\ claims' = claims \union {UidOf[r]} /\ permits' = permits - 1
      /\ prep' = [prep EXCEPT ![r] = "running"] /\ Goto(r, "prep")
  BY DEF Admit, At
<1>p. prep \in [Requests -> {"none", "running", "orphan"}]
  BY DEF Typed
<1>1. kern'[r].pc = "prep" /\ kern'[r].permit = kern[r].permit
  BY <1>0, GotoIs
<1>2. r \notin Running /\ ~kern[r].permit
  BY <1>0 DEF GateInv, Seat, Running
<1>3. Running' = Running \union {r}
  BY <1>0, <1>p DEF Running
<1>4. Holding' = Holding
  BY <1>1 DEF Holding
<1>5. \A s \in Requests : Seat(s)'
  BY <1>0, <1>1, <1>2, <1>p DEF GateInv, Seat
<1>6. Cardinality(Running \union {r}) = Cardinality(Running) + 1
  BY <1>2, FiniteGate, FS_AddElement
<1>7. /\ permits' \in Nat
      /\ permits' + Cardinality(Running') + Cardinality(Holding') = MaxWorkers
  BY <1>0, <1>3, <1>4, <1>6, FiniteGate DEF GateInv
<1>8. claims' = {UidOf[s] : s \in Running'}
  BY <1>0, <1>3 DEF GateInv
<1>9. \A s, t \in Running' : UidOf[s] = UidOf[t] => s = t
  BY <1>0, <1>3 DEF GateInv
<1>. QED  BY <1>5, <1>7, <1>8, <1>9 DEF GateInv

\* A worker ends: the claim goes, and the permit with it or on to the handler.
LEMMA GateReleases ==
  ASSUME Typed, GateInv, NEW r \in Running,
         prep' = [prep EXCEPT ![r] = "none"], claims' = claims \ {UidOf[r]},
         \A s \in Requests : s # r => kern'[s] = kern[s],
         Seat(r)',
         \/ permits' = permits + 1 /\ kern'[r].permit = kern[r].permit
         \/ permits' = permits /\ ~kern[r].permit /\ kern'[r].permit
  PROVE  GateInv'
<1>r. r \in Requests
  BY DEF Running
<1>p. prep \in [Requests -> {"none", "running", "orphan"}]
  BY DEF Typed
<1>1. Running' = Running \ {r}
  BY <1>p, <1>r DEF Running
<1>2. Cardinality(Running') = Cardinality(Running) - 1
  BY <1>1, FiniteGate, FS_RemoveElement
<1>3. \A s \in Requests : Seat(s)'
  BY <1>p, <1>r DEF GateInv, Seat
<1>4. /\ permits' \in Nat
      /\ permits' + Cardinality(Running') + Cardinality(Holding') = MaxWorkers
  <2>1. CASE permits' = permits + 1 /\ kern'[r].permit = kern[r].permit
    <3>1. Holding' = Holding
      BY <2>1 DEF Holding
    <3>. QED  BY <2>1, <3>1, <1>2, FiniteGate DEF GateInv
  <2>2. CASE permits' = permits /\ ~kern[r].permit /\ kern'[r].permit
    <3>1. Holding' = Holding \union {r} /\ r \notin Holding
      BY <2>2, <1>r DEF Holding
    <3>2. Cardinality(Holding') = Cardinality(Holding) + 1
      BY <3>1, FiniteGate, FS_AddElement
    <3>. QED  BY <2>2, <3>2, <1>2, FiniteGate DEF GateInv
  <2>. QED  BY <2>1, <2>2
<1>5. claims' = {UidOf[s] : s \in Running'}
  <2>1. claims = {UidOf[s] : s \in Running}
    BY DEF GateInv
  <2>2. \A s \in Running : UidOf[s] = UidOf[r] => s = r
    BY DEF GateInv
  <2>. QED  BY <1>1, <2>1, <2>2
<1>6. \A s, t \in Running' : UidOf[s] = UidOf[t] => s = t
  BY <1>1 DEF GateInv
<1>. QED  BY <1>3, <1>4, <1>5, <1>6 DEF GateInv

LEMMA GateStep ==
  ASSUME Typed, GateInv, [Next]_vars
  PROVE  GateInv'
<1>g. UNCHANGED gate => UNCHANGED <<claims, permits, prep>>
  BY DEF gate
<1>1. CASE UNCHANGED vars \/ DaemonDies
  <2>1. UNCHANGED <<claims, permits, prep, kern>>
    BY <1>1 DEF vars, gate, DaemonDies
  <2>. QED  BY <2>1, GateIdle DEF GateInv, Seat
<1>2. ASSUME NEW r \in Requests, Step(r)
      PROVE  GateInv'
  <2>0. \A s \in Requests : s # r => kern'[s] = kern[s] /\ prep'[s] = prep[s]
    BY <1>2, StepLocal DEF Kept
  <2>s. \A s \in Requests : Seat(s)
    BY DEF GateInv
  <2>p. /\ prep \in [Requests -> {"none", "running", "orphan"}]
        /\ kern[r].permit \in BOOLEAN
    BY DEF Typed, KernType
  <2>i. ASSUME UNCHANGED <<claims, permits, prep>>, kern'[r].permit = kern[r].permit, Seat(r)'
        PROVE  GateInv'
    BY <2>0, <2>s, <2>i, GateIdle DEF Seat
  <2>1. CASE Turned(r)
    <3>1. Goto(r, "refuse") /\ kern[r].pc = "idle" /\ UNCHANGED <<claims, permits, prep>>
      BY <2>1, <1>g DEF Turned, At
    <3>. QED  BY <3>1, <2>i, <2>s, GotoIs DEF Seat
  <2>2. CASE Admit(r)
    BY <2>2, <2>0, GateAdmits
  <2>3. CASE Prepared(r)
    <3>1. /\ kern[r].pc = "prep" /\ prep[r] = "running"
          /\ prep' = [prep EXCEPT ![r] = "none"] /\ claims' = claims \ {UidOf[r]}
      BY <2>3 DEF Prepared, At
    <3>2. r \in Running /\ prep'[r] = "none" /\ ~kern[r].permit
      BY <3>1, <2>p, <2>s DEF Running, Seat
    <3>3. CASE permits' = permits + 1 /\ Goto(r, "refuse")
      <4>1. kern'[r].pc = "refuse" /\ kern'[r].permit = kern[r].permit
        BY <3>3, GotoIs
      <4>2. Seat(r)'
        BY <4>1, <3>2 DEF Seat
      <4>. QED  BY <4>1, <4>2, <3>1, <3>2, <3>3, <2>0, GateReleases
    <3>4. CASE /\ UNCHANGED permits
               /\ \E pc \in {"refuse", "intent"} :
                    kern' = [kern EXCEPT ![r].pc = pc, ![r].permit = TRUE]
      <4>0. PICK pc \in {"refuse", "intent"} : kern' = [kern EXCEPT ![r].pc = pc, ![r].permit = TRUE]
        BY <3>4
      <4>k. kern \in [Requests -> KernType] /\ kern[r] \in KernType
        BY DEF Typed
      <4>1. kern'[r] = [kern[r] EXCEPT !.pc = pc, !.permit = TRUE]
        BY <4>0, <4>k
      <4>2. kern'[r].pc = pc /\ kern'[r].permit = TRUE
        BY <4>1, <4>k DEF KernType
      <4>3. Seat(r)'
        BY <4>2, <3>2 DEF Seat
      <4>. QED  BY <4>2, <4>3, <3>1, <3>2, <3>4, <2>0, GateReleases
    <3>. QED  BY <2>3, <3>3, <3>4 DEF Prepared
  <2>4. CASE PrepTimesOut(r)
    <3>1. /\ kern[r].pc = "prep" /\ Goto(r, "refuse") /\ UNCHANGED <<claims, permits>>
          /\ prep' = [prep EXCEPT ![r] = "orphan"]
      BY <2>4 DEF PrepTimesOut, At
    <3>2. kern'[r].pc = "refuse" /\ kern'[r].permit = kern[r].permit /\ prep'[r] = "orphan"
      BY <3>1, <2>p, GotoIs
    <3>3. Running' = Running
      BY <3>1, <3>2, <2>0, <2>s DEF Running, Seat
    <3>4. Holding' = Holding
      BY <3>2, <2>0 DEF Holding
    <3>5. \A s \in Requests : Seat(s)'
      BY <3>1, <3>2, <2>0, <2>s DEF Seat
    <3>. QED  BY <3>1, <3>3, <3>4, <3>5 DEF GateInv
  <2>e. ASSUME Ends(r), kern[r].pc # "prep" PROVE GateInv'
    BY <2>e, <2>0, GateEnds
  <2>k. ASSUME NEW pc, Goto(r, pc), UNCHANGED <<claims, permits, prep>>,
               kern[r].pc \notin {"idle", "prep", "over"}, pc \notin {"idle", "prep", "over"}
        PROVE  GateInv'
    BY <2>k, <2>i, <2>s, GotoIs DEF Seat
  <2>5. CASE Refuse(r)
    BY <2>5, <2>e DEF Refuse, At
  <2>6. CASE CommitIntent(r)
    BY <2>6, <1>g, <2>e, <2>k DEF CommitIntent, At
  <2>7. CASE SendGrant(r)
    BY <2>7, <1>g, <2>k DEF SendGrant, At
  <2>8. CASE ReadReport(r)
    <3>1. kern[r].pc = "read" /\ UNCHANGED <<claims, permits, prep>>
      BY <2>8, <1>g DEF ReadReport, At
    <3>2. kern'[r].pc \in {"record", "incomplete"} /\ kern'[r].permit = kern[r].permit
      BY <2>8, ReadIs
    <3>. QED  BY <3>1, <3>2, <2>i, <2>s DEF Seat
  <2>9. CASE RecordReport(r)
    <3>1. kern[r].pc = "record" /\ UNCHANGED <<claims, permits, prep>>
      BY <2>9, <1>g DEF RecordReport, At
    <3>2. CASE Acknowledge(r)
      BY <3>1, <3>2, <2>i, <2>s, AcknowledgeIs DEF Seat
    <3>3. CASE Goto(r, "incomplete")
      BY <3>1, <3>3, <2>k
    <3>. QED  BY <2>9, <3>2, <3>3 DEF RecordReport
  <2>10. CASE SendAck(r)
    BY <2>10, <1>g, <2>e, <2>k DEF SendAck, At
  <2>11. CASE WriteIncomplete(r)
    BY <2>11, <2>e DEF WriteIncomplete, At
  <2>12. CASE OrphanEnds(r)
    <3>1. /\ prep[r] = "orphan" /\ prep' = [prep EXCEPT ![r] = "none"]
          /\ claims' = claims \ {UidOf[r]} /\ permits' = permits + 1 /\ kern' = kern
      BY <2>12 DEF OrphanEnds
    <3>2. r \in Running /\ prep'[r] = "none"
      BY <3>1, <2>p DEF Running
    <3>3. Seat(r)'
      BY <3>1, <3>2, <2>s DEF Seat
    <3>. QED  BY <3>1, <3>2, <3>3, GateReleases
  <2>13. CASE ClientStep(r) \/ WorkerStep(r) \/ Land(r) \/ KernelLate(r) \/ ClientLate(r)
              \/ OtherProcess(r)
    <3>1. UNCHANGED <<gate, kern>>
      <4>1. CASE ClientStep(r)
        BY <4>1 DEF ClientStep, GrantArrives, Quit, Killed, StepReturns, AckArrives, PeerReports,
                    PeerCloses
      <4>2. CASE WorkerStep(r)
        BY <4>2 DEF WorkerStep, Aim, CallRefused, RemoveEntry, Descend, MakeDirectory,
                    PassDirectory, DoExact
      <4>3. CASE Land(r) \/ KernelLate(r) \/ ClientLate(r) \/ OtherProcess(r)
        BY <4>3 DEF Land, KernelLate, ClientLate, OtherProcess
      <4>. QED  BY <2>13, <4>1, <4>2, <4>3
    <3>. QED  BY <3>1, <1>g, <2>i, <2>s DEF Seat
  <2>. QED
    BY <1>2, <2>1, <2>2, <2>3, <2>4, <2>5, <2>6, <2>7, <2>8, <2>9, <2>10, <2>11, <2>12, <2>13
    DEF Step, KernelStep, Around
<1>. QED  BY <1>1, <1>2, StepCases

LEMMA InitGate == Init => GateInv
<1>. SUFFICES ASSUME Init PROVE GateInv
  OBVIOUS
<1>1. Running = {} /\ Holding = {}
  BY DEF Init, Running, Holding, Fresh
<1>2. \A r \in Requests : Seat(r)
  BY DEF Init, Seat, Fresh
<1>3. Cardinality(Running) = 0 /\ Cardinality(Holding) = 0
  BY <1>1, FS_EmptySet
<1>4. permits = MaxWorkers /\ claims = {}
  BY DEF Init
<1>5. permits \in Nat /\ permits + Cardinality(Running) + Cardinality(Holding) = MaxWorkers
  BY <1>3, <1>4, MutationAssumption
<1>. QED  BY <1>1, <1>2, <1>4, <1>5 DEF GateInv

LEMMA GateInvHolds == Spec => []GateInv
<1>1. Typed /\ GateInv /\ [Next]_vars => GateInv'
  BY GateStep
<1>. QED  BY <1>1, InitGate, TurnsAlwaysTaken, PTL DEF Spec

\* The gate counts what really runs: a uid is claimed exactly while one worker
\* prepares for it, also when its handler timed out and went on (UidGate,
\* UidClaim::drop), and no permit is lost or minted, whatever the number of
\* requests, uids and permits.
THEOREM GateAlwaysExact == Spec => []GateExact
<1>1. GateInv => GateExact
  BY DEF GateInv, GateExact, Running, Holding
<1>. QED  BY <1>1, GateInvHolds, PTL

-----------------------------------------------------------------------------
(* Type correctness *)

\* Every variable keeps its type: the free permits stay between none and all, a
\* claimed uid is some request's, and an effect is a path of the tree.
THEOREM TypeCorrect == Spec => []TypeOK
<1>1. Typed /\ GateInv /\ op \in Asks => TypeOK
  <2>. SUFFICES ASSUME Typed, GateInv, op \in Asks PROVE TypeOK
    OBVIOUS
  <2>1. permits \in 0 .. MaxWorkers
    BY FiniteGate, MutationAssumption DEF GateInv
  <2>2. claims \subseteq Uids
    BY DEF GateInv, Running, Uids
  <2>. QED  BY <2>1, <2>2 DEF TypeOK, Typed, KernType, KernPcs, Records, Frames, CliType,
                              StackType, WkType
<1>2. Spec => [](op \in Asks)
  <2>1. Init => op \in Asks
    BY DEF Init
  <2>2. op \in Asks /\ Typed /\ [Next]_vars => (op \in Asks)'
    <3>. SUFFICES ASSUME op \in Asks, Typed, [Next]_vars PROVE op' = op
      OBVIOUS
    <3>1. CASE \E r \in Requests : Step(r)
      BY <3>1, StepSame
    <3>. QED  BY <3>1, StepCases DEF vars, DaemonDies
  <2>. QED  BY <2>1, <2>2, TurnsAlwaysTaken, PTL DEF Spec
<1>. QED  BY <1>1, <1>2, GateInvHolds, TurnsAlwaysTaken, PTL

-----------------------------------------------------------------------------
(* The end of an attempt *)

LEMMA AppendIs ==
  ASSUME Typed, NEW r \in Requests, NEW x
  PROVE  /\ Appended(r, x) => /\ trail'[r] = trail[r] \union {x}
                              /\ landing'[r] = landing[r] /\ lost'[r] = lost[r]
         /\ AppendFails(r, x) => /\ trail'[r] = trail[r] /\ lost'[r] = TRUE
                                 /\ landing'[r] = landing[r] \union {x}
BY DEF Typed, Appended, AppendFails

\* The steps that touch neither the trail nor a handler.
Elsewhere(r) ==
  \/ ClientStep(r) \/ WorkerStep(r)
  \/ OrphanEnds(r) \/ KernelLate(r) \/ ClientLate(r) \/ OtherProcess(r)

LEMMA ElsewhereIs ==
  ASSUME NEW r \in Requests, Elsewhere(r)
  PROVE  UNCHANGED <<kern, trail, landing, lost>>
<1>1. UNCHANGED audit => UNCHANGED <<trail, landing, lost>>
  BY DEF audit
<1>2. CASE ClientStep(r)
  BY <1>1, <1>2 DEF ClientStep, GrantArrives, Quit, Killed, StepReturns, AckArrives, PeerReports,
                    PeerCloses
<1>3. CASE WorkerStep(r)
  BY <1>1, <1>3 DEF WorkerStep, Aim, CallRefused, RemoveEntry, Descend, MakeDirectory,
                    PassDirectory, DoExact
<1>4. CASE OrphanEnds(r) \/ KernelLate(r) \/ ClientLate(r) \/ OtherProcess(r)
  BY <1>1, <1>4 DEF OrphanEnds, KernelLate, ClientLate, OtherProcess
<1>. QED  BY <1>2, <1>3, <1>4 DEF Elsewhere

LEMMA LandIs ==
  ASSUME Typed, NEW r \in Requests, Land(r)
  PROVE  /\ \E x \in landing[r] : trail'[r] = trail[r] \union {x} /\ landing'[r] = landing[r] \ {x}
         /\ UNCHANGED <<op, up, kern, lost, toCli, toKern, open, cli, wk, eff>>
<1>1. UNCHANGED <<op, up, kern, lost, toCli, toKern, open, cli, wk, eff>>
  BY DEF Land, subject
<1>2. PICK x \in landing[r] : /\ trail' = [trail EXCEPT ![r] = @ \union {x}]
                              /\ landing' = [landing EXCEPT ![r] = @ \ {x}]
  BY DEF Land
<1>3. trail'[r] = trail[r] \union {x} /\ landing'[r] = landing[r] \ {x}
  BY <1>2 DEF Typed
<1>. QED  BY <1>1, <1>3

\* A handler that is over has left an end, unless an append was given up.
End(r) ==
  /\ up /\ ~lost[r] => landing[r] = {}
  /\ (up /\ ~lost[r] /\ kern[r].pc \in {"idle", "prep", "refuse", "intent"})
       => Intent \notin trail[r]
  /\ kern[r].term => OnTrail(r, "finish")
  /\ (up /\ kern[r].pc = "over" /\ Intent \in trail[r] /\ ~lost[r])
       => (OnTrail(r, "finish") \/ Incomplete \in trail[r])

EndInv == \A r \in Requests : End(r)

LEMMA OnTrailGrows ==
  ASSUME NEW r \in Requests, NEW t, trail[r] \subseteq trail'[r], OnTrail(r, t)
  PROVE  OnTrail(r, t)'
BY DEF OnTrail

LEMMA KernelEnd ==
  ASSUME Typed, TurnInv, EndInv, NEW r \in Requests, KernelStep(r)
  PROVE  End(r)'
<1>i. End(r) /\ Turn(r)
  BY DEF EndInv, TurnInv
<1>u. up' = up
  BY StepSame DEF Step
<1>t. /\ lost[r] \in BOOLEAN /\ kern[r].pend \in Reports \union {None}
      /\ kern[r].term \in BOOLEAN
  BY DEF Typed, KernType
<1>0. UNCHANGED audit => UNCHANGED <<trail, landing, lost>>
  BY DEF audit
<1>g. trail[r] \subseteq trail'[r] => (OnTrail(r, "finish") => OnTrail(r, "finish")')
  BY OnTrailGrows
<1>f. Intent # Deny /\ Intent # Incomplete
  BY FrameTags
<1>. USE DEF End
<1>1. CASE Turned(r)
  <2>1. Goto(r, "refuse") /\ kern[r].pc = "idle" /\ UNCHANGED <<trail, landing, lost>>
    BY <1>1, <1>0 DEF Turned, At
  <2>. QED  BY <2>1, <1>i, <1>u, <1>g, GotoIs
<1>2. CASE Admit(r)
  <2>1. Goto(r, "prep") /\ kern[r].pc = "idle" /\ UNCHANGED <<trail, landing, lost>>
    BY <1>2, <1>0 DEF Admit, At
  <2>. QED  BY <2>1, <1>i, <1>u, <1>g, GotoIs
<1>3. CASE Prepared(r)
  <2>1. kern[r].pc = "prep" /\ UNCHANGED <<trail, landing, lost>>
    BY <1>3, <1>0 DEF Prepared, At
  <2>. QED  BY <1>3, <2>1, <1>i, <1>u, <1>g, PreparedIs
<1>4. CASE PrepTimesOut(r)
  <2>1. Goto(r, "refuse") /\ kern[r].pc = "prep" /\ UNCHANGED <<trail, landing, lost>>
    BY <1>4, <1>0 DEF PrepTimesOut, At
  <2>. QED  BY <2>1, <1>i, <1>u, <1>g, GotoIs
<1>5. CASE Refuse(r)
  <2>1. /\ Ends(r) /\ kern[r].pc = "refuse"
        /\ Appended(r, Deny) \/ AppendFails(r, Deny)
    BY <1>5 DEF Refuse, At
  <2>2. /\ kern'[r].pc = "over" /\ kern'[r].term = kern[r].term
        /\ trail[r] \subseteq trail'[r] /\ (Intent \in trail'[r] => Intent \in trail[r])
        /\ lost'[r] \/ (lost'[r] = lost[r] /\ landing'[r] = landing[r])
    <3>0. kern'[r].pc = "over" /\ kern'[r].term = kern[r].term
      BY <2>1, EndsIs
    <3>1. CASE Appended(r, Deny)
      <4>1. trail'[r] = trail[r] \union {Deny} /\ landing'[r] = landing[r] /\ lost'[r] = lost[r]
        BY <3>1, AppendIs
      <4>. QED  BY <3>0, <4>1, <1>f
    <3>2. CASE AppendFails(r, Deny)
      <4>1. trail'[r] = trail[r] /\ lost'[r] = TRUE
        BY <3>2, AppendIs
      <4>. QED  BY <3>0, <4>1
    <3>. QED  BY <2>1, <3>1, <3>2
  <2>. QED  BY <2>1, <2>2, <1>i, <1>u, <1>g, <1>t
<1>6. CASE CommitIntent(r)
  <2>1. /\ kern[r].pc = "intent"
        /\ \/ Appended(r, Intent) /\ Goto(r, "grant")
           \/ AppendFails(r, Intent) /\ Ends(r)
    BY <1>6 DEF CommitIntent, At
  <2>2. CASE Appended(r, Intent) /\ Goto(r, "grant")
    <3>1. /\ kern'[r].pc = "grant" /\ kern'[r].term = kern[r].term /\ trail[r] \subseteq trail'[r]
          /\ lost'[r] = lost[r] /\ landing'[r] = landing[r]
      BY <2>2, GotoIs, AppendIs
    <3>. QED  BY <3>1, <1>i, <1>u, <1>g
  <2>3. CASE AppendFails(r, Intent) /\ Ends(r)
    <3>1. /\ kern'[r].pc = "over" /\ kern'[r].term = kern[r].term /\ trail[r] = trail'[r]
          /\ lost'[r] = TRUE
      BY <2>3, EndsIs, AppendIs
    <3>. QED  BY <3>1, <1>i, <1>u, <1>g
  <2>. QED  BY <2>1, <2>2, <2>3
<1>7. CASE SendGrant(r)
  <2>1. /\ kern[r].pc = "grant" /\ UNCHANGED <<trail, landing, lost>>
        /\ Goto(r, "read") \/ Goto(r, "incomplete")
    BY <1>7, <1>0 DEF SendGrant, At
  <2>. QED  BY <2>1, <1>i, <1>u, <1>g, GotoIs
<1>8. CASE ReadReport(r)
  <2>1. kern[r].pc = "read" /\ UNCHANGED <<trail, landing, lost>>
    BY <1>8, <1>0 DEF ReadReport, At
  <2>. QED  BY <1>8, <2>1, <1>i, <1>u, <1>g, ReadIs
<1>9. CASE RecordReport(r)
  <2>0. kern[r].pc = "record" /\ kern[r].pend \in Reports
    BY <1>9, <1>i, <1>t DEF RecordReport, At, Turn
  <2>1. CASE Appended(r, kern[r].pend) /\ Acknowledge(r)
    <3>1. kern[r].pend.t = "finish" => OnTrail(r, "finish")'
      <4>1. trail'[r] = trail[r] \union {kern[r].pend}
        BY <2>1, AppendIs
      <4>. QED  BY <4>1 DEF OnTrail
    <3>2. kern'[r].pc = "ack" /\ kern'[r].term = (kern[r].pend.t = "finish")
      BY <2>1, AcknowledgeIs
    <3>3. lost'[r] = lost[r] /\ landing'[r] = landing[r]
      BY <2>1, AppendIs
    <3>. QED  BY <2>0, <3>1, <3>2, <3>3, <1>i, <1>u
  <2>2. CASE AppendFails(r, kern[r].pend) /\ Goto(r, "incomplete")
    <3>1. /\ kern'[r].pc = "incomplete" /\ kern'[r].term = kern[r].term /\ trail[r] = trail'[r]
          /\ lost'[r] = TRUE
      BY <2>2, GotoIs, AppendIs
    <3>. QED  BY <3>1, <1>i, <1>u, <1>g
  <2>. QED  BY <1>9, <2>1, <2>2 DEF RecordReport
<1>10. CASE SendAck(r)
  <2>1. kern[r].pc = "ack" /\ UNCHANGED <<trail, landing, lost>>
    BY <1>10, <1>0 DEF SendAck, At
  <2>2. (kern[r].term /\ Ends(r)) \/ Goto(r, "read") \/ Goto(r, "incomplete")
    BY <1>10 DEF SendAck
  <2>3. CASE kern[r].term /\ Ends(r)
    BY <2>1, <2>3, <1>i, <1>u, <1>g, EndsIs
  <2>4. CASE Goto(r, "read") \/ Goto(r, "incomplete")
    BY <2>1, <2>4, <1>i, <1>u, <1>g, GotoIs
  <2>. QED  BY <2>2, <2>3, <2>4
<1>11. CASE WriteIncomplete(r)
  <2>1. /\ Ends(r) /\ kern[r].pc = "incomplete"
        /\ Appended(r, Incomplete) \/ AppendFails(r, Incomplete)
    BY <1>11 DEF WriteIncomplete, At
  <2>2. /\ kern'[r].pc = "over" /\ kern'[r].term = kern[r].term
        /\ trail[r] \subseteq trail'[r]
        /\ lost'[r] \/ (Incomplete \in trail'[r] /\ lost'[r] = lost[r] /\ landing'[r] = landing[r])
    BY <2>1, <1>f, EndsIs, AppendIs
  <2>. QED  BY <2>1, <2>2, <1>i, <1>u, <1>g, <1>t
<1>. QED
  BY <1>1, <1>2, <1>3, <1>4, <1>5, <1>6, <1>7, <1>8, <1>9, <1>10, <1>11 DEF KernelStep

LEMMA EndStep ==
  ASSUME Typed, TurnInv, EndInv, [Next]_vars
  PROVE  EndInv'
<1>1. CASE UNCHANGED vars
  BY <1>1 DEF vars, audit, EndInv, End, OnTrail
<1>2. CASE DaemonDies
  <2>1. up' = FALSE /\ UNCHANGED <<kern, trail>>
    BY <1>2 DEF DaemonDies
  <2>. QED  BY <2>1 DEF EndInv, End, OnTrail
<1>3. ASSUME NEW r \in Requests, Step(r)
      PROVE  EndInv'
  <2>u. up' = up
    BY <1>3, StepSame
  <2>i. End(r)
    BY DEF EndInv
  <2>1. End(r)'
    <3>1. CASE KernelStep(r)
      BY <3>1, KernelEnd
    <3>2. CASE Elsewhere(r)
      <4>1. UNCHANGED <<kern, trail, landing, lost>>
        BY <3>2, ElsewhereIs
      <4>. QED  BY <4>1, <2>u, <2>i DEF End, OnTrail
    <3>3. CASE Land(r)
      <4>1. /\ trail[r] \subseteq trail'[r] /\ landing[r] # {}
            /\ UNCHANGED <<kern, lost>>
        BY <3>3, LandIs
      <4>2. OnTrail(r, "finish") => OnTrail(r, "finish")'
        BY <4>1, OnTrailGrows
      <4>. QED  BY <4>1, <4>2, <2>u, <2>i DEF End
    <3>. QED  BY <1>3, <3>1, <3>2, <3>3 DEF Step, Around, Elsewhere
  <2>5. ASSUME NEW s \in Requests, s # r
        PROVE  End(s)'
    <3>1. Kept(s)
      BY <1>3, <2>5, StepLocal
    <3>. QED  BY <3>1 DEF Kept, EndInv, End, OnTrail
  <2>. QED  BY <2>1, <2>5 DEF EndInv
<1>. QED  BY <1>1, <1>2, <1>3, StepCases

LEMMA InitEnd == Init => EndInv
BY DEF Init, EndInv, End, Fresh

\* A granted attempt leaves an end on the trail, the subject's own account or the
\* kernel's "incomplete" (mutation.rs handle, attempt, incomplete), unless an
\* append about it failed or the daemon died, in every order of reports,
\* timeouts and disconnections.
THEOREM EndAlwaysRecorded == Spec => []EndIsRecorded
<1>1. Typed /\ TurnInv /\ EndInv /\ [Next]_vars => EndInv'
  BY EndStep
<1>2. EndInv => EndIsRecorded
  BY DEF EndInv, End, EndIsRecorded
<1>. QED  BY <1>1, <1>2, InitEnd, TurnsAlwaysTaken, PTL DEF Spec

-----------------------------------------------------------------------------
(* What the kernel's steps do to the account: four moves *)

\* Records that are not a report.
Marks == {Intent, Deny, Incomplete}

Attending == {"grant", "read", "record", "ack"}

\* The frame the kernel leaves on its way to the client.
Sends(r) ==
  \/ toCli'[r] = toCli[r]
  \/ toCli'[r] = None
  \/ toCli'[r] = Deny /\ Deny \in trail'[r]
  \/ toCli'[r].t = "grant" /\ kern[r].pc = "grant"
  \/ toCli'[r].t = "ack" /\ toCli'[r].at = kern[r].idx /\ kern[r].pc = "ack"

\* No report is taken or recorded.
Quiet(r) ==
  /\ kern[r].pc # "over" /\ kern'[r].pc \notin {"record", "ack"}
  /\ kern[r].pc = "incomplete" => kern'[r].pc = "over"
  /\ kern'[r].pc \in Attending => kern[r].pc \in Attending \/ Intent \in trail'[r]
  /\ kern'[r].idx = kern[r].idx /\ kern'[r].seen = kern[r].seen
  /\ kern'[r].term = kern[r].term /\ kern'[r].pend \in {kern[r].pend, None}
  /\ trail[r] \subseteq trail'[r] /\ trail'[r] \subseteq trail[r] \union Marks
  /\ landing[r] \subseteq landing'[r] /\ landing'[r] \subseteq landing[r] \union Marks
  /\ toKern'[r] \in {toKern[r], None}
  /\ Sends(r)

\* A valid report is in hand.
Takes(r) ==
  /\ kern[r].pc = "read" /\ kern'[r].pc = "record"
  /\ toKern[r] \in Reports /\ ReportOk(r, toKern[r])
  /\ kern'[r].idx = kern[r].idx /\ kern'[r].seen = kern[r].seen /\ kern'[r].term = kern[r].term
  /\ kern'[r].pend = toKern[r] /\ toKern'[r] = None
  /\ trail'[r] = trail[r] /\ landing'[r] = landing[r] /\ toCli'[r] = toCli[r]

\* The report is durable and the exchange advances.
Books(r) ==
  /\ kern[r].pc = "record" /\ kern'[r].pc = "ack" /\ kern[r].pend \in Reports
  /\ kern'[r].idx = kern[r].idx +
       (IF kern[r].pend.t = "batch" THEN Len(kern[r].pend.effects) ELSE 0)
  /\ kern'[r].seen = kern[r].seen \union PathsOf(kern[r].pend)
  /\ kern'[r].term = (kern[r].pend.t = "finish") /\ kern'[r].pend = None
  /\ trail'[r] = trail[r] \union {kern[r].pend} /\ landing'[r] = landing[r]
  /\ toKern'[r] = toKern[r] /\ toCli'[r] = toCli[r]

\* Its append was given up.
Drops(r) ==
  /\ kern[r].pc = "record" /\ kern'[r].pc = "incomplete" /\ kern[r].pend \in Reports
  /\ kern'[r].idx = kern[r].idx /\ kern'[r].seen = kern[r].seen /\ kern'[r].term = kern[r].term
  /\ kern'[r].pend = kern[r].pend
  /\ trail'[r] = trail[r] /\ landing'[r] = landing[r] \union {kern[r].pend}
  /\ toKern'[r] = toKern[r] /\ toCli'[r] = toCli[r]

LEMMA KernelMoves ==
  ASSUME Typed, TurnInv, NEW r \in Requests, KernelStep(r)
  PROVE  /\ up /\ UNCHANGED <<op, up, open, cli, wk, eff>>
         /\ Quiet(r) \/ Takes(r) \/ Books(r) \/ Drops(r)
<1>0. /\ UNCHANGED subject => UNCHANGED <<cli, wk, eff>>
      /\ UNCHANGED audit => UNCHANGED <<trail, landing, lost>>
  BY DEF subject, audit
<1>i. Turn(r)
  BY DEF TurnInv
<1>t. /\ toCli \in [Requests -> Frames] /\ kern[r].pend \in Reports \union {None}
  BY DEF Typed, KernType
<1>u. up /\ UNCHANGED <<op, up, open, cli, wk, eff>>
  BY <1>0 DEF KernelStep, Turned, Admit, Prepared, PrepTimesOut, Refuse, CommitIntent, SendGrant,
              ReadReport, RecordReport, SendAck, WriteIncomplete, At
<1>1. CASE Turned(r)
  <2>1. Goto(r, "refuse") /\ kern[r].pc = "idle" /\ UNCHANGED <<toCli, toKern, trail, landing>>
    BY <1>1, <1>0 DEF Turned, At
  <2>. QED  BY <2>1, <1>u, GotoIs DEF Quiet, Sends, Attending
<1>2. CASE Admit(r)
  <2>1. Goto(r, "prep") /\ kern[r].pc = "idle" /\ UNCHANGED <<toCli, toKern, trail, landing>>
    BY <1>2, <1>0 DEF Admit, At
  <2>. QED  BY <2>1, <1>u, GotoIs DEF Quiet, Sends, Attending
<1>3. CASE Prepared(r)
  <2>1. kern[r].pc = "prep" /\ UNCHANGED <<toCli, toKern, trail, landing>>
    BY <1>3, <1>0 DEF Prepared, At
  <2>. QED  BY <2>1, <1>3, <1>u, PreparedIs DEF Quiet, Sends, Attending
<1>4. CASE PrepTimesOut(r)
  <2>1. Goto(r, "refuse") /\ kern[r].pc = "prep" /\ UNCHANGED <<toCli, toKern, trail, landing>>
    BY <1>4, <1>0 DEF PrepTimesOut, At
  <2>. QED  BY <2>1, <1>u, GotoIs DEF Quiet, Sends, Attending
<1>5. CASE Refuse(r)
  <2>1. kern[r].pc = "refuse" /\ UNCHANGED toKern
    BY <1>5 DEF Refuse, At
  <2>2. /\ kern'[r].pc = "over" /\ kern'[r].idx = kern[r].idx /\ kern'[r].seen = kern[r].seen
        /\ kern'[r].term = kern[r].term /\ kern'[r].pend = None
    BY <1>5, EndsIs DEF Refuse
  <2>3. CASE Appended(r, Deny) /\ toCli' = [toCli EXCEPT ![r] = IF open[r] THEN Deny ELSE None]
    <3>1. trail'[r] = trail[r] \union {Deny} /\ landing'[r] = landing[r]
      BY <2>3, AppendIs
    <3>2. toCli'[r] \in {Deny, None}
      BY <2>3, <1>t
    <3>. QED  BY <2>1, <2>2, <3>1, <3>2, <1>u DEF Quiet, Sends, Attending, Marks
  <2>4. CASE AppendFails(r, Deny) /\ UNCHANGED toCli
    <3>1. trail'[r] = trail[r] /\ landing'[r] = landing[r] \union {Deny}
      BY <2>4, AppendIs
    <3>. QED  BY <2>1, <2>2, <2>4, <3>1, <1>u DEF Quiet, Sends, Attending, Marks
  <2>. QED  BY <1>5, <2>3, <2>4 DEF Refuse
<1>6. CASE CommitIntent(r)
  <2>1. kern[r].pc = "intent" /\ UNCHANGED <<toKern, toCli>>
    BY <1>6 DEF CommitIntent, At
  <2>2. CASE Appended(r, Intent) /\ Goto(r, "grant")
    <3>1. trail'[r] = trail[r] \union {Intent} /\ landing'[r] = landing[r]
      BY <2>2, AppendIs
    <3>. QED  BY <2>1, <2>2, <3>1, <1>u, GotoIs DEF Quiet, Sends, Attending, Marks
  <2>3. CASE AppendFails(r, Intent) /\ Ends(r)
    <3>1. trail'[r] = trail[r] /\ landing'[r] = landing[r] \union {Intent}
      BY <2>3, AppendIs
    <3>. QED  BY <2>1, <2>3, <3>1, <1>u, EndsIs DEF Quiet, Sends, Attending, Marks
  <2>. QED  BY <1>6, <2>2, <2>3 DEF CommitIntent
<1>7. CASE SendGrant(r)
  <2>1. kern[r].pc = "grant" /\ UNCHANGED <<toKern, trail, landing>>
    BY <1>7, <1>0 DEF SendGrant, At
  <2>2. CASE toCli' = [toCli EXCEPT ![r] = [t |-> "grant"]] /\ Goto(r, "read")
    <3>1. toCli'[r].t = "grant"
      BY <2>2, <1>t
    <3>. QED  BY <2>1, <2>2, <3>1, <1>u, GotoIs DEF Quiet, Sends, Attending
  <2>3. CASE Goto(r, "incomplete") /\ UNCHANGED toCli
    BY <2>1, <2>3, <1>u, GotoIs DEF Quiet, Sends, Attending
  <2>. QED  BY <1>7, <2>2, <2>3 DEF SendGrant
<1>8. CASE ReadReport(r)
  <2>1. kern[r].pc = "read" /\ UNCHANGED <<toCli, trail, landing>>
    BY <1>8, <1>0 DEF ReadReport, At
  <2>2. CASE /\ toKern[r] \in Reports /\ ReportOk(r, toKern[r])
             /\ kern'[r].pc = "record" /\ kern'[r].pend = toKern[r]
    <3>1. /\ kern'[r].idx = kern[r].idx /\ kern'[r].seen = kern[r].seen
          /\ kern'[r].term = kern[r].term /\ toKern'[r] = None
      BY <1>8, ReadIs
    <3>. QED  BY <2>1, <2>2, <3>1, <1>u DEF Takes
  <2>3. CASE kern'[r].pc = "incomplete" /\ kern'[r].pend \in {None, kern[r].pend}
    <3>1. /\ kern'[r].idx = kern[r].idx /\ kern'[r].seen = kern[r].seen
          /\ kern'[r].term = kern[r].term /\ toKern'[r] = None
      BY <1>8, ReadIs
    <3>. QED  BY <2>1, <2>3, <3>1, <1>u DEF Quiet, Sends, Attending
  <2>. QED  BY <1>8, <2>2, <2>3, ReadIs
<1>9. CASE RecordReport(r)
  <2>1. kern[r].pc = "record" /\ kern[r].pend \in Reports /\ UNCHANGED <<toCli, toKern>>
    BY <1>9, <1>i, <1>t DEF RecordReport, At, Turn
  <2>2. CASE Appended(r, kern[r].pend) /\ Acknowledge(r)
    <3>1. trail'[r] = trail[r] \union {kern[r].pend} /\ landing'[r] = landing[r]
      BY <2>2, AppendIs
    <3>. QED  BY <2>1, <2>2, <3>1, <1>u, AcknowledgeIs DEF Books
  <2>3. CASE AppendFails(r, kern[r].pend) /\ Goto(r, "incomplete")
    <3>1. trail'[r] = trail[r] /\ landing'[r] = landing[r] \union {kern[r].pend}
      BY <2>3, AppendIs
    <3>. QED  BY <2>1, <2>3, <3>1, <1>u, GotoIs DEF Drops
  <2>. QED  BY <1>9, <2>2, <2>3 DEF RecordReport
<1>10. CASE SendAck(r)
  <2>1. kern[r].pc = "ack" /\ UNCHANGED <<toKern, trail, landing>>
    BY <1>10, <1>0 DEF SendAck, At
  <2>2. CASE Goto(r, "incomplete") /\ UNCHANGED toCli
    BY <2>1, <2>2, <1>u, GotoIs DEF Quiet, Sends, Attending
  <2>3. CASE /\ toCli' = [toCli EXCEPT ![r] = [t |-> "ack", at |-> kern[r].idx]]
             /\ Ends(r) \/ Goto(r, "read")
    <3>1. toCli'[r].t = "ack" /\ toCli'[r].at = kern[r].idx
      BY <2>3, <1>t
    <3>2. /\ kern'[r].pc \in {"over", "read"} /\ kern'[r].idx = kern[r].idx
          /\ kern'[r].seen = kern[r].seen /\ kern'[r].term = kern[r].term
          /\ kern'[r].pend \in {None, kern[r].pend}
      BY <2>3, EndsIs, GotoIs
    <3>. QED  BY <2>1, <3>1, <3>2, <1>u DEF Quiet, Sends, Attending
  <2>. QED  BY <1>10, <2>2, <2>3 DEF SendAck
<1>11. CASE WriteIncomplete(r)
  <2>1. kern[r].pc = "incomplete" /\ UNCHANGED <<toCli, toKern>>
    BY <1>11 DEF WriteIncomplete, At
  <2>2. /\ kern'[r].pc = "over" /\ kern'[r].idx = kern[r].idx /\ kern'[r].seen = kern[r].seen
        /\ kern'[r].term = kern[r].term /\ kern'[r].pend = None
    BY <1>11, EndsIs DEF WriteIncomplete
  <2>3. \/ trail'[r] = trail[r] \union {Incomplete} /\ landing'[r] = landing[r]
        \/ trail'[r] = trail[r] /\ landing'[r] = landing[r] \union {Incomplete}
    <3>1. CASE Appended(r, Incomplete)
      BY <3>1, AppendIs
    <3>2. CASE AppendFails(r, Incomplete)
      BY <3>2, AppendIs
    <3>. QED  BY <1>11, <3>1, <3>2 DEF WriteIncomplete
  <2>. QED  BY <2>1, <2>2, <2>3, <1>u DEF Quiet, Sends, Attending, Marks
<1>. QED
  BY <1>1, <1>2, <1>3, <1>4, <1>5, <1>6, <1>7, <1>8, <1>9, <1>10, <1>11 DEF KernelStep

-----------------------------------------------------------------------------
(* What a client is told *)

\* Nothing is granted or acknowledged before the intent, and a client that waits
\* for its last acknowledgment can only get the one of its end.
Told(r) ==
  /\ toCli[r].t = "deny" => Deny \in trail[r]
  /\ kern[r].pc \in Attending => Intent \in trail[r]
  /\ toCli[r].t \in {"grant", "ack"} => Intent \in trail[r]
  /\ \A x \in trail[r] \union landing[r] : x.t \in {"batch", "finish"} => Intent \in trail[r]
  /\ cli[r].pc = "finish" =>
       /\ kern[r].pc = "ack" \/ toCli[r].t = "ack" => kern[r].term
       /\ toKern[r] # None => toKern[r].t = "finish"
       /\ kern[r].pc = "record" => kern[r].pend.t = "finish"
  /\ cli[r].pc = "done" => OnTrail(r, "finish")

ToldInv == \A r \in Requests : Told(r)

LEMMA MarkTags == \A x \in Marks : x.t \notin {"batch", "finish"}
BY FrameTags DEF Marks

LEMMA KernelTold ==
  ASSUME Typed, TurnInv, ToldInv, NEW r \in Requests, KernelStep(r)
  PROVE  Told(r)'
<1>i. Told(r) /\ Turn(r)
  BY DEF ToldInv, TurnInv
<1>0. UNCHANGED cli
  BY KernelMoves
<1>t. kern[r].term \in BOOLEAN /\ kern[r].pc \in KernPcs
  BY DEF Typed, KernType
<1>g. trail[r] \subseteq trail'[r] => (OnTrail(r, "finish") => OnTrail(r, "finish")')
  BY OnTrailGrows
<1>1. CASE Quiet(r)
  <2>1. (toCli[r].t = "deny" => Deny \in trail[r])'
    BY <1>1, <1>i, FrameTags DEF Quiet, Sends, Told
  <2>2. (kern[r].pc \in Attending => Intent \in trail[r])'
    BY <1>1, <1>i DEF Quiet, Told
  <2>3. (toCli[r].t \in {"grant", "ack"} => Intent \in trail[r])'
    BY <1>1, <1>i, FrameTags DEF Quiet, Sends, Told, Attending
  <2>4. (\A x \in trail[r] \union landing[r] : x.t \in {"batch", "finish"} => Intent \in trail[r])'
    BY <1>1, <1>i, MarkTags DEF Quiet, Told
  <2>5. ASSUME cli[r].pc = "finish"
        PROVE  /\ kern'[r].pc = "ack" \/ toCli'[r].t = "ack" => kern'[r].term
               /\ toKern'[r] # None => toKern'[r].t = "finish"
               /\ kern'[r].pc = "record" => kern'[r].pend.t = "finish"
    BY <2>5, <1>1, <1>i, FrameTags DEF Quiet, Sends, Told
  <2>6. cli[r].pc = "done" => OnTrail(r, "finish")'
    BY <1>1, <1>i, <1>g DEF Quiet, Told
  <2>. QED  BY <2>1, <2>2, <2>3, <2>4, <2>5, <2>6, <1>0 DEF Told
<1>2. CASE Takes(r)
  <2>1. cli[r].pc = "done" => OnTrail(r, "finish")'
    BY <1>2, <1>i, <1>g DEF Takes, Told
  <2>2. kern[r].pc = "read" /\ toKern[r] # None
    BY <1>2, FrameTags DEF Takes
  <2>. QED  BY <2>1, <2>2, <1>2, <1>i, <1>0 DEF Takes, Told, Attending
<1>3. CASE Books(r)
  <2>1. cli[r].pc = "done" => OnTrail(r, "finish")'
    BY <1>3, <1>i, <1>g DEF Books, Told
  <2>2. Intent \in trail'[r] /\ toCli'[r].t \notin {"grant", "ack"}
    BY <1>3, <1>i DEF Books, Told, Attending, Turn, Resting
  <2>3. cli[r].pc = "finish" => kern'[r].term
    BY <1>3, <1>i DEF Books, Told
  <2>4. (toCli[r].t = "deny" => Deny \in trail[r])'
    BY <1>3, <1>i DEF Books, Told
  <2>5. cli[r].pc = "finish" => (toKern'[r] # None => toKern'[r].t = "finish")
    BY <1>3, <1>i DEF Books, Told
  <2>6. kern'[r].pc = "ack"
    BY <1>3 DEF Books
  <2>. QED  BY <2>1, <2>2, <2>3, <2>4, <2>5, <2>6, <1>0 DEF Told
<1>4. CASE Drops(r)
  <2>1. cli[r].pc = "done" => OnTrail(r, "finish")'
    BY <1>4, <1>i, <1>g DEF Drops, Told
  <2>2. Intent \in trail'[r] /\ toCli'[r].t \notin {"grant", "ack"}
    BY <1>4, <1>i DEF Drops, Told, Attending, Turn, Resting
  <2>4. (toCli[r].t = "deny" => Deny \in trail[r])'
    BY <1>4, <1>i DEF Drops, Told
  <2>5. cli[r].pc = "finish" => (toKern'[r] # None => toKern'[r].t = "finish")
    BY <1>4, <1>i DEF Drops, Told
  <2>6. kern'[r].pc = "incomplete"
    BY <1>4 DEF Drops
  <2>. QED  BY <2>1, <2>2, <2>4, <2>5, <2>6, <1>0 DEF Told
<1>. QED  BY <1>1, <1>2, <1>3, <1>4, KernelMoves

\* The frames after a step of the client's.
LEMMA ClientTold ==
  ASSUME Typed, TurnInv, EndInv, ToldInv, NEW r \in Requests, ClientStep(r)
  PROVE  Told(r)'
<1>i. Told(r) /\ Turn(r) /\ End(r)
  BY DEF ToldInv, TurnInv, EndInv
<1>0. UNCHANGED <<kern, trail, landing>>
  BY ElsewhereIs DEF Elsewhere
<1>s. UNCHANGED subject => UNCHANGED cli
  BY DEF subject
<1>t. toCli \in [Requests -> Frames]
  BY DEF Typed
<1>o. OnTrail(r, "finish") => OnTrail(r, "finish")'
  BY <1>0, OnTrailGrows
<1>q. ASSUME toCli'[r] = None \/ toCli'[r] = toCli[r],
             \/ cli'[r] = cli[r] /\ cli[r].pc # "finish"
             \/ cli'[r].pc \notin {"finish", "done"}
             \/ /\ cli'[r].pc = "finish" /\ toKern'[r].t = "finish"
                /\ kern[r].pc \notin {"ack", "record"} /\ toCli'[r].t # "ack"
             \/ cli'[r].pc = "done" /\ OnTrail(r, "finish")
      PROVE  Told(r)'
  <2>1. /\ toCli'[r].t = "deny" => Deny \in trail'[r]
        /\ toCli'[r].t \in {"grant", "ack"} => Intent \in trail'[r]
    BY <1>q, <1>i, <1>0, FrameTags DEF Told
  <2>2. cli'[r].pc = "done" => OnTrail(r, "finish")'
    BY <1>q, <1>i, <1>o DEF Told
  <2>3. cli'[r].pc = "finish" =>
          /\ kern'[r].pc = "ack" \/ toCli'[r].t = "ack" => kern'[r].term
          /\ toKern'[r] # None => toKern'[r].t = "finish"
          /\ kern'[r].pc = "record" => kern'[r].pend.t = "finish"
    BY <1>q, <1>0
  <2>. QED  BY <2>1, <2>2, <2>3, <1>i, <1>0 DEF Told
<1>1. CASE GrantArrives(r) \/ Quit(r) \/ Killed(r)
  <2>1. toCli'[r] = None
    BY <1>1, <1>t DEF GrantArrives, Quit, Killed
  <2>2. cli'[r].pc \in {"step", "gone"}
    BY <1>1, CliIs DEF GrantArrives, Quit, Killed
  <2>. QED  BY <2>1, <2>2, <1>q
<1>2. CASE StepReturns(r)
  <2>1. cli[r].pc = "step" /\ toCli'[r] = toCli[r]
    BY <1>2 DEF StepReturns
  <2>2. kern[r].pc \notin {"ack", "record"} /\ toCli'[r].t # "ack"
    BY <2>1, <1>i, FrameTags DEF Turn, Resting
  <2>3. CASE wk[r].effect # NoPath
    <3>1. cli'[r].pc = "batch"
      BY <1>2, <2>3, StepReturnsIs
    <3>. QED  BY <2>1, <3>1, <1>q
  <2>4. CASE wk[r].effect = NoPath
    <3>1. toKern'[r] = Finish(cli[r].idx, Reported(r, wk[r].finish)) /\ cli'[r].pc = "finish"
      BY <1>2, <2>4, StepReturnsIs
    <3>. QED  BY <2>1, <2>2, <3>1, <1>q, ReportTags
  <2>. QED  BY <2>3, <2>4
<1>3. CASE AckArrives(r)
  <2>1. toCli[r].t = "ack" /\ toCli'[r] = None
    BY <1>3, AckArrivesIs DEF AckArrives
  <2>2. kern[r].pc \notin {"ack", "record"} /\ toCli'[r].t # "ack"
    BY <2>1, <1>i, FrameTags DEF Turn, Resting
  <2>3. CASE NextStep(r)
    BY <2>1, <2>3, <1>q DEF NextStep
  <2>4. CASE LastReport(r)
    <3>1. toKern'[r].t = "finish" /\ cli'[r].pc = "finish"
      BY <2>4, ReportTags DEF LastReport
    <3>. QED  BY <2>1, <2>2, <3>1, <1>q
  <2>5. CASE AllDone(r)
    <3>1. kern[r].term
      BY <2>1, <2>5, <1>i DEF AllDone, Told
    <3>2. OnTrail(r, "finish")
      BY <3>1, <1>i DEF End
    <3>. QED  BY <2>1, <2>5, <3>2, <1>q DEF AllDone
  <2>. QED  BY <1>3, <2>3, <2>4, <2>5, AckArrivesIs
<1>4. CASE PeerReports(r) \/ PeerCloses(r)
  <2>1. toCli'[r] = None /\ cli'[r] = cli[r] /\ r \notin Faithful
    BY <1>4, <1>t, <1>s DEF PeerReports, PeerCloses
  <2>2. cli[r].pc # "finish"
    BY <2>1, <1>i DEF Turn
  <2>. QED  BY <2>1, <2>2, <1>q
<1>. QED  BY <1>1, <1>2, <1>3, <1>4 DEF ClientStep

\* The steps that change nothing a client is told of.
LEMMA RestTold ==
  ASSUME NEW r \in Requests, Told(r), UNCHANGED <<kern, toCli, toKern, cli>>,
         trail[r] \subseteq trail'[r],
         \A x \in trail'[r] \union landing'[r] :
            \/ x \in trail[r] \union landing[r]
            \/ x.t \in {"batch", "finish"} => Intent \in trail[r]
  PROVE  Told(r)'
<1>1. OnTrail(r, "finish") => OnTrail(r, "finish")'
  BY OnTrailGrows
<1>2. (\A x \in trail[r] \union landing[r] : x.t \in {"batch", "finish"} => Intent \in trail[r])'
  BY DEF Told
<1>. QED  BY <1>1, <1>2 DEF Told

\* What a daemon that dies leaves to land.
LEMMA InHandIs ==
  ASSUME NEW r \in Requests, NEW x \in InHand(r)
  PROVE  x \in Marks \/ (kern[r].pc = "record" /\ x = kern[r].pend)
BY DEF InHand, Marks

LEMMA ToldStep ==
  ASSUME Typed, TurnInv, EndInv, ToldInv, [Next]_vars
  PROVE  ToldInv'
<1>1. CASE UNCHANGED vars
  BY <1>1, RestTold DEF vars, audit, subject, ToldInv
<1>2. CASE DaemonDies
  <2>. SUFFICES ASSUME NEW r \in Requests PROVE Told(r)'
    BY DEF ToldInv
  <2>1. UNCHANGED <<kern, toCli, toKern, cli, trail>>
    BY <1>2 DEF DaemonDies, subject
  <2>2. landing'[r] = landing[r] \union InHand(r)
    BY <1>2 DEF DaemonDies
  <2>3. Told(r)
    BY DEF ToldInv
  <2>4. \A x \in InHand(r) : x.t \in {"batch", "finish"} => Intent \in trail[r]
    BY <2>3, InHandIs, MarkTags DEF Told, Attending
  <2>. QED  BY <2>1, <2>2, <2>3, <2>4, RestTold
<1>3. ASSUME NEW r \in Requests, Step(r)
      PROVE  ToldInv'
  <2>i. Told(r)
    BY DEF ToldInv
  <2>1. Told(r)'
    <3>1. CASE KernelStep(r)
      BY <3>1, KernelTold
    <3>2. CASE ClientStep(r)
      BY <3>2, ClientTold
    <3>3. CASE WorkerStep(r) \/ OrphanEnds(r) \/ KernelLate(r) \/ ClientLate(r) \/ OtherProcess(r)
      <4>1. UNCHANGED <<kern, trail, landing>>
        BY <3>3, ElsewhereIs DEF Elsewhere
      <4>2. UNCHANGED <<toCli, toKern, cli>>
        BY <3>3 DEF WorkerStep, Aim, CallRefused, RemoveEntry, Descend, MakeDirectory, PassDirectory,
                    DoExact, OrphanEnds, KernelLate, ClientLate, OtherProcess, subject
      <4>. QED  BY <4>1, <4>2, <2>i, RestTold
    <3>4. CASE Land(r)
      <4>1. PICK x \in landing[r] : /\ trail'[r] = trail[r] \union {x}
                                    /\ landing'[r] = landing[r] \ {x}
        BY <3>4, LandIs
      <4>2. UNCHANGED <<kern, toCli, toKern, cli>>
        BY <3>4, LandIs
      <4>. QED  BY <4>1, <4>2, <2>i, RestTold
    <3>. QED  BY <1>3, <3>1, <3>2, <3>3, <3>4 DEF Step, Around
  <2>2. ASSUME NEW s \in Requests, s # r
        PROVE  Told(s)'
    <3>1. Kept(s)
      BY <1>3, <2>2, StepLocal
    <3>. QED  BY <3>1 DEF Kept, ToldInv, Told, OnTrail
  <2>. QED  BY <2>1, <2>2 DEF ToldInv
<1>. QED  BY <1>1, <1>2, <1>3, StepCases

LEMMA InitTold == Init => ToldInv
<1>. SUFFICES ASSUME Init, NEW r \in Requests PROVE Told(r)
  BY DEF ToldInv
<1>1. /\ kern[r].pc = "idle" /\ toCli[r] = None /\ trail[r] = {} /\ landing[r] = {}
      /\ cli[r].pc \notin {"finish", "done"}
  BY DEF Init, Fresh
<1>. QED  BY <1>1, FrameTags DEF Told, Attending

\* What the daemon says and what the trail holds agree: in every reachable state
\* the four facts above hold together.
THEOREM ToldHolds == Spec => [](Typed /\ TurnInv /\ EndInv /\ ToldInv)
<1>1. Init => EndInv /\ ToldInv
  BY InitEnd, InitTold
<1>2. Typed /\ TurnInv /\ EndInv /\ ToldInv /\ [Next]_vars => EndInv' /\ ToldInv'
  BY EndStep, ToldStep
<1>. QED  BY <1>1, <1>2, TurnsAlwaysTaken, PTL DEF Spec

-----------------------------------------------------------------------------
(* The account of an attempt maknae-loop drives *)

\* The report of the i-th effect.
Line(r, i) == Batch(i - 1, <<Entry(eff[r][i])>>)

\* Everything the kernel's side holds about the attempt.
Known(r) == trail[r] \union landing[r] \union {toKern[r], kern[r].pend}

\* Every report is of one effect that was performed, in its place.
OfEffects(r) ==
  \A x \in Known(r) : x.t = "batch" => \E i \in 1 .. Len(eff[r]) : x = Line(r, i)

\* The exchange counts a beginning of the effects, all of them on the trail.
Counts(r) ==
  /\ kern[r].idx <= Len(eff[r])
  /\ \A i \in 1 .. kern[r].idx : Line(r, i) \in trail[r]
  /\ toCli[r].t = "ack" => toCli[r].at = kern[r].idx
  /\ kern[r].pc = "record" => kern[r].pend.at = kern[r].idx

\* A report of the end comes after the last effect, and is recorded over all.
Closes(r) ==
  /\ \A x \in Known(r) : x.t = "finish" =>
        /\ cli[r].pc \in {"finish", "gone", "done"} /\ wk[r].pc = "idle"
        /\ x.at = Len(eff[r])
  /\ \A x \in trail[r] \union landing[r] : x.t = "finish" => kern[r].idx = Len(eff[r])

\* The client counts what its worker did, and the worker acts only when all of
\* it is on the trail.
Owns(r) ==
  /\ cli[r].pc # "gone" =>
       IF wk[r].effect = NoPath THEN cli[r].idx = Len(eff[r])
       ELSE Len(eff[r]) = cli[r].idx + 1 /\ eff[r][Len(eff[r])] = wk[r].effect
  /\ wk[r].pc \in {"aim", "armed"} =>
       /\ cli[r].idx = Len(eff[r]) /\ kern[r].idx = Len(eff[r])
       /\ Intent \in trail[r]

Account(r) == OfEffects(r) /\ Counts(r) /\ Closes(r) /\ Owns(r)

AccountInv == \A r \in Faithful : Account(r)

LEMMA LineIs ==
  ASSUME NEW r, NEW i \in Nat
  PROVE  /\ Line(r, i).t = "batch" /\ Line(r, i).at = i - 1
         /\ Line(r, i).effects = <<Entry(eff[r][i])>> /\ Len(Line(r, i).effects) = 1
BY ReportTags DEF Line

\* The kernel learns nothing new, and the subject does nothing.
LEMMA NothingNew ==
  ASSUME NEW r \in Faithful, Account(r),
         trail[r] \subseteq trail'[r],
         \A x \in Known(r)' : x \in Known(r) \/ x \in Marks \/ x = None,
         \A x \in trail'[r] \union landing'[r] : x.t = "finish" =>
            x \in trail[r] \union landing[r] \/ kern[r].idx = Len(eff[r]),
         kern'[r].idx = kern[r].idx, eff'[r] = eff[r]
  PROVE  /\ OfEffects(r)' /\ (kern[r].idx <= Len(eff[r]))'
         /\ (\A i \in 1 .. kern[r].idx : Line(r, i) \in trail[r])'
         /\ \A x \in Known(r)' : x.t = "finish" => x \in Known(r)
         /\ (\A x \in trail[r] \union landing[r] : x.t = "finish" => kern[r].idx = Len(eff[r]))'
<1>l. \A i : Line(r, i)' = Line(r, i)
  BY DEF Line
<1>m. None.t = "none" /\ \A x \in Marks : x.t \notin {"batch", "finish"}
  BY FrameTags, MarkTags
<1>1. OfEffects(r)'
  BY <1>l, <1>m DEF OfEffects, Account
<1>2. \A x \in Known(r)' : x.t = "finish" => x \in Known(r)
  BY <1>m
<1>. QED  BY <1>1, <1>2, <1>l DEF Account, Counts, Closes

LEMMA KernelAccount ==
  ASSUME Typed, TurnInv, AccountInv, NEW r \in Faithful, r \in Requests, KernelStep(r)
  PROVE  Account(r)'
<1>i. Account(r) /\ Turn(r) /\ Work(r)
  BY DEF AccountInv, TurnInv
<1>0. UNCHANGED <<cli, wk, eff>>
  BY KernelMoves
<1>t. kern[r].idx \in Nat /\ Len(eff[r]) \in Nat /\ eff[r] \in Seq(Tree)
  BY DEF Typed, KernType
<1>l. \A i : Line(r, i)' = Line(r, i)
  BY <1>0 DEF Line
<1>w. ASSUME kern'[r].idx = kern[r].idx, trail[r] \subseteq trail'[r]
      PROVE  Owns(r)'
  BY <1>w, <1>0, <1>i DEF Owns, Account
<1>1. CASE Quiet(r)
  <2>1. \A x \in Known(r)' : x \in Known(r) \/ x \in Marks \/ x = None
    BY <1>1 DEF Quiet, Known
  <2>2. \A x \in trail'[r] \union landing'[r] : x.t = "finish" => x \in trail[r] \union landing[r]
    BY <1>1, MarkTags DEF Quiet
  <2>3. kern'[r].idx = kern[r].idx /\ trail[r] \subseteq trail'[r] /\ kern'[r].pc # "record"
    BY <1>1 DEF Quiet
  <2>4. /\ OfEffects(r)' /\ (kern[r].idx <= Len(eff[r]))'
        /\ (\A i \in 1 .. kern[r].idx : Line(r, i) \in trail[r])'
        /\ \A x \in Known(r)' : x.t = "finish" => x \in Known(r)
        /\ (\A x \in trail[r] \union landing[r] : x.t = "finish" => kern[r].idx = Len(eff[r]))'
    BY <2>1, <2>2, <2>3, <1>0, <1>i, NothingNew
  <2>5. toCli'[r].t = "ack" => toCli'[r].at = kern'[r].idx
    BY <1>1, <1>i, FrameTags DEF Quiet, Sends, Account, Counts
  <2>6. Closes(r)'
    BY <2>4, <1>0, <1>i DEF Closes, Account
  <2>7. Counts(r)'
    BY <2>3, <2>4, <2>5 DEF Counts
  <2>. QED  BY <2>3, <2>4, <2>6, <2>7, <1>w DEF Account
<1>2. CASE Takes(r)
  <2>1. \A x \in Known(r)' : x \in Known(r) \/ x \in Marks \/ x = None
    BY <1>2 DEF Takes, Known
  <2>2. kern'[r].idx = kern[r].idx /\ trail'[r] = trail[r] /\ landing'[r] = landing[r]
    BY <1>2 DEF Takes
  <2>4. /\ OfEffects(r)' /\ (kern[r].idx <= Len(eff[r]))'
        /\ (\A i \in 1 .. kern[r].idx : Line(r, i) \in trail[r])'
        /\ \A x \in Known(r)' : x.t = "finish" => x \in Known(r)
        /\ (\A x \in trail[r] \union landing[r] : x.t = "finish" => kern[r].idx = Len(eff[r]))'
    BY <2>1, <2>2, <1>0, <1>i, NothingNew
  <2>5. toCli'[r].t = "ack" => toCli'[r].at = kern'[r].idx
    BY <1>2, <1>i DEF Takes, Account, Counts
  <2>6. kern'[r].pend.at = kern'[r].idx
    BY <1>2 DEF Takes, ReportOk
  <2>7. Closes(r)'
    BY <2>4, <1>0, <1>i DEF Closes, Account
  <2>8. Counts(r)'
    BY <2>4, <2>5, <2>6 DEF Counts
  <2>. QED  BY <2>2, <2>4, <2>7, <2>8, <1>w DEF Account
<1>3. CASE Books(r) /\ kern[r].pend.t = "batch"
  <2>1. PICK i \in 1 .. Len(eff[r]) : kern[r].pend = Line(r, i)
    BY <1>3, <1>i DEF Account, OfEffects, Known
  <2>2. i = kern[r].idx + 1 /\ Len(kern[r].pend.effects) = 1
    BY <2>1, <1>3, <1>i, <1>t, LineIs DEF Books, Account, Counts
  <2>3. kern'[r].idx = kern[r].idx + 1 /\ kern'[r].idx <= Len(eff[r])
    BY <2>1, <2>2, <1>3, <1>t DEF Books
  <2>4. \A j \in 1 .. kern'[r].idx : Line(r, j)' \in trail'[r]
    <3>. SUFFICES ASSUME NEW j \in 1 .. kern'[r].idx PROVE Line(r, j) \in trail'[r]
      BY <1>l
    <3>1. CASE j = i
      BY <3>1, <2>1, <1>3 DEF Books
    <3>2. CASE j # i
      <4>1. j \in 1 .. kern[r].idx
        BY <3>2, <2>2, <2>3, <1>t
      <4>. QED  BY <4>1, <1>3, <1>i DEF Books, Account, Counts
    <3>. QED  BY <3>1, <3>2
  <2>5. toCli'[r].t # "ack" /\ kern'[r].pc # "record"
    BY <1>3, <1>i DEF Books, Turn, Resting
  <2>6. Counts(r)'
    BY <2>3, <2>4, <2>5, <1>0 DEF Counts
  <2>7. \A x \in Known(r)' : x \in Known(r) \/ x = None
    BY <1>3 DEF Books, Known
  <2>8. OfEffects(r)'
    BY <2>7, <1>l, <1>0, <1>i, FrameTags DEF OfEffects, Account
  <2>9. kern[r].idx # Len(eff[r])
    BY <2>3, <1>t
  <2>10. \A x \in trail'[r] \union landing'[r] : x.t # "finish"
    BY <2>9, <1>3, <1>i DEF Books, Account, Closes
  <2>11. Closes(r)'
    BY <2>7, <2>10, <1>0, <1>i, FrameTags DEF Closes, Account
  <2>12. Owns(r)'
    BY <2>9, <1>0, <1>i DEF Owns, Account
  <2>. QED  BY <2>6, <2>8, <2>11, <2>12 DEF Account
<1>4. CASE Books(r) /\ kern[r].pend.t # "batch"
  <2>1. kern[r].pend.t = "finish" /\ kern[r].pend.at = kern[r].idx /\ kern'[r].idx = kern[r].idx
    BY <1>4, <1>i, <1>t, FrameTags DEF Books, Account, Counts
  <2>2. kern[r].idx = Len(eff[r])
    BY <2>1, <1>i DEF Account, Closes, Known
  <2>3. /\ trail'[r] = trail[r] \union {kern[r].pend} /\ landing'[r] = landing[r]
        /\ kern'[r].pc = "ack" /\ toCli'[r].t # "ack"
    BY <1>4, <1>i DEF Books, Turn, Resting
  <2>4. \A x \in Known(r)' : x \in Known(r) \/ x \in Marks \/ x = None
    BY <1>4 DEF Books, Known
  <2>5. /\ OfEffects(r)' /\ (kern[r].idx <= Len(eff[r]))'
        /\ (\A i \in 1 .. kern[r].idx : Line(r, i) \in trail[r])'
        /\ \A x \in Known(r)' : x.t = "finish" => x \in Known(r)
        /\ (\A x \in trail[r] \union landing[r] : x.t = "finish" => kern[r].idx = Len(eff[r]))'
    BY <2>1, <2>2, <2>3, <2>4, <1>0, <1>i, NothingNew
  <2>6. Closes(r)'
    BY <2>5, <1>0, <1>i DEF Closes, Account
  <2>7. Counts(r)'
    BY <2>3, <2>5 DEF Counts
  <2>. QED  BY <2>1, <2>3, <2>5, <2>6, <2>7, <1>w DEF Account
<1>5. CASE Drops(r)
  <2>1. /\ kern[r].pend.at = kern[r].idx /\ kern'[r].idx = kern[r].idx
        /\ trail'[r] = trail[r] /\ landing'[r] = landing[r] \union {kern[r].pend}
        /\ kern'[r].pc = "incomplete" /\ toCli'[r].t # "ack"
    BY <1>5, <1>i DEF Drops, Account, Counts, Turn, Resting
  <2>2. kern[r].pend.t = "finish" => kern[r].idx = Len(eff[r])
    BY <2>1, <1>i DEF Account, Closes, Known
  <2>4. \A x \in Known(r)' : x \in Known(r) \/ x \in Marks \/ x = None
    BY <1>5 DEF Drops, Known
  <2>5. /\ OfEffects(r)' /\ (kern[r].idx <= Len(eff[r]))'
        /\ (\A i \in 1 .. kern[r].idx : Line(r, i) \in trail[r])'
        /\ \A x \in Known(r)' : x.t = "finish" => x \in Known(r)
        /\ (\A x \in trail[r] \union landing[r] : x.t = "finish" => kern[r].idx = Len(eff[r]))'
    BY <2>1, <2>2, <2>4, <1>0, <1>i, NothingNew
  <2>6. Closes(r)'
    BY <2>5, <1>0, <1>i DEF Closes, Account
  <2>7. Counts(r)'
    BY <2>1, <2>5 DEF Counts
  <2>. QED  BY <2>1, <2>5, <2>6, <2>7, <1>w DEF Account
<1>. QED  BY <1>1, <1>2, <1>3, <1>4, <1>5, KernelMoves

\* The client sends a report the kernel did not know.
LEMMA ClientAccount ==
  ASSUME Typed, TurnInv, ToldInv, AccountInv, NEW r \in Faithful, r \in Requests, ClientStep(r)
  PROVE  Account(r)'
<1>i. Account(r) /\ Turn(r) /\ Work(r) /\ Told(r)
  BY DEF AccountInv, TurnInv, ToldInv
<1>0. UNCHANGED <<kern, trail, landing>>
  BY ElsewhereIs DEF Elsewhere
<1>e. UNCHANGED eff
  BY DEF ClientStep, GrantArrives, Quit, Killed, StepReturns, AckArrives, PeerReports, PeerCloses,
         subject
<1>t. /\ kern[r].idx \in Nat /\ Len(eff[r]) \in Nat /\ toCli \in [Requests -> Frames]
      /\ wk \in [Requests -> WkType] /\ cli[r].idx \in Nat
  BY DEF Typed, KernType, CliType
<1>l. \A i : Line(r, i)' = Line(r, i)
  BY <1>e DEF Line
<1>k. \A x \in Known(r)' : x \in Known(r) \/ x = toKern'[r]
  BY <1>0 DEF Known
<1>c. ASSUME toCli'[r] \in {None, toCli[r]}
      PROVE  Counts(r)'
  BY <1>c, <1>0, <1>e, <1>l, <1>i, FrameTags DEF Counts, Account
<1>o. ASSUME \/ toKern'[r] = toKern[r]
             \/ toKern'[r].t = "batch" /\ \E i \in 1 .. Len(eff[r]) : toKern'[r] = Line(r, i)
             \/ toKern'[r].t = "finish"
      PROVE  OfEffects(r)'
  <2>1. \A x \in Known(r) : x.t = "batch" => \E i \in 1 .. Len(eff[r]) : x = Line(r, i)
    BY <1>i DEF OfEffects, Account
  <2>2. toKern'[r].t = "batch" => \E i \in 1 .. Len(eff[r]) : toKern'[r] = Line(r, i)
    BY <1>o, <2>1 DEF Known
  <2>. QED  BY <2>1, <2>2, <1>k, <1>l, <1>e DEF OfEffects
<1>p. ASSUME cli'[r].pc \in {"gone", "done"}, toKern'[r] = toKern[r],
             wk'[r].pc = "idle" \/ wk'[r] = wk[r]
      PROVE  Closes(r)'
  <2>1. \A x \in Known(r)' : x \in Known(r)
    BY <1>p, <1>k DEF Known
  <2>. QED  BY <1>p, <2>1, <1>0, <1>e, <1>i DEF Closes, Account
<1>n. ASSUME cli[r].pc \notin {"finish", "gone", "done"}, toKern'[r] = toKern[r] \/ toKern'[r].t = "batch"
      PROVE  Closes(r)'
  <2>1. \A x \in Known(r) : x.t # "finish"
    BY <1>n, <1>i DEF Closes, Account
  <2>2. \A x \in Known(r)' : x.t # "finish"
    BY <1>n, <2>1, <1>k DEF Known
  <2>3. trail'[r] \union landing'[r] \subseteq Known(r)'
    BY DEF Known
  <2>. QED  BY <2>2, <2>3 DEF Closes
<1>f. ASSUME cli[r].pc \notin {"finish", "gone", "done"}, cli'[r].pc = "finish", wk'[r].pc = "idle",
             toKern'[r].at = Len(eff[r])
      PROVE  Closes(r)'
  <2>1. \A x \in Known(r) : x.t # "finish"
    BY <1>f, <1>i DEF Closes, Account
  <2>2. \A x \in trail'[r] \union landing'[r] : x.t # "finish"
    BY <2>1, <1>0 DEF Known
  <2>3. \A x \in Known(r)' : x.t = "finish" => x = toKern'[r]
    BY <2>1, <1>k
  <2>. QED  BY <2>2, <2>3, <1>f, <1>e DEF Closes
<1>1. CASE GrantArrives(r)
  <2>1. /\ cli[r].pc = "wait" /\ toCli[r].t = "grant" /\ cli' = [cli EXCEPT ![r].pc = "step"]
        /\ wk' = [wk EXCEPT ![r].pc = "aim"] /\ UNCHANGED toKern
    BY <1>1 DEF GrantArrives
  <2>2. toCli'[r] = None
    BY <1>1, <1>t DEF GrantArrives
  <2>3. wk[r] = Idle /\ eff[r] = <<>> /\ cli[r].idx = 0
    BY <2>1, <1>i DEF Work
  <2>4. wk'[r].effect = NoPath /\ cli'[r].idx = 0
    BY <2>1, <2>3, CliIs, WkAims, IdleIs
  <2>5. Len(eff[r]) = 0 /\ kern[r].idx = 0
    BY <2>3, <1>i, <1>t DEF Account, Counts
  <2>6. Intent \in trail[r]
    BY <2>1, <1>i DEF Told
  <2>7. Owns(r)'
    BY <2>4, <2>5, <2>6, <1>0, <1>e DEF Owns
  <2>8. Closes(r)'
    BY <2>1, <1>n
  <2>. QED  BY <2>1, <2>2, <2>7, <2>8, <1>c, <1>o DEF Account
<1>2. CASE Quit(r)
  <2>1. cli' = [cli EXCEPT ![r].pc = "gone"] /\ UNCHANGED <<toKern, wk>>
    BY <1>2 DEF Quit
  <2>2. toCli'[r] = None
    BY <1>2, <1>t DEF Quit
  <2>3. cli'[r].pc = "gone" /\ cli'[r].idx = cli[r].idx
    BY <2>1, CliIs
  <2>4. Owns(r)'
    BY <2>1, <2>3, <1>0, <1>e, <1>i DEF Owns, Account
  <2>5. Closes(r)'
    BY <2>1, <2>3, <1>p
  <2>. QED  BY <2>1, <2>2, <2>4, <2>5, <1>c, <1>o DEF Account
<1>3. CASE Killed(r)
  <2>1. cli' = [cli EXCEPT ![r].pc = "gone"] /\ UNCHANGED toKern
    BY <1>3 DEF Killed
  <2>2. toCli'[r] = None /\ wk'[r] = Idle
    BY <1>3, <1>t DEF Killed
  <2>3. cli'[r].pc = "gone" /\ wk'[r].pc = "idle"
    BY <2>1, <2>2, CliIs, IdleIs
  <2>4. Owns(r)'
    BY <2>3 DEF Owns
  <2>5. Closes(r)'
    BY <2>1, <2>3, <1>p
  <2>. QED  BY <2>1, <2>2, <2>4, <2>5, <1>c, <1>o DEF Account
<1>4. CASE StepReturns(r)
  <2>1. cli[r].pc = "step" /\ wk[r].pc = "ret" /\ UNCHANGED toCli
    BY <1>4 DEF StepReturns
  <2>2. wk'[r].pc = "idle" /\ wk'[r].effect = NoPath
    BY <1>4, StepReturnsIs
  <2>3. CASE wk[r].effect # NoPath
    <3>1. /\ toKern'[r] = Batch(cli[r].idx, <<Entry(wk[r].effect)>>)
          /\ cli'[r].pc = "batch" /\ cli'[r].idx = cli[r].idx + 1
      BY <1>4, <2>3, StepReturnsIs
    <3>2. Len(eff[r]) = cli[r].idx + 1 /\ eff[r][Len(eff[r])] = wk[r].effect
      BY <2>1, <2>3, <1>i DEF Owns, Account
    <3>3. cli[r].idx = Len(eff[r]) - 1 /\ Len(eff[r]) \in 1 .. Len(eff[r])
      BY <3>2, <1>t
    <3>4. toKern'[r] = Line(r, Len(eff[r]))
      BY <3>1, <3>2, <3>3 DEF Line
    <3>5. toKern'[r].t = "batch"
      BY <3>1, ReportTags
    <3>6. Owns(r)'
      BY <2>2, <3>1, <3>2, <1>e DEF Owns
    <3>7. Closes(r)'
      BY <2>1, <3>5, <1>n
    <3>8. OfEffects(r)'
      BY <3>3, <3>4, <3>5, <1>o
    <3>. QED  BY <2>1, <3>6, <3>7, <3>8, <1>c DEF Account
  <2>4. CASE wk[r].effect = NoPath
    <3>1. /\ toKern'[r] = Finish(cli[r].idx, Reported(r, wk[r].finish))
          /\ cli'[r].pc = "finish" /\ cli'[r].idx = cli[r].idx
      BY <1>4, <2>4, StepReturnsIs
    <3>2. cli[r].idx = Len(eff[r])
      BY <2>1, <2>4, <1>i DEF Owns, Account
    <3>3. toKern'[r].t = "finish" /\ toKern'[r].at = Len(eff[r])
      BY <3>1, <3>2, ReportTags
    <3>4. Owns(r)'
      BY <2>2, <3>1, <3>2, <1>e DEF Owns
    <3>5. Closes(r)'
      BY <2>1, <2>2, <3>1, <3>3, <1>f
    <3>. QED  BY <2>1, <3>3, <3>4, <3>5, <1>c, <1>o DEF Account
  <2>. QED  BY <2>3, <2>4
<1>5. CASE AckArrives(r)
  <2>1. toCli[r].t = "ack" /\ toCli[r].at = cli[r].idx /\ toCli'[r] = None
    BY <1>5, AckArrivesIs DEF AckArrives
  <2>2. cli[r].pc \in {"batch", "finish"}
    BY <1>5 DEF AckArrives
  <2>3. wk[r].pc = "idle" /\ wk[r].effect = NoPath /\ cli[r].idx = Len(eff[r])
    BY <2>2, <1>i DEF Work, Owns, Account
  <2>4. CASE NextStep(r)
    <3>1. kern[r].idx = Len(eff[r]) /\ Intent \in trail[r]
      BY <2>1, <2>3, <1>i DEF Account, Counts, Told
    <3>2. Owns(r)'
      BY <2>3, <2>4, <3>1, <1>0, <1>e DEF Owns, NextStep
    <3>3. Closes(r)'
      BY <2>4, <1>n DEF NextStep
    <3>4. toKern'[r] = toKern[r]
      BY <2>4 DEF NextStep
    <3>. QED  BY <2>1, <3>2, <3>3, <3>4, <1>c, <1>o DEF Account
  <2>5. CASE LastReport(r)
    <3>1. toKern'[r].t = "finish" /\ toKern'[r].at = Len(eff[r])
      BY <2>3, <2>5, ReportTags DEF LastReport
    <3>2. Owns(r)'
      BY <2>3, <2>5, <1>e DEF Owns, LastReport
    <3>3. Closes(r)'
      BY <2>3, <2>5, <3>1, <1>f DEF LastReport
    <3>. QED  BY <2>1, <3>1, <3>2, <3>3, <1>c, <1>o DEF Account
  <2>6. CASE AllDone(r)
    <3>1. Owns(r)'
      BY <2>3, <2>6, <1>e DEF Owns, AllDone
    <3>2. Closes(r)'
      BY <2>6, <1>p DEF AllDone
    <3>3. toKern'[r] = toKern[r]
      BY <2>6 DEF AllDone
    <3>. QED  BY <2>1, <3>1, <3>2, <3>3, <1>c, <1>o DEF Account
  <2>. QED  BY <1>5, <2>4, <2>5, <2>6, AckArrivesIs
<1>. QED  BY <1>1, <1>2, <1>3, <1>4, <1>5 DEF ClientStep, PeerReports, PeerCloses

\* An effect more, and what it is.
LEMMA DidIs ==
  ASSUME Typed, NEW r \in Requests, NEW p \in Tree, eff' = [eff EXCEPT ![r] = Append(@, p)]
  PROVE  /\ Len(eff'[r]) = Len(eff[r]) + 1 /\ eff'[r][Len(eff[r]) + 1] = p
         /\ \A i \in 1 .. Len(eff[r]) : eff'[r][i] = eff[r][i] /\ Line(r, i)' = Line(r, i)
<1>1. eff \in [Requests -> Seq(Tree)] /\ eff[r] \in Seq(Tree)
  BY DEF Typed
<1>2. eff'[r] = Append(eff[r], p)
  BY <1>1
<1>3. /\ Len(eff'[r]) = Len(eff[r]) + 1 /\ eff'[r][Len(eff[r]) + 1] = p
      /\ \A i \in 1 .. Len(eff[r]) : eff'[r][i] = eff[r][i]
  BY <1>1, <1>2
<1>. QED  BY <1>3 DEF Line

LEMMA WorkerAccount ==
  ASSUME Typed, TurnInv, AccountInv, NEW r \in Faithful, r \in Requests, WorkerStep(r)
  PROVE  Account(r)'
<1>i. Account(r) /\ Turn(r) /\ Work(r)
  BY DEF AccountInv, TurnInv
<1>0. UNCHANGED <<kern, trail, landing>>
  BY ElsewhereIs DEF Elsewhere
<1>1. CASE RemoveEntry(r) \/ MakeDirectory(r) \/ DoExact(r)
  <2>1. /\ wk[r].pc = "armed" /\ wk[r].target \in Tree
        /\ wk'[r].pc = "ret" /\ wk'[r].effect = wk[r].target
        /\ eff' = [eff EXCEPT ![r] = Append(@, wk[r].target)]
        /\ UNCHANGED <<toCli, toKern, cli>>
    BY <1>1, EffectIs
  <2>2. /\ Len(eff'[r]) = Len(eff[r]) + 1 /\ eff'[r][Len(eff[r]) + 1] = wk[r].target
        /\ \A i \in 1 .. Len(eff[r]) : Line(r, i)' = Line(r, i)
    BY <2>1, DidIs
  <2>3. cli[r].idx = Len(eff[r]) /\ kern[r].idx = Len(eff[r]) /\ Len(eff[r]) \in Nat
    BY <2>1, <1>i DEF Account, Owns, Typed
  <2>4. Owns(r)'
    BY <2>1, <2>2, <2>3, TreeFacts DEF Owns
  <2>5. Known(r)' = Known(r)
    BY <2>1, <1>0 DEF Known
  <2>6. \A x \in Known(r) : x.t # "finish"
    BY <2>1, <1>i DEF Account, Closes
  <2>7. Closes(r)'
    BY <2>5, <2>6, <1>0 DEF Closes, Known
  <2>8. OfEffects(r)'
    <3>. SUFFICES ASSUME NEW x \in Known(r), x.t = "batch"
                  PROVE  \E i \in 1 .. Len(eff'[r]) : x = Line(r, i)'
      BY <2>5 DEF OfEffects
    <3>1. PICK i \in 1 .. Len(eff[r]) : x = Line(r, i)
      BY <1>i DEF Account, OfEffects
    <3>2. i \in 1 .. Len(eff'[r]) /\ x = Line(r, i)'
      BY <3>1, <2>2, <2>3
    <3>. QED  BY <3>2
  <2>9. Counts(r)'
    BY <2>1, <2>2, <2>3, <1>0, <1>i DEF Counts, Account
  <2>. QED  BY <2>4, <2>7, <2>8, <2>9 DEF Account
<1>2. CASE Walks(r)
  <2>1. /\ wk[r].pc \in {"aim", "armed"} /\ wk'[r].effect = NoPath
        /\ UNCHANGED <<toCli, toKern, cli, eff>>
    BY <1>2, WalkIs
  <2>2. wk[r].effect = NoPath
    BY <2>1, <1>i DEF Work
  <2>3. Owns(r)'
    BY <2>1, <2>2, <1>0, <1>i DEF Owns, Account
  <2>4. Known(r)' = Known(r) /\ \A i : Line(r, i)' = Line(r, i)
    BY <2>1, <1>0 DEF Known, Line
  <2>5. \A x \in Known(r) : x.t # "finish"
    BY <2>1, <1>i DEF Account, Closes
  <2>6. Closes(r)'
    BY <2>4, <2>5, <1>0 DEF Closes, Known
  <2>7. OfEffects(r)' /\ Counts(r)'
    BY <2>1, <2>4, <1>0, <1>i DEF OfEffects, Counts, Account
  <2>. QED  BY <2>3, <2>6, <2>7 DEF Account
<1>. QED  BY <1>1, <1>2 DEF WorkerStep, Walks

\* What lands was known.
LEMMA RestAccount ==
  ASSUME NEW r \in Faithful, Account(r), UNCHANGED <<kern, toCli, toKern, cli, wk, eff>>,
         trail[r] \subseteq trail'[r],
         \A x \in trail'[r] \union landing'[r] :
            \/ x \in trail[r] \union landing[r] \/ x \in Marks
            \/ x = kern[r].pend /\ kern[r].pc = "record"
  PROVE  Account(r)'
<1>1. \A x \in Known(r)' : x \in Known(r) \/ x \in Marks \/ x = None
  BY DEF Known
<1>2. kern[r].pend.t = "finish" /\ kern[r].pc = "record" => kern[r].idx = Len(eff[r])
  BY DEF Account, Closes, Counts, Known
<1>3. \A x \in trail'[r] \union landing'[r] : x.t = "finish" =>
         x \in trail[r] \union landing[r] \/ kern[r].idx = Len(eff[r])
  BY <1>2, MarkTags
<1>4. /\ OfEffects(r)' /\ (kern[r].idx <= Len(eff[r]))'
      /\ (\A i \in 1 .. kern[r].idx : Line(r, i) \in trail[r])'
      /\ \A x \in Known(r)' : x.t = "finish" => x \in Known(r)
      /\ (\A x \in trail[r] \union landing[r] : x.t = "finish" => kern[r].idx = Len(eff[r]))'
  BY <1>1, <1>3, NothingNew
<1>5. Closes(r)'
  BY <1>4 DEF Closes, Account
<1>6. Counts(r)'
  BY <1>4 DEF Counts, Account
<1>7. Owns(r)'
  BY DEF Owns, Account
<1>. QED  BY <1>4, <1>5, <1>6, <1>7 DEF Account

LEMMA AccountStep ==
  ASSUME Typed, TurnInv, ToldInv, AccountInv, [Next]_vars
  PROVE  AccountInv'
<1>f. Faithful \subseteq Requests
  BY MutationAssumption
<1>1. CASE UNCHANGED vars
  BY <1>1, RestAccount DEF vars, audit, subject, AccountInv
<1>2. CASE DaemonDies
  <2>. SUFFICES ASSUME NEW r \in Faithful PROVE Account(r)'
    BY DEF AccountInv
  <2>0. r \in Requests
    BY <1>f
  <2>1. UNCHANGED <<kern, toCli, toKern, cli, wk, eff, trail>>
    BY <1>2 DEF DaemonDies, subject
  <2>2. landing'[r] = landing[r] \union InHand(r)
    BY <1>2, <2>0 DEF DaemonDies
  <2>3. Account(r)
    BY DEF AccountInv
  <2>. QED  BY <2>0, <2>1, <2>2, <2>3, RestAccount, InHandIs
<1>3. ASSUME NEW r \in Requests, Step(r)
      PROVE  AccountInv'
  <2>1. ASSUME r \in Faithful
        PROVE  Account(r)'
    <3>i. Account(r)
      BY <2>1 DEF AccountInv
    <3>1. CASE KernelStep(r)
      BY <2>1, <3>1, KernelAccount
    <3>2. CASE ClientStep(r)
      BY <2>1, <3>2, ClientAccount
    <3>3. CASE WorkerStep(r)
      BY <2>1, <3>3, WorkerAccount
    <3>4. CASE OrphanEnds(r) \/ KernelLate(r) \/ ClientLate(r) \/ OtherProcess(r)
      <4>1. UNCHANGED <<kern, trail, landing>>
        BY <3>4, ElsewhereIs DEF Elsewhere
      <4>2. UNCHANGED <<toCli, toKern, cli, wk, eff>>
        BY <3>4 DEF OrphanEnds, KernelLate, ClientLate, OtherProcess, subject
      <4>. QED  BY <4>1, <4>2, <2>1, <3>i, RestAccount
    <3>5. CASE Land(r)
      <4>1. PICK x \in landing[r] : /\ trail'[r] = trail[r] \union {x}
                                    /\ landing'[r] = landing[r] \ {x}
        BY <3>5, LandIs
      <4>2. UNCHANGED <<kern, toCli, toKern, cli, wk, eff>>
        BY <3>5, LandIs
      <4>. QED  BY <4>1, <4>2, <2>1, <3>i, RestAccount
    <3>. QED  BY <1>3, <3>1, <3>2, <3>3, <3>4, <3>5 DEF Step, Around
  <2>2. ASSUME NEW s \in Faithful, s # r
        PROVE  Account(s)'
    <3>1. Kept(s)
      BY <1>3, <2>2, <1>f, StepLocal
    <3>2. Account(s)
      BY DEF AccountInv
    <3>3. Known(s)' = Known(s) /\ \A i : Line(s, i)' = Line(s, i)
      BY <3>1 DEF Kept, Known, Line
    <3>4. OfEffects(s)' /\ Counts(s)'
      BY <3>1, <3>2, <3>3 DEF Kept, Account, OfEffects, Counts
    <3>5. Closes(s)' /\ Owns(s)'
      BY <3>1, <3>2, <3>3 DEF Kept, Account, Closes, Owns
    <3>. QED  BY <3>4, <3>5 DEF Account
  <2>. QED  BY <2>1, <2>2 DEF AccountInv
<1>. QED  BY <1>1, <1>2, <1>3, StepCases

LEMMA InitAccount == Init => AccountInv
<1>. SUFFICES ASSUME Init, NEW r \in Faithful PROVE Account(r)
  BY DEF AccountInv
<1>0. r \in Requests
  BY MutationAssumption
<1>1. /\ kern[r].pc = "idle" /\ kern[r].idx = 0 /\ kern[r].pend = None /\ toCli[r] = None
      /\ toKern[r] = None /\ trail[r] = {} /\ landing[r] = {} /\ eff[r] = <<>>
      /\ cli[r].idx = 0 /\ wk[r] = Idle
  BY <1>0 DEF Init, Fresh
<1>2. Known(r) = {None} /\ Len(eff[r]) = 0
  BY <1>1 DEF Known
<1>. QED  BY <1>1, <1>2, FrameTags, IdleIs DEF Account, OfEffects, Counts, Closes, Owns

-----------------------------------------------------------------------------
(* The refinement: what one attempt's step does to its page of the ledger *)

SamePage(r) ==
  /\ Intent \in trail'[r] <=> Intent \in trail[r]
  /\ Len(eff'[r]) = Len(eff[r])
  /\ Logged(r)' = Logged(r)
  /\ OnTrail(r, "finish")' <=> OnTrail(r, "finish")

Intends(r) ==
  /\ Intent \in trail'[r]
  /\ Len(eff'[r]) = Len(eff[r])
  /\ Logged(r)' = Logged(r)
  /\ OnTrail(r, "finish")' <=> OnTrail(r, "finish")

Performs(r) ==
  /\ Intent \in trail[r] /\ Intent \in trail'[r]
  /\ Len(eff[r]) = Cardinality(Logged(r)) /\ ~OnTrail(r, "finish")
  /\ Len(eff'[r]) = Len(eff[r]) + 1
  /\ Logged(r)' = Logged(r)
  /\ ~OnTrail(r, "finish")'

Logs(r) ==
  /\ Intent \in trail'[r] <=> Intent \in trail[r]
  /\ Len(eff'[r]) = Len(eff[r])
  /\ Cardinality(Logged(r)) < Len(eff[r])
  /\ Cardinality(Logged(r)') = Cardinality(Logged(r)) + 1
  /\ OnTrail(r, "finish")' <=> OnTrail(r, "finish")

ClosesPage(r) ==
  /\ Intent \in trail[r] /\ Intent \in trail'[r]
  /\ Len(eff[r]) = Cardinality(Logged(r))
  /\ Len(eff'[r]) = Len(eff[r])
  /\ Logged(r)' = Logged(r)
  /\ OnTrail(r, "finish")'

LEMMA LoggedIs ==
  ASSUME Typed, NEW r \in Requests
  PROVE  /\ Logged(r) = {i \in 1 .. Len(eff[r]) : Line(r, i) \in trail[r]}
         /\ IsFiniteSet(Logged(r)) /\ Cardinality(Logged(r)) \in Nat
         /\ Cardinality(Logged(r)) <= Len(eff[r])
         /\ Logged(r) # 1 .. Len(eff[r]) => Cardinality(Logged(r)) < Len(eff[r])
         /\ Logged(r) = 1 .. Len(eff[r]) => Cardinality(Logged(r)) = Len(eff[r])
<1>1. eff[r] \in Seq(Tree) /\ Len(eff[r]) \in Nat
  BY DEF Typed
<1>2. DOMAIN eff[r] = 1 .. Len(eff[r])
  BY <1>1
<1>3. Logged(r) = {i \in 1 .. Len(eff[r]) : Line(r, i) \in trail[r]}
  BY <1>2 DEF Logged, Line
<1>4. IsFiniteSet(1 .. Len(eff[r])) /\ Cardinality(1 .. Len(eff[r])) = Len(eff[r])
  BY <1>1, FS_Interval
<1>5. Logged(r) \in SUBSET (1 .. Len(eff[r]))
  BY <1>3
<1>6. /\ IsFiniteSet(Logged(r)) /\ Cardinality(Logged(r)) <= Len(eff[r])
      /\ Len(eff[r]) = Cardinality(Logged(r)) => 1 .. Len(eff[r]) = Logged(r)
  BY <1>4, <1>5, FS_Subset
<1>7. Cardinality(Logged(r)) \in Nat
  BY <1>6, FS_CardinalityType
<1>8. Logged(r) # 1 .. Len(eff[r]) => Cardinality(Logged(r)) < Len(eff[r])
  BY <1>1, <1>6, <1>7
<1>9. Logged(r) = 1 .. Len(eff[r]) => Cardinality(Logged(r)) = Len(eff[r])
  BY <1>4
<1>. QED  BY <1>3, <1>6, <1>7, <1>8, <1>9

\* When the exchange has counted every effect, all of them are logged.
LEMMA AllLogged ==
  ASSUME Typed, NEW r \in Requests, Account(r), kern[r].idx = Len(eff[r])
  PROVE  Len(eff[r]) = Cardinality(Logged(r))
<1>1. Logged(r) = 1 .. Len(eff[r])
  BY LoggedIs DEF Account, Counts
<1>. QED  BY <1>1, LoggedIs

\* One record more on the trail is a line of the ledger, or none.
LEMMA OneRecord ==
  ASSUME Typed, Typed', NEW r \in Requests, Account(r), NEW x \in Records,
         trail'[r] = trail[r] \union {x}, eff'[r] = eff[r],
         x.t = "batch" => \E i \in 1 .. Len(eff[r]) : x = Line(r, i),
         x.t = "finish" => Intent \in trail[r] /\ kern[r].idx = Len(eff[r])
  PROVE  SamePage(r) \/ Intends(r) \/ Logs(r) \/ ClosesPage(r)
<1>l. \A i : Line(r, i)' = Line(r, i)
  BY DEF Line
<1>g. /\ Logged(r) = {i \in 1 .. Len(eff[r]) : Line(r, i) \in trail[r]}
      /\ Logged(r)' = {i \in 1 .. Len(eff[r]) : Line(r, i) \in trail'[r]}
  <2>1. Logged(r) = {i \in 1 .. Len(eff[r]) : Line(r, i) \in trail[r]}
    BY LoggedIs
  <2>2. DOMAIN eff[r] = 1 .. Len(eff[r])
    BY DEF Typed
  <2>3. Logged(r)' = {i \in 1 .. Len(eff[r]) : Line(r, i) \in trail'[r]}
    BY <2>2 DEF Logged, Line
  <2>. QED  BY <2>1, <2>3
<1>b. \A i \in 1 .. Len(eff[r]) : Line(r, i).t = "batch" /\ Line(r, i).at = i - 1
  BY LineIs DEF Typed
<1>f. Intent.t = "intent" /\ Deny.t = "deny" /\ Incomplete.t = "incomplete"
  BY FrameTags
<1>1. CASE x.t = "batch"
  <2>1. PICK i \in 1 .. Len(eff[r]) : x = Line(r, i)
    BY <1>1
  <2>2. \A j \in 1 .. Len(eff[r]) : Line(r, j) = x => j = i
    <3>. SUFFICES ASSUME NEW j \in 1 .. Len(eff[r]), Line(r, j) = x PROVE j = i
      OBVIOUS
    <3>1. x.at = i - 1 /\ x.at = j - 1
      BY <2>1, <1>b
    <3>. QED  BY <3>1
  <2>3. Logged(r)' = Logged(r) \union {i}
    BY <1>g, <2>1, <2>2
  <2>4. Intent \in trail'[r] <=> Intent \in trail[r]
    BY <1>1, <1>f
  <2>5. OnTrail(r, "finish")' <=> OnTrail(r, "finish")
    BY <1>1 DEF OnTrail
  <2>6. CASE i \in Logged(r)
    BY <2>3, <2>4, <2>5, <2>6 DEF SamePage
  <2>7. CASE i \notin Logged(r)
    <3>1. Cardinality(Logged(r)') = Cardinality(Logged(r)) + 1
      <4>1. IsFiniteSet(Logged(r))
        BY LoggedIs
      <4>2. Cardinality(Logged(r) \union {i}) = Cardinality(Logged(r)) + 1
        BY <2>7, <4>1, FS_AddElement
      <4>. QED  BY <2>3, <4>2
    <3>2. Cardinality(Logged(r)) < Len(eff[r])
      BY <2>1, <2>7, LoggedIs
    <3>. QED  BY <2>4, <2>5, <3>1, <3>2 DEF Logs
  <2>. QED  BY <2>6, <2>7
<1>2. CASE x.t # "batch"
  <2>1. Logged(r)' = Logged(r)
    BY <1>2, <1>g, <1>b
  <2>2. CASE x.t = "finish"
    <3>1. OnTrail(r, "finish")'
      BY <2>2 DEF OnTrail
    <3>2. Intent \in trail[r] /\ Len(eff[r]) = Cardinality(Logged(r))
      BY <2>2, AllLogged
    <3>. QED  BY <2>1, <3>1, <3>2 DEF ClosesPage
  <2>3. CASE x.t # "finish"
    <3>1. OnTrail(r, "finish")' <=> OnTrail(r, "finish")
      BY <2>3 DEF OnTrail
    <3>2. CASE x = Intent
      BY <2>1, <3>1, <3>2 DEF Intends
    <3>3. CASE x # Intent
      BY <2>1, <3>1, <3>3 DEF SamePage
    <3>. QED  BY <3>2, <3>3
  <2>. QED  BY <2>2, <2>3
<1>. QED  BY <1>1, <1>2

\* Nothing the ledger shows changes.
LEMMA NoRecord ==
  ASSUME NEW r, trail'[r] = trail[r], eff'[r] = eff[r]
  PROVE  SamePage(r)
BY DEF SamePage, Logged, OnTrail

LEMMA AttemptPage ==
  ASSUME Typed, Typed', TurnInv, ToldInv, NEW r \in Requests, Account(r), r \in Faithful, Step(r)
  PROVE  SamePage(r) \/ Intends(r) \/ Performs(r) \/ Logs(r) \/ ClosesPage(r)
<1>i. Told(r) /\ Work(r)
  BY DEF ToldInv, TurnInv
<1>t. Len(eff[r]) \in Nat /\ trail[r] \subseteq Records /\ landing[r] \subseteq Records
  BY DEF Typed
<1>1. CASE KernelStep(r)
  <2>0. UNCHANGED eff /\ (Quiet(r) \/ Takes(r) \/ Books(r) \/ Drops(r))
    BY <1>1, KernelMoves
  <2>1. CASE Quiet(r)
    <3>1. /\ trail[r] \subseteq trail'[r]
          /\ \A x \in trail'[r] : x \in trail[r] \/ x.t \notin {"batch", "finish"}
      BY <2>1, MarkTags DEF Quiet
    <3>2. OnTrail(r, "finish")' <=> OnTrail(r, "finish")
      BY <3>1 DEF OnTrail
    <3>3. \A i \in DOMAIN eff[r] :
            Batch(i - 1, <<Entry(eff[r][i])>>) \in trail'[r]
              <=> Batch(i - 1, <<Entry(eff[r][i])>>) \in trail[r]
      BY <3>1, ReportTags
    <3>4. Logged(r)' = Logged(r)
      BY <2>0, <3>3 DEF Logged
    <3>. QED  BY <2>0, <3>1, <3>2, <3>4 DEF SamePage, Intends
  <2>2. CASE Takes(r) \/ Drops(r)
    <3>1. trail'[r] = trail[r]
      BY <2>2 DEF Takes, Drops
    <3>. QED  BY <2>0, <3>1, NoRecord
  <2>3. CASE Books(r)
    <3>1. /\ trail'[r] = trail[r] \union {kern[r].pend} /\ kern[r].pend \in Reports
          /\ kern[r].pc = "record"
      BY <2>3 DEF Books
    <3>2. kern[r].pend.t = "batch" => \E i \in 1 .. Len(eff[r]) : kern[r].pend = Line(r, i)
      BY DEF Account, OfEffects, Known
    <3>3. kern[r].pend.t = "finish" => Intent \in trail[r] /\ kern[r].idx = Len(eff[r])
      BY <3>1, <1>i DEF Account, Closes, Counts, Known, Told, Attending
    <3>. QED  BY <2>0, <3>1, <3>2, <3>3, OneRecord DEF Records
  <2>. QED  BY <2>0, <2>1, <2>2, <2>3
<1>2. CASE RemoveEntry(r) \/ MakeDirectory(r) \/ DoExact(r)
  <2>1. /\ wk[r].pc = "armed" /\ wk[r].target \in Tree
        /\ eff' = [eff EXCEPT ![r] = Append(@, wk[r].target)] /\ UNCHANGED <<kern, trail>>
    BY <1>2, EffectIs DEF audit
  <2>2. /\ Len(eff'[r]) = Len(eff[r]) + 1
        /\ \A i \in 1 .. Len(eff[r]) : Line(r, i)' = Line(r, i)
    BY <2>1, DidIs
  <2>3. kern[r].idx = Len(eff[r]) /\ Intent \in trail[r]
    BY <2>1 DEF Account, Owns
  <2>4. ~OnTrail(r, "finish")
    BY <2>1 DEF Account, Closes, OnTrail, Known
  <2>5. ~OnTrail(r, "finish")'
    BY <2>1, <2>4 DEF OnTrail
  <2>n. PICK n \in Nat : n = Len(eff[r])
    BY <1>t
  <2>6. Line(r, n + 1)' \notin trail[r]
    <3>1. Line(r, n + 1)' = Batch(n, <<Entry(eff'[r][n + 1])>>)
      BY DEF Line
    <3>2. Line(r, n + 1)'.t = "batch" /\ Line(r, n + 1)'.at = n
      BY <3>1, ReportTags
    <3>3. \A i \in 1 .. n : Line(r, i).at # n
      BY LineIs
    <3>. QED  BY <3>2, <3>3, <2>n DEF Account, OfEffects, Known
  <2>7. /\ Logged(r) = {i \in 1 .. Len(eff[r]) : Line(r, i) \in trail[r]}
        /\ Logged(r)' = {i \in 1 .. Len(eff'[r]) : Line(r, i)' \in trail'[r]}
    <3>1. DOMAIN eff'[r] = 1 .. Len(eff'[r])
      BY DEF Typed
    <3>2. Logged(r)' = {i \in 1 .. Len(eff'[r]) : Line(r, i)' \in trail'[r]}
      BY <3>1 DEF Logged, Line
    <3>. QED  BY <3>2, LoggedIs
  <2>8. Logged(r)' = Logged(r)
    <3>1. 1 .. Len(eff'[r]) = (1 .. n) \union {n + 1}
      BY <2>n, <2>2
    <3>2. \A i \in 1 .. n : Line(r, i)' \in trail'[r] <=> Line(r, i) \in trail[r]
      BY <2>n, <2>1, <2>2
    <3>3. Line(r, n + 1)' \notin trail'[r]
      BY <2>1, <2>6
    <3>. QED  BY <2>n, <2>7, <3>1, <3>2, <3>3
  <2>9. Len(eff[r]) = Cardinality(Logged(r))
    BY <2>3, AllLogged
  <2>. QED  BY <2>1, <2>2, <2>3, <2>4, <2>5, <2>8, <2>9 DEF Performs
<1>3. CASE Walks(r)
  BY <1>3, WalkIs, NoRecord DEF audit
<1>4. CASE ClientStep(r) \/ OrphanEnds(r) \/ KernelLate(r) \/ ClientLate(r) \/ OtherProcess(r)
  <2>1. UNCHANGED trail
    BY <1>4, ElsewhereIs DEF Elsewhere
  <2>2. UNCHANGED eff
    BY <1>4 DEF ClientStep, GrantArrives, Quit, Killed, StepReturns, AckArrives, PeerReports,
                PeerCloses, OrphanEnds, KernelLate, ClientLate, OtherProcess, subject
  <2>. QED  BY <2>1, <2>2, NoRecord
<1>5. CASE Land(r)
  <2>1. PICK x \in landing[r] : trail'[r] = trail[r] \union {x}
    BY <1>5, LandIs
  <2>2. UNCHANGED eff
    BY <1>5, LandIs
  <2>3. x.t = "batch" => \E i \in 1 .. Len(eff[r]) : x = Line(r, i)
    BY DEF Account, OfEffects, Known
  <2>4. x.t = "finish" => Intent \in trail[r] /\ kern[r].idx = Len(eff[r])
    BY <1>i DEF Account, Closes, Told
  <2>. QED  BY <2>1, <2>2, <2>3, <2>4, <1>t, OneRecord
<1>. QED  BY <1>1, <1>2, <1>3, <1>4, <1>5 DEF Step, Around, WorkerStep, Walks

\* The pages of the others stay, so a step of one attempt is a step of the ledger.
LEMMA LedgerMove ==
  ASSUME NEW r \in Faithful,
         SamePage(r) \/ Intends(r) \/ Performs(r) \/ Logs(r) \/ ClosesPage(r),
         \A s \in Faithful : s # r => SamePage(s)
  PROVE  [Ledger!Next]_(Ledger!ledger)
<1>s. \A s \in Faithful : s # r =>
        /\ (Intent \in trail'[s]) = (Intent \in trail[s]) /\ Len(eff'[s]) = Len(eff[s])
        /\ Cardinality(Logged(s)') = Cardinality(Logged(s))
        /\ OnTrail(s, "finish")' = OnTrail(s, "finish")
  BY DEF SamePage, OnTrail
<1>1. CASE SamePage(r)
  <2>1. \A s \in Faithful :
          /\ (Intent \in trail'[s]) = (Intent \in trail[s]) /\ Len(eff'[s]) = Len(eff[s])
          /\ Cardinality(Logged(s)') = Cardinality(Logged(s))
          /\ OnTrail(s, "finish")' = OnTrail(s, "finish")
    BY <1>1, <1>s DEF SamePage, OnTrail
  <2>2. /\ [s \in Faithful |-> Intent \in trail'[s]] = [s \in Faithful |-> Intent \in trail[s]]
        /\ [s \in Faithful |-> Len(eff'[s])] = [s \in Faithful |-> Len(eff[s])]
        /\ [s \in Faithful |-> Cardinality(Logged(s)')] = [s \in Faithful |-> Cardinality(Logged(s))]
        /\ [s \in Faithful |-> OnTrail(s, "finish")'] = [s \in Faithful |-> OnTrail(s, "finish")]
    BY <2>1, Zenon
  <2>. QED  BY <2>2 DEF Ledger!ledger
<1>2. CASE Intends(r)
  <2>1. Ledger!Intend(r)
    <3>1. [s \in Faithful |-> Intent \in trail'[s]]
            = [[s \in Faithful |-> Intent \in trail[s]] EXCEPT ![r] = TRUE]
      BY <1>s, <1>2 DEF Intends
    <3>2. [s \in Faithful |-> Len(eff'[s])] = [s \in Faithful |-> Len(eff[s])]
      BY <1>s, <1>2 DEF Intends
    <3>3. [s \in Faithful |-> Cardinality(Logged(s)')] = [s \in Faithful |-> Cardinality(Logged(s))]
      BY <1>s, <1>2 DEF Intends
    <3>4. [s \in Faithful |-> OnTrail(s, "finish")'] = [s \in Faithful |-> OnTrail(s, "finish")]
      BY <1>s, <1>2 DEF Intends, OnTrail
    <3>. QED  BY <3>1, <3>2, <3>3, <3>4 DEF Ledger!Intend
  <2>. QED  BY <2>1 DEF Ledger!Next
<1>3. CASE Performs(r)
  <2>1. Ledger!Perform(r)
    <3>1. [s \in Faithful |-> Intent \in trail'[s]] = [s \in Faithful |-> Intent \in trail[s]]
      BY <1>s, <1>3 DEF Performs
    <3>2. [s \in Faithful |-> Len(eff'[s])]
            = [[s \in Faithful |-> Len(eff[s])] EXCEPT ![r] = @ + 1]
      BY <1>s, <1>3 DEF Performs
    <3>3. [s \in Faithful |-> Cardinality(Logged(s)')] = [s \in Faithful |-> Cardinality(Logged(s))]
      BY <1>s, <1>3 DEF Performs
    <3>4. [s \in Faithful |-> OnTrail(s, "finish")'] = [s \in Faithful |-> OnTrail(s, "finish")]
      BY <1>s, <1>3 DEF Performs, OnTrail
    <3>5. Intent \in trail[r] /\ Len(eff[r]) = Cardinality(Logged(r)) /\ ~OnTrail(r, "finish")
      BY <1>3 DEF Performs
    <3>. QED  BY <3>1, <3>2, <3>3, <3>4, <3>5 DEF Ledger!Perform
  <2>. QED  BY <2>1 DEF Ledger!Next
<1>4. CASE Logs(r)
  <2>1. Ledger!Log(r)
    <3>1. [s \in Faithful |-> Intent \in trail'[s]] = [s \in Faithful |-> Intent \in trail[s]]
      BY <1>s, <1>4 DEF Logs
    <3>2. [s \in Faithful |-> Len(eff'[s])] = [s \in Faithful |-> Len(eff[s])]
      BY <1>s, <1>4 DEF Logs
    <3>3. [s \in Faithful |-> Cardinality(Logged(s)')]
            = [[s \in Faithful |-> Cardinality(Logged(s))] EXCEPT ![r] = @ + 1]
      BY <1>s, <1>4 DEF Logs
    <3>4. [s \in Faithful |-> OnTrail(s, "finish")'] = [s \in Faithful |-> OnTrail(s, "finish")]
      BY <1>s, <1>4 DEF Logs, OnTrail
    <3>5. Cardinality(Logged(r)) < Len(eff[r])
      BY <1>4 DEF Logs
    <3>. QED  BY <3>1, <3>2, <3>3, <3>4, <3>5 DEF Ledger!Log
  <2>. QED  BY <2>1 DEF Ledger!Next
<1>5. CASE ClosesPage(r)
  <2>1. Ledger!Close(r)
    <3>1. [s \in Faithful |-> Intent \in trail'[s]] = [s \in Faithful |-> Intent \in trail[s]]
      BY <1>s, <1>5 DEF ClosesPage
    <3>2. [s \in Faithful |-> Len(eff'[s])] = [s \in Faithful |-> Len(eff[s])]
      BY <1>s, <1>5 DEF ClosesPage
    <3>3. [s \in Faithful |-> Cardinality(Logged(s)')] = [s \in Faithful |-> Cardinality(Logged(s))]
      BY <1>s, <1>5 DEF ClosesPage
    <3>4. [s \in Faithful |-> OnTrail(s, "finish")']
            = [[s \in Faithful |-> OnTrail(s, "finish")] EXCEPT ![r] = TRUE]
      BY <1>s, <1>5 DEF ClosesPage, OnTrail
    <3>5. Intent \in trail[r] /\ Len(eff[r]) = Cardinality(Logged(r))
      BY <1>5 DEF ClosesPage
    <3>. QED  BY <3>1, <3>2, <3>3, <3>4, <3>5 DEF Ledger!Close
  <2>. QED  BY <2>1 DEF Ledger!Next
<1>. QED  BY <1>1, <1>2, <1>3, <1>4, <1>5

\* Nobody's page changes.
LEMMA LedgerRests ==
  ASSUME \A s \in Faithful : SamePage(s)
  PROVE  [Ledger!Next]_(Ledger!ledger)
<1>1. CASE Faithful = {}
  BY <1>1 DEF Ledger!ledger
<1>2. CASE Faithful # {}
  BY <1>2, LedgerMove
<1>. QED  BY <1>1, <1>2

LEMMA LedgerStep ==
  ASSUME Typed, Typed', TurnInv, ToldInv, AccountInv, [Next]_vars
  PROVE  [Ledger!Next]_(Ledger!ledger)
<1>f. Faithful \subseteq Requests
  BY MutationAssumption
<1>1. CASE UNCHANGED vars
  BY <1>1, NoRecord, LedgerRests DEF vars, audit, subject
<1>2. CASE DaemonDies
  BY <1>2, NoRecord, LedgerRests DEF DaemonDies, subject
<1>3. ASSUME NEW r \in Requests, Step(r)
      PROVE  [Ledger!Next]_(Ledger!ledger)
  <2>1. ASSUME NEW s \in Faithful, s # r
        PROVE  SamePage(s)
    <3>1. Kept(s)
      BY <1>3, <2>1, <1>f, StepLocal
    <3>. QED  BY <3>1, NoRecord DEF Kept
  <2>2. CASE r \in Faithful
    <3>1. SamePage(r) \/ Intends(r) \/ Performs(r) \/ Logs(r) \/ ClosesPage(r)
      BY <1>3, <2>2, AttemptPage DEF AccountInv
    <3>. QED  BY <2>1, <2>2, <3>1, LedgerMove
  <2>3. CASE r \notin Faithful
    BY <2>1, <2>3, LedgerRests
  <2>. QED  BY <2>2, <2>3
<1>. QED  BY <1>1, <1>2, <1>3, StepCases

LEMMA LedgerInit == Init => Ledger!Init
<1>. SUFFICES ASSUME Init PROVE Ledger!Init
  OBVIOUS
<1>1. \A r \in Faithful : trail[r] = {} /\ eff[r] = <<>>
  BY MutationAssumption DEF Init
<1>2. \A r \in Faithful : /\ Intent \notin trail[r] /\ Len(eff[r]) = 0 /\ Logged(r) = {}
                          /\ ~OnTrail(r, "finish")
  BY <1>1 DEF Logged, OnTrail
<1>3. \A r \in Faithful : Cardinality(Logged(r)) = 0
  BY <1>2, FS_EmptySet
<1>b. \A r \in Faithful : /\ (Intent \in trail[r]) = FALSE
                          /\ OnTrail(r, "finish") = FALSE
  BY <1>2 DEF OnTrail
<1>4. [r \in Faithful |-> Intent \in trail[r]] = [r \in Faithful |-> FALSE]
  BY <1>b, Zenon
<1>5. [r \in Faithful |-> Len(eff[r])] = [r \in Faithful |-> 0]
  BY <1>2
<1>6. [r \in Faithful |-> Cardinality(Logged(r))] = [r \in Faithful |-> 0]
  BY <1>3
<1>7. [r \in Faithful |-> OnTrail(r, "finish")] = [r \in Faithful |-> FALSE]
  BY <1>b, Zenon
<1>. QED  BY <1>4, <1>5, <1>6, <1>7 DEF Ledger!Init

\* An attempt maknae-loop drives keeps the ledger (run_attempt and the kernel's
\* attempt together): no effect before the durable intent or while an earlier
\* effect is missing from the trail, no line of an effect that was not performed,
\* no end recorded over a partial account, through every timeout, disconnection,
\* given-up append, late landing and crash of either side, and whatever other
\* clients report.
THEOREM LedgerAlwaysKept == Spec => KeepsLedger
<1>1. Init => AccountInv /\ Ledger!Init
  BY InitAccount, LedgerInit
<1>2. Typed /\ TurnInv /\ ToldInv /\ AccountInv /\ [Next]_vars => AccountInv'
  BY AccountStep
<1>3. Typed /\ Typed' /\ TurnInv /\ ToldInv /\ AccountInv /\ [Next]_vars
        => [Ledger!Next]_(Ledger!ledger)
  BY LedgerStep
<1>. QED  BY <1>1, <1>2, <1>3, ToldHolds, PTL DEF Spec, KeepsLedger, Ledger!Spec

-----------------------------------------------------------------------------
(* What may be on the trail, whoever reports *)

\* The batches B number the effects 1 .. n without a gap, each allowed, each once,
\* a root last; S holds every path of theirs.
InScope(r, B, n, S) ==
  /\ n \in 0 .. MaxEffects
  /\ \A x \in B : x.at \in Nat /\ Len(x.effects) \in Nat \ {0} /\ DOMAIN x.effects = 1 .. Len(x.effects)
  /\ \A x \in B : \A i \in DOMAIN x.effects :
       /\ x.at + i <= n
       /\ x.effects[i].path \in Allowed(r) /\ x.effects[i].path \in S
       /\ op[r] = "tree" /\ x.effects[i].path = Root => x.at + i = n
  /\ \A x, y \in B : \A i \in DOMAIN x.effects, j \in DOMAIN y.effects :
       (x.at + i = y.at + j \/ x.effects[i].path = y.effects[j].path) =>
          x.at + i = y.at + j /\ x.effects[i].path = y.effects[j].path
  /\ \A k \in 1 .. n : \E x \in B : \E i \in DOMAIN x.effects : k = x.at + i

\* One valid batch more.
LEMMA ScopeGrows ==
  ASSUME Typed, NEW r \in Requests, NEW B, NEW b \in BatchReports,
         InScope(r, B, kern[r].idx, kern[r].seen), BatchOk(r, b), b.at = kern[r].idx
  PROVE  InScope(r, B \union {b}, kern[r].idx + Len(b.effects), kern[r].seen \union PathsOf(b))
<1>. DEFINE n == kern[r].idx
            S == kern[r].seen
            len == Len(b.effects)
            T == S \union PathsOf(b)
<1>t. /\ n \in Nat /\ len \in Nat \ {0} /\ DOMAIN b.effects = 1 .. len /\ n + len <= MaxEffects
      /\ MaxEffects \in Nat
  <2>1. n \in Nat
    BY DEF Typed, KernType
  <2>2. b.effects \in Seq([path : Seq(STRING), fits : BOOLEAN])
    BY DEF BatchReports
  <2>3. len \in 1 .. MaxBatch /\ n + len <= MaxEffects
    BY DEF BatchOk
  <2>4. len \in Nat /\ DOMAIN b.effects = 1 .. len
    BY <2>2
  <2>. QED  BY <2>1, <2>3, <2>4, MutationAssumption
<1>p. PathsOf(b) = {b.effects[i].path : i \in DOMAIN b.effects}
  BY DEF PathsOf, BatchReports
<1>o. /\ \A i \in DOMAIN b.effects : /\ b.effects[i].path \in Allowed(r) /\ b.effects[i].path \notin S
                                     /\ b.effects[i].path \in T
      /\ \A i, j \in DOMAIN b.effects : i # j => b.effects[i].path # b.effects[j].path
      /\ op[r] = "tree" => /\ Root \notin S
                           /\ \A i \in 1 .. len - 1 : b.effects[i].path # Root
  BY <1>p DEF BatchOk
<1>b. \A x \in B : /\ x.at \in Nat /\ Len(x.effects) \in Nat \ {0}
                   /\ DOMAIN x.effects = 1 .. Len(x.effects)
  BY DEF InScope
<1>e. \A x \in B : \A i \in DOMAIN x.effects :
        /\ x.at + i <= n /\ x.at + i \in Nat
        /\ x.effects[i].path \in Allowed(r) /\ x.effects[i].path \in S
  BY <1>b DEF InScope
<1>1. n + len \in 0 .. MaxEffects
  BY <1>t
<1>2. \A x \in B \union {b} : /\ x.at \in Nat /\ Len(x.effects) \in Nat \ {0}
                              /\ DOMAIN x.effects = 1 .. Len(x.effects)
  BY <1>b, <1>t
<1>3. ASSUME NEW x \in B \union {b}, NEW i \in DOMAIN x.effects
      PROVE  /\ x.at + i <= n + len
             /\ x.effects[i].path \in Allowed(r) /\ x.effects[i].path \in T
             /\ op[r] = "tree" /\ x.effects[i].path = Root => x.at + i = n + len
  <2>1. CASE x \in B
    BY <2>1, <1>3, <1>e, <1>o, <1>t
  <2>2. CASE x = b
    <3>1. i \in 1 .. len /\ b.at = n
      BY <2>2, <1>3, <1>t
    <3>2. op[r] = "tree" /\ b.effects[i].path = Root => i = len
      BY <3>1, <1>o, <1>t
    <3>. QED  BY <2>2, <3>1, <3>2, <1>o, <1>t
  <2>. QED  BY <1>3, <2>1, <2>2
<1>4. ASSUME NEW x \in B \union {b}, NEW y \in B \union {b},
             NEW i \in DOMAIN x.effects, NEW j \in DOMAIN y.effects,
             x.at + i = y.at + j \/ x.effects[i].path = y.effects[j].path
      PROVE  x.at + i = y.at + j /\ x.effects[i].path = y.effects[j].path
  <2>1. CASE x \in B /\ y \in B
    BY <2>1, <1>4 DEF InScope
  <2>2. CASE x = b /\ y = b
    <3>1. i \in 1 .. len /\ j \in 1 .. len
      BY <2>2, <1>4, <1>t
    <3>2. i = j
      BY <2>2, <3>1, <1>4, <1>o, <1>t
    <3>. QED  BY <2>2, <3>2
  <2>3. CASE x \in B /\ y = b
    <3>1. x.at + i <= n /\ x.at + i \in Nat /\ x.effects[i].path \in S
      BY <2>3, <1>4, <1>e
    <3>2. b.at + j > n /\ b.effects[j].path \notin S
      BY <2>3, <1>4, <1>o, <1>t
    <3>. QED  BY <2>3, <3>1, <3>2, <1>4, <1>t
  <2>4. CASE x = b /\ y \in B
    <3>1. y.at + j <= n /\ y.at + j \in Nat /\ y.effects[j].path \in S
      BY <2>4, <1>4, <1>e
    <3>2. b.at + i > n /\ b.effects[i].path \notin S
      BY <2>4, <1>4, <1>o, <1>t
    <3>. QED  BY <2>4, <3>1, <3>2, <1>4, <1>t
  <2>. QED  BY <1>4, <2>1, <2>2, <2>3, <2>4
<1>5. ASSUME NEW k \in 1 .. n + len
      PROVE  \E x \in B \union {b} : \E i \in DOMAIN x.effects : k = x.at + i
  <2>1. CASE k \in 1 .. n
    BY <2>1 DEF InScope
  <2>2. CASE k \notin 1 .. n
    <3>1. k - n \in DOMAIN b.effects /\ k = b.at + (k - n)
      BY <1>5, <2>2, <1>t
    <3>. QED  BY <3>1
  <2>. QED  BY <2>1, <2>2
<1>. QED  BY <1>1, <1>2, <1>3, <1>4, <1>5 DEF InScope

\* What that says of the trail.
LEMMA ScopeSays ==
  ASSUME Typed, NEW r \in Requests, NEW n, NEW S, InScope(r, BatchesOf(r), n, S)
  PROVE  /\ Counted(r) = 1 .. n /\ Cardinality(Counted(r)) = n
         /\ LET B == BatchesOf(r)
                Placed == UNION {{<<x.at + i, x.effects[i].path>> : i \in DOMAIN x.effects} : x \in B}
            IN /\ \A e \in Placed : e[2] \in Allowed(r)
               /\ \A e, f \in Placed : (e[1] = f[1] \/ e[2] = f[2]) => e = f
               /\ Counted(r) = 1 .. Cardinality(Counted(r)) /\ Cardinality(Counted(r)) <= MaxEffects
               /\ op[r] = "tree" => \A e \in Placed : e[2] = Root => e[1] = Cardinality(Counted(r))
<1>. DEFINE B == BatchesOf(r)
            Placed == UNION {{<<x.at + i, x.effects[i].path>> : i \in DOMAIN x.effects} : x \in B}
<1>n. n \in Nat /\ n <= MaxEffects
  BY MutationAssumption DEF InScope
<1>b. \A x \in B : x.at \in Nat /\ DOMAIN x.effects = 1 .. Len(x.effects) /\ Len(x.effects) \in Nat
  BY DEF InScope
<1>1. Counted(r) = 1 .. n
  <2>1. ASSUME NEW k \in Counted(r)
        PROVE  k \in 1 .. n
    <3>1. PICK x \in B : k \in {x.at + i : i \in DOMAIN x.effects}
      BY <2>1 DEF Counted
    <3>2. PICK i \in DOMAIN x.effects : k = x.at + i
      BY <3>1
    <3>3. x.at \in Nat /\ i \in Nat \ {0} /\ x.at + i <= n
      BY <3>1, <3>2, <1>b DEF InScope
    <3>. QED  BY <3>2, <3>3, <1>n
  <2>2. ASSUME NEW k \in 1 .. n
        PROVE  k \in Counted(r)
    <3>1. PICK x \in B : \E i \in DOMAIN x.effects : k = x.at + i
      BY <2>2 DEF InScope
    <3>2. k \in {x.at + i : i \in DOMAIN x.effects}
      BY <3>1
    <3>. QED  BY <3>1, <3>2 DEF Counted
  <2>. QED  BY <2>1, <2>2
<1>2. Cardinality(Counted(r)) = n
  BY <1>1, <1>n, FS_Interval
<1>3. ASSUME NEW e \in Placed
      PROVE  \E x \in B : \E i \in DOMAIN x.effects : e = <<x.at + i, x.effects[i].path>>
  BY <1>3
<1>4. \A e \in Placed : /\ e[2] \in Allowed(r)
                        /\ op[r] = "tree" /\ e[2] = Root => e[1] = n
  <2>. SUFFICES ASSUME NEW e \in Placed
                PROVE  /\ e[2] \in Allowed(r)
                       /\ op[r] = "tree" /\ e[2] = Root => e[1] = n
    OBVIOUS
  <2>0. PICK x \in B : \E i \in DOMAIN x.effects : e = <<x.at + i, x.effects[i].path>>
    BY <1>3
  <2>1. PICK i \in DOMAIN x.effects : e = <<x.at + i, x.effects[i].path>>
    BY <2>0
  <2>. QED  BY <2>1 DEF InScope
<1>5. ASSUME NEW e \in Placed, NEW f \in Placed, e[1] = f[1] \/ e[2] = f[2]
      PROVE  e = f
  <2>0. PICK x \in B : \E i \in DOMAIN x.effects : e = <<x.at + i, x.effects[i].path>>
    BY <1>3
  <2>1. PICK i \in DOMAIN x.effects : e = <<x.at + i, x.effects[i].path>>
    BY <2>0
  <2>f. PICK y \in B : \E j \in DOMAIN y.effects : f = <<y.at + j, y.effects[j].path>>
    BY <1>3
  <2>2. PICK j \in DOMAIN y.effects : f = <<y.at + j, y.effects[j].path>>
    BY <2>f
  <2>3. x.at + i = y.at + j /\ x.effects[i].path = y.effects[j].path
    BY <1>5, <2>1, <2>2 DEF InScope
  <2>. QED  BY <2>1, <2>2, <2>3
<1>. QED  BY <1>1, <1>2, <1>4, <1>5, <1>n

\* Nothing more is read, validated or acknowledged.
Stopped(r) == ~up \/ kern[r].pc \in {"incomplete", "over"}

LandingBatches(r) == {x \in landing[r] : x.t = "batch"}

\* The batches the exchange has counted, and the one it never will.
Acked(r) == {x \in BatchesOf(r) : x.at # kern[r].idx}
Overdue(r) == {x \in BatchesOf(r) \union LandingBatches(r) : x.at = kern[r].idx}

\* What is counted is in scope.  A batch that is durable, or may become so, and is
\* not counted is the one valid report the handler held when it stopped.
Scope(r) ==
  /\ kern[r].pc = "record" => ReportOk(r, kern[r].pend)
  /\ InScope(r, Acked(r), kern[r].idx, kern[r].seen)
  /\ \A x \in LandingBatches(r) : x.at = kern[r].idx
  /\ \A x \in Overdue(r) :
       /\ Stopped(r) /\ BatchOk(r, x) /\ toCli[r].t # "ack"
       /\ kern[r].pc = "record" => x = kern[r].pend
       /\ kern[r].pc \in {"record", "incomplete", "over"}
  /\ \A x, y \in Overdue(r) : x = y
  /\ toCli[r].t = "ack" => toCli[r].at = kern[r].idx

ScopeInv == \A r \in Requests : Scope(r)

LEMMA BatchTyped ==
  ASSUME Typed, NEW r \in Requests
  PROVE  /\ BatchesOf(r) \subseteq BatchReports /\ LandingBatches(r) \subseteq BatchReports
         /\ \A x \in BatchReports : x.t = "batch" /\ x.at \in Nat
<1>1. trail[r] \subseteq Records /\ landing[r] \subseteq Records
  BY DEF Typed
<1>2. \A x \in FinishReports : x.t = "finish"
  BY DEF FinishReports
<1>3. \A x \in Records : x.t = "batch" => x \in BatchReports
  BY <1>2, FrameTags DEF Records, Reports
<1>. QED  BY <1>1, <1>3 DEF BatchesOf, LandingBatches, BatchReports

\* The exchange and the request being as they were, so is the judgment.
LEMMA SameJudgment ==
  ASSUME NEW r, op' = op, kern'[r].idx = kern[r].idx, kern'[r].seen = kern[r].seen
  PROVE  /\ \A x : BatchOk(r, x)' <=> BatchOk(r, x)
         /\ \A B, n, S : InScope(r, B, n, S)' <=> InScope(r, B, n, S)
<1>1. Allowed(r)' = Allowed(r)
  BY DEF Allowed
<1>2. ASSUME NEW x
      PROVE  BatchOk(r, x)' <=> BatchOk(r, x)
  BY <1>1 DEF BatchOk
<1>3. ASSUME NEW B, NEW n, NEW S
      PROVE  InScope(r, B, n, S)' <=> InScope(r, B, n, S)
  BY <1>1 DEF InScope
<1>. QED  BY <1>2, <1>3

\* No batch is counted and none becomes overdue.
LEMMA ScopeKept ==
  ASSUME NEW r, Scope(r), op' = op, kern'[r].idx = kern[r].idx, kern'[r].seen = kern[r].seen,
         BatchesOf(r)' \ Overdue(r) = BatchesOf(r) \ Overdue(r),
         Overdue(r)' \subseteq Overdue(r), LandingBatches(r)' \subseteq LandingBatches(r),
         kern'[r].pc = "record" => ReportOk(r, kern[r].pend)',
         toCli'[r].t = "ack" => toCli'[r].at = kern[r].idx,
         Overdue(r) # {} => /\ Stopped(r)' /\ toCli'[r].t # "ack"
                            /\ kern'[r].pc = "record" => kern[r].pc = "record" /\ kern'[r].pend = kern[r].pend
                            /\ kern'[r].pc \in {"record", "incomplete", "over"}
  PROVE  Scope(r)'
<1>j. /\ \A x : BatchOk(r, x)' <=> BatchOk(r, x)
      /\ \A B, n, S : InScope(r, B, n, S)' <=> InScope(r, B, n, S)
  BY SameJudgment
<1>1. Acked(r)' = Acked(r)
  <2>1. Acked(r) = {x \in BatchesOf(r) \ Overdue(r) : x.at # kern[r].idx}
    BY DEF Acked, Overdue
  <2>2. Acked(r)' = {x \in BatchesOf(r)' \ Overdue(r) : x.at # kern[r].idx}
    BY DEF Acked, Overdue
  <2>. QED  BY <2>1, <2>2
<1>2. InScope(r, Acked(r), kern[r].idx, kern[r].seen)'
  BY <1>1, <1>j DEF Scope
<1>3. \A x \in Overdue(r)' :
        /\ Stopped(r)' /\ BatchOk(r, x)' /\ toCli'[r].t # "ack"
        /\ kern'[r].pc = "record" => x = kern'[r].pend
        /\ kern'[r].pc \in {"record", "incomplete", "over"}
  BY <1>j DEF Scope
<1>4. \A x, y \in Overdue(r)' : x = y
  BY DEF Scope
<1>5. \A x \in LandingBatches(r)' : x.at = kern'[r].idx
  BY DEF Scope
<1>. QED  BY <1>2, <1>3, <1>4, <1>5 DEF Scope

\* The report in hand is given up, or the daemon dies holding it.
LEMMA ScopeOwes ==
  ASSUME NEW r, Scope(r), op' = op, kern'[r].idx = kern[r].idx, kern'[r].seen = kern[r].seen,
         Overdue(r) = {}, trail'[r] = trail[r], landing'[r] = landing[r] \union {kern[r].pend},
         kern[r].pc = "record", kern'[r].pend = kern[r].pend, toCli'[r].t # "ack",
         Stopped(r)', kern'[r].pc \in {"record", "incomplete", "over"},
         kern'[r].term = kern[r].term
  PROVE  Scope(r)'
<1>j. /\ \A x : BatchOk(r, x)' <=> BatchOk(r, x)
      /\ \A B, n, S : InScope(r, B, n, S)' <=> InScope(r, B, n, S)
  BY SameJudgment
<1>p. ReportOk(r, kern[r].pend)
  BY DEF Scope
<1>q. kern[r].pend.at = kern[r].idx /\ (kern[r].pend.t = "batch" => BatchOk(r, kern[r].pend))
  BY <1>p DEF ReportOk
<1>0. BatchesOf(r)' = BatchesOf(r)
  BY DEF BatchesOf
<1>1. Acked(r)' = Acked(r)
  BY <1>0 DEF Acked
<1>2. InScope(r, Acked(r), kern[r].idx, kern[r].seen)'
  BY <1>1, <1>j DEF Scope
<1>3. LandingBatches(r) = {} /\ \A x \in LandingBatches(r)' : x = kern[r].pend /\ x.t = "batch"
  BY DEF LandingBatches, Overdue, Scope
<1>4. \A x \in Overdue(r)' : x = kern[r].pend /\ x.t = "batch"
  BY <1>0, <1>3 DEF Overdue
<1>5. (kern[r].pc = "record" => ReportOk(r, kern[r].pend))'
  BY <1>p, <1>j DEF ReportOk, FinishOk
<1>6. \A x \in Overdue(r)' :
        /\ Stopped(r)' /\ BatchOk(r, x)' /\ toCli'[r].t # "ack"
        /\ kern'[r].pc = "record" => x = kern'[r].pend
        /\ kern'[r].pc \in {"record", "incomplete", "over"}
  BY <1>4, <1>q, <1>j
<1>7. \A x \in LandingBatches(r)' : x.at = kern'[r].idx
  BY <1>3, <1>q
<1>. QED  BY <1>2, <1>4, <1>5, <1>6, <1>7 DEF Scope

\* The report in hand is counted.
LEMMA ScopeCounts ==
  ASSUME Typed, NEW r \in Requests, Scope(r), Turn(r), up, op' = op, Books(r)
  PROVE  Scope(r)'
<1>t. kern[r].idx \in Nat
  BY DEF Typed, KernType
<1>0. kern[r].pc = "record" /\ kern'[r].pc = "ack" /\ toCli'[r] = toCli[r] /\ toCli[r].t # "ack"
  BY DEF Books, Turn, Resting
<1>1. Overdue(r) = {} /\ LandingBatches(r) = {}
  BY <1>0 DEF Scope, Stopped, Overdue
<1>2. Acked(r) = BatchesOf(r)
  BY <1>1 DEF Acked, Overdue
<1>p. ReportOk(r, kern[r].pend) /\ kern[r].pend \in Reports
  BY <1>0 DEF Scope, Books
<1>l. LandingBatches(r)' = {}
  BY <1>1 DEF Books, LandingBatches
<1>3. CASE kern[r].pend.t = "batch"
  <2>1. kern[r].pend \in BatchReports /\ BatchOk(r, kern[r].pend) /\ kern[r].pend.at = kern[r].idx
    BY <1>3, <1>p DEF ReportOk, Reports, FinishReports
  <2>2. Len(kern[r].pend.effects) \in Nat \ {0}
    BY <2>1 DEF BatchOk
  <2>3. kern'[r].idx = kern[r].idx + Len(kern[r].pend.effects)
    BY <1>3 DEF Books
  <2>4. kern'[r].seen = kern[r].seen \union PathsOf(kern[r].pend)
    BY DEF Books
  <2>5. BatchesOf(r)' = BatchesOf(r) \union {kern[r].pend}
    BY <1>3 DEF BatchesOf, Books
  <2>6. InScope(r, BatchesOf(r) \union {kern[r].pend}, kern'[r].idx, kern'[r].seen)
    BY <2>1, <2>3, <2>4, <1>2, ScopeGrows DEF Scope
  <2>7. \A x \in BatchesOf(r) \union {kern[r].pend} : x.at # kern'[r].idx
    <3>1. \A x \in BatchesOf(r) : x.at \in Nat /\ x.at + 1 <= kern[r].idx
      BY <1>2 DEF Scope, InScope
    <3>. QED  BY <3>1, <2>1, <2>2, <2>3, <1>t
  <2>8. Acked(r)' = BatchesOf(r) \union {kern[r].pend} /\ Overdue(r)' = {}
    BY <2>5, <2>7, <1>l DEF Acked, Overdue
  <2>9. Allowed(r)' = Allowed(r)
    BY DEF Allowed
  <2>10. InScope(r, Acked(r), kern[r].idx, kern[r].seen)'
    BY <2>6, <2>8, <2>9 DEF InScope
  <2>. QED  BY <2>8, <2>10, <1>0, <1>l DEF Scope
<1>4. CASE kern[r].pend.t # "batch"
  <2>1. kern'[r].idx = kern[r].idx /\ kern'[r].seen = kern[r].seen
    BY <1>4, <1>t DEF Books, PathsOf
  <2>2. BatchesOf(r)' = BatchesOf(r)
    BY <1>4 DEF Books, BatchesOf
  <2>3. Overdue(r)' = {}
    BY <2>1, <2>2, <1>1, <1>l DEF Overdue
  <2>. QED  BY <2>1, <2>2, <2>3, <1>0, <1>1, <1>l, ScopeKept
<1>. QED  BY <1>3, <1>4

\* Records that are no batches do not count.
LEMMA SameBatches ==
  ASSUME NEW r, trail[r] \subseteq trail'[r], trail'[r] \subseteq trail[r] \union Marks,
         landing[r] \subseteq landing'[r], landing'[r] \subseteq landing[r] \union Marks,
         kern'[r].idx = kern[r].idx
  PROVE  BatchesOf(r)' = BatchesOf(r) /\ LandingBatches(r)' = LandingBatches(r)
         /\ Overdue(r)' = Overdue(r)
<1>1. BatchesOf(r)' = BatchesOf(r)
  BY MarkTags DEF BatchesOf
<1>2. LandingBatches(r)' = LandingBatches(r)
  BY MarkTags DEF LandingBatches
<1>. QED  BY <1>1, <1>2 DEF Overdue

LEMMA KernelScope ==
  ASSUME Typed, TurnInv, ScopeInv, NEW r \in Requests, KernelStep(r)
  PROVE  Scope(r)'
<1>i. Scope(r) /\ Turn(r)
  BY DEF ScopeInv, TurnInv
<1>0. up /\ up' = up /\ op' = op
  BY KernelMoves
<1>1. CASE Quiet(r)
  <2>1. kern'[r].idx = kern[r].idx /\ kern'[r].seen = kern[r].seen /\ kern'[r].pc # "record"
    BY <1>1 DEF Quiet
  <2>2. BatchesOf(r)' = BatchesOf(r) /\ LandingBatches(r)' = LandingBatches(r)
        /\ Overdue(r)' = Overdue(r)
    BY <1>1, SameBatches DEF Quiet
  <2>3. toCli'[r].t = "ack" => toCli'[r].at = kern[r].idx
    BY <1>1, <1>i, FrameTags DEF Quiet, Sends, Scope
  <2>4. ASSUME Overdue(r) # {}
        PROVE  Stopped(r)' /\ toCli'[r].t # "ack" /\ kern'[r].pc = "over"
    <3>1. kern[r].pc \in {"incomplete", "over"} /\ toCli[r].t # "ack"
      BY <2>4, <1>i, <1>0 DEF Scope, Stopped
    <3>2. kern'[r].pc = "over"
      BY <3>1, <1>1 DEF Quiet
    <3>3. toCli'[r].t # "ack"
      BY <3>1, <1>1, FrameTags DEF Quiet, Sends
    <3>. QED  BY <3>2, <3>3 DEF Stopped
  <2>. QED  BY <2>1, <2>2, <2>3, <2>4, <1>i, <1>0, ScopeKept
<1>2. CASE Takes(r)
  <2>1. /\ kern[r].pc = "read" /\ kern'[r].idx = kern[r].idx /\ kern'[r].seen = kern[r].seen
        /\ trail'[r] = trail[r] /\ landing'[r] = landing[r] /\ toCli'[r] = toCli[r]
        /\ kern'[r].term = kern[r].term /\ kern'[r].pend = toKern[r] /\ ReportOk(r, toKern[r])
    BY <1>2 DEF Takes
  <2>2. BatchesOf(r)' = BatchesOf(r) /\ LandingBatches(r)' = LandingBatches(r)
        /\ Overdue(r)' = Overdue(r)
    BY <2>1, SameBatches
  <2>3. Overdue(r) = {}
    BY <2>1, <1>i DEF Scope
  <2>4. ReportOk(r, kern[r].pend)'
    <3>1. \A x : BatchOk(r, x)' <=> BatchOk(r, x)
      BY <2>1, <1>0, SameJudgment
    <3>. QED  BY <2>1, <3>1, <1>0 DEF ReportOk, FinishOk
  <2>5. toCli'[r].t = "ack" => toCli'[r].at = kern[r].idx
    BY <2>1, <1>i DEF Scope
  <2>. QED  BY <2>1, <2>2, <2>3, <2>4, <2>5, <1>i, <1>0, ScopeKept
<1>3. CASE Books(r)
  BY <1>3, <1>i, <1>0, ScopeCounts
<1>4. CASE Drops(r)
  <2>1. /\ kern[r].pc = "record" /\ kern'[r].pc = "incomplete"
        /\ kern'[r].idx = kern[r].idx /\ kern'[r].seen = kern[r].seen
        /\ kern'[r].term = kern[r].term /\ kern'[r].pend = kern[r].pend
        /\ trail'[r] = trail[r] /\ landing'[r] = landing[r] \union {kern[r].pend}
        /\ toCli'[r] = toCli[r]
    BY <1>4 DEF Drops
  <2>2. Overdue(r) = {}
    BY <2>1, <1>i, <1>0 DEF Scope, Stopped
  <2>3. toCli'[r].t # "ack" /\ Stopped(r)'
    BY <2>1, <1>i DEF Turn, Resting, Stopped
  <2>. QED  BY <2>1, <2>2, <2>3, <1>i, <1>0, ScopeOwes
<1>. QED  BY <1>1, <1>2, <1>3, <1>4, KernelMoves

\* The subject's side changes none of it.
LEMMA RestScope ==
  ASSUME NEW r, Scope(r), op' = op, up' \in {up, FALSE}, kern'[r] = kern[r],
         BatchesOf(r)' \ Overdue(r) = BatchesOf(r) \ Overdue(r),
         Overdue(r)' \subseteq Overdue(r), LandingBatches(r)' \subseteq LandingBatches(r),
         toCli'[r] \in {toCli[r], None}
  PROVE  Scope(r)'
<1>1. (kern[r].pc = "record" => ReportOk(r, kern[r].pend))'
  <2>1. \A x : BatchOk(r, x)' <=> BatchOk(r, x)
    BY SameJudgment
  <2>. QED  BY <2>1 DEF Scope, ReportOk, FinishOk
<1>2. toCli'[r].t = "ack" => toCli'[r] = toCli[r]
  BY FrameTags
<1>3. Overdue(r) # {} => /\ Stopped(r)' /\ toCli'[r].t # "ack"
                         /\ kern'[r].pc \in {"record", "incomplete", "over"}
  BY <1>2 DEF Scope, Stopped
<1>. QED  BY <1>1, <1>2, <1>3, ScopeKept DEF Scope

LEMMA ScopeStep ==
  ASSUME Typed, TurnInv, ScopeInv, [Next]_vars
  PROVE  ScopeInv'
<1>s. ASSUME NEW r \in Requests, op' = op, up' \in {up, FALSE}, kern'[r] = kern[r],
             trail'[r] = trail[r], landing'[r] = landing[r], toCli'[r] \in {toCli[r], None}
      PROVE  Scope(r)'
  <2>1. BatchesOf(r)' = BatchesOf(r) /\ LandingBatches(r)' = LandingBatches(r)
        /\ Overdue(r)' = Overdue(r)
    BY <1>s, SameBatches
  <2>. QED  BY <1>s, <2>1, RestScope DEF ScopeInv
<1>1. CASE UNCHANGED vars
  BY <1>1, <1>s DEF vars, audit, subject, ScopeInv
<1>2. CASE DaemonDies
  <2>. SUFFICES ASSUME NEW r \in Requests PROVE Scope(r)'
    BY DEF ScopeInv
  <2>1. up /\ up' = FALSE /\ UNCHANGED <<op, kern, toCli, trail>>
    BY <1>2 DEF DaemonDies
  <2>2. landing'[r] = landing[r] \union InHand(r)
    BY <1>2 DEF DaemonDies
  <2>3. Scope(r) /\ Turn(r)
    BY DEF ScopeInv, TurnInv
  <2>4. CASE kern[r].pc = "record"
    <3>1. InHand(r) = {kern[r].pend}
      BY <2>4 DEF InHand
    <3>2. Overdue(r) = {}
      BY <2>1, <2>3, <2>4 DEF Scope, Stopped
    <3>3. toCli'[r].t # "ack" /\ Stopped(r)'
      BY <2>1, <2>3, <2>4 DEF Turn, Resting, Stopped
    <3>. QED  BY <2>1, <2>2, <2>3, <2>4, <3>1, <3>2, <3>3, ScopeOwes
  <2>5. CASE kern[r].pc # "record"
    <3>1. InHand(r) \subseteq Marks
      BY <2>5, InHandIs
    <3>2. BatchesOf(r)' = BatchesOf(r) /\ LandingBatches(r)' = LandingBatches(r)
          /\ Overdue(r)' = Overdue(r)
      BY <2>1, <2>2, <3>1, SameBatches
    <3>. QED  BY <2>1, <2>3, <3>2, RestScope
  <2>. QED  BY <2>4, <2>5
<1>3. ASSUME NEW r \in Requests, Step(r)
      PROVE  ScopeInv'
  <2>u. op' = op /\ up' = up
    BY <1>3, StepSame
  <2>1. Scope(r)'
    <3>1. CASE KernelStep(r)
      BY <3>1, KernelScope
    <3>2. CASE Elsewhere(r)
      <4>1. UNCHANGED <<kern, trail, landing>>
        BY <3>2, ElsewhereIs
      <4>2. toCli'[r] \in {toCli[r], None}
        <5>t. toCli \in [Requests -> Frames]
          BY DEF Typed
        <5>1. CASE ClientStep(r)
          BY <5>1, <5>t DEF ClientStep, GrantArrives, Quit, Killed, StepReturns, AckArrives,
                            PeerReports, PeerCloses
        <5>2. CASE ~ClientStep(r)
          BY <3>2, <5>2 DEF Elsewhere, WorkerStep, Aim, CallRefused, RemoveEntry, Descend,
                MakeDirectory, PassDirectory, DoExact, OrphanEnds, KernelLate, ClientLate, OtherProcess
        <5>. QED  BY <5>1, <5>2
      <4>. QED  BY <4>1, <4>2, <2>u, <1>s
    <3>3. CASE Land(r)
      <4>1. PICK x \in landing[r] : /\ trail'[r] = trail[r] \union {x}
                                    /\ landing'[r] = landing[r] \ {x}
        BY <3>3, LandIs
      <4>2. UNCHANGED <<kern, toCli>>
        BY <3>3, LandIs
      <4>3. Scope(r)
        BY DEF ScopeInv
      <4>4. x.t = "batch" => x \in Overdue(r)
        BY <4>1, <4>3 DEF Scope, Overdue, LandingBatches
      <4>5. BatchesOf(r)' \ Overdue(r) = BatchesOf(r) \ Overdue(r)
        BY <4>1, <4>4 DEF BatchesOf
      <4>6. LandingBatches(r)' \subseteq LandingBatches(r)
        BY <4>1 DEF LandingBatches
      <4>7. Overdue(r)' \subseteq Overdue(r)
        BY <4>1, <4>2, <4>4 DEF Overdue, BatchesOf, LandingBatches
      <4>. QED  BY <4>2, <4>3, <4>5, <4>6, <4>7, <2>u, RestScope
    <3>. QED  BY <1>3, <3>1, <3>2, <3>3 DEF Step, Around, Elsewhere
  <2>2. ASSUME NEW s \in Requests, s # r
        PROVE  Scope(s)'
    <3>1. Kept(s)
      BY <1>3, <2>2, StepLocal
    <3>. QED  BY <3>1, <1>s DEF Kept
  <2>. QED  BY <2>1, <2>2 DEF ScopeInv
<1>. QED  BY <1>1, <1>2, <1>3, StepCases

LEMMA InitScope == Init => ScopeInv
<1>. SUFFICES ASSUME Init, NEW r \in Requests PROVE Scope(r)
  BY DEF ScopeInv
<1>1. /\ kern[r].pc = "idle" /\ kern[r].idx = 0 /\ kern[r].seen = {} /\ toCli[r] = None
      /\ trail[r] = {} /\ landing[r] = {}
  BY DEF Init, Fresh
<1>2. Acked(r) = {} /\ Overdue(r) = {} /\ LandingBatches(r) = {}
  BY <1>1 DEF Acked, Overdue, BatchesOf, LandingBatches
<1>3. InScope(r, {}, 0, {})
  BY MutationAssumption DEF InScope
<1>. QED  BY <1>1, <1>2, <1>3, FrameTags DEF Scope

\* The trail as a whole is in scope: what was counted, and at most one valid
\* batch after it.
LEMMA WholeTrail ==
  ASSUME Typed, NEW r \in Requests, Scope(r)
  PROVE  \E n, S : InScope(r, BatchesOf(r), n, S)
<1>1. CASE BatchesOf(r) \intersect Overdue(r) = {}
  <2>1. BatchesOf(r) = Acked(r)
    BY <1>1 DEF Acked, Overdue
  <2>. QED  BY <2>1 DEF Scope
<1>2. CASE BatchesOf(r) \intersect Overdue(r) # {}
  <2>1. PICK b \in BatchesOf(r) : b \in Overdue(r)
    BY <1>2
  <2>2. BatchesOf(r) = Acked(r) \union {b}
    BY <2>1 DEF Acked, Overdue, Scope
  <2>3. b \in BatchReports /\ BatchOk(r, b) /\ b.at = kern[r].idx
    BY <2>1, BatchTyped DEF Scope, Overdue
  <2>4. InScope(r, Acked(r) \union {b}, kern[r].idx + Len(b.effects), kern[r].seen \union PathsOf(b))
    BY <2>3, ScopeGrows DEF Scope
  <2>. QED  BY <2>2, <2>4
<1>. QED  BY <1>1, <1>2

LEMMA ScopeAlways == Spec => [](Typed /\ ScopeInv)
<1>1. Typed /\ TurnInv /\ ScopeInv /\ [Next]_vars => ScopeInv'
  BY ScopeStep
<1>. QED  BY <1>1, InitScope, TurnsAlwaysTaken, PTL DEF Spec

\* Whoever reports, and whatever it reports (validate_report and acknowledge of
\* mutation_exchange.rs): the effects on the trail are ones the grant allows, each
\* once, numbered without gaps and within the limit, and nothing under a root
\* follows the root's own removal; a batch whose append was given up and that
\* lands late included.
THEOREM AlwaysInScope == Spec => []RecordedInScope
<1>1. Typed /\ ScopeInv => RecordedInScope
  <2>. SUFFICES ASSUME Typed, ScopeInv, NEW r \in Requests
                PROVE  LET B == BatchesOf(r)
                           Placed == UNION {{<<x.at + i, x.effects[i].path>> : i \in DOMAIN x.effects} : x \in B}
                       IN /\ \A e \in Placed : e[2] \in Allowed(r)
                          /\ \A e, f \in Placed : (e[1] = f[1] \/ e[2] = f[2]) => e = f
                          /\ Counted(r) = 1 .. Cardinality(Counted(r))
                          /\ Cardinality(Counted(r)) <= MaxEffects
                          /\ op[r] = "tree" =>
                               \A e \in Placed : e[2] = Root => e[1] = Cardinality(Counted(r))
    BY DEF RecordedInScope
  <2>1. PICK n, S : InScope(r, BatchesOf(r), n, S)
    BY WholeTrail DEF ScopeInv
  <2>. QED  BY <2>1, ScopeSays
<1>. QED  BY <1>1, ScopeAlways, PTL

\* What a client is told is on the trail before it is told (refuse, commit_intent
\* and attempt of mutation.rs): a denial, the intent of a grant, exactly the
\* effects an acknowledgment counts, and the end itself when the attempt ended.
THEOREM AlwaysToldWhatIsRecorded == Spec => []ToldIsRecorded
<1>1. Typed /\ ToldInv /\ ScopeInv => ToldIsRecorded
  <2>. SUFFICES ASSUME Typed, ToldInv, ScopeInv, NEW r \in Requests
                PROVE  /\ toCli[r].t = "deny" => Deny \in trail[r]
                       /\ toCli[r].t = "grant" => Intent \in trail[r]
                       /\ toCli[r].t = "ack" => Counted(r) = 1 .. toCli[r].at
                       /\ cli[r].pc = "done" => OnTrail(r, "finish")
    BY DEF ToldIsRecorded
  <2>1. Told(r) /\ Scope(r)
    BY DEF ToldInv, ScopeInv
  <2>2. ASSUME toCli[r].t = "ack"
        PROVE  Counted(r) = 1 .. toCli[r].at
    <3>1. Overdue(r) = {} /\ toCli[r].at = kern[r].idx
      BY <2>1, <2>2 DEF Scope
    <3>2. BatchesOf(r) = Acked(r)
      BY <3>1 DEF Acked, Overdue
    <3>3. InScope(r, BatchesOf(r), kern[r].idx, kern[r].seen)
      BY <2>1, <3>2 DEF Scope
    <3>. QED  BY <3>1, <3>3, ScopeSays
  <2>. QED  BY <2>1, <2>2 DEF Told
<1>. QED  BY <1>1, ScopeAlways, ToldHolds, PTL
=============================================================================
