------------------------------ MODULE Mutation ------------------------------
(***************************************************************************)
(* Filesystem attempts: maknae-kernel mutation.rs and mutation_exchange.rs   *)
(* on one end of a connection, maknae-loop mutation.rs with maknae-io         *)
(* mutation.rs on the other.  The kernel admits a request (uid_gate.rs),      *)
(* prepares and decides it in a blocking worker, records the intent, grants   *)
(* the attempt and then records every report before it acknowledges it.  The  *)
(* subject's client performs one effect, reports it, and performs the next    *)
(* only when the report was acknowledged.                                     *)
(*                                                                         *)
(* A path is the sequence of its names below the held directory.  Requests in *)
(* Faithful are driven by maknae-loop; the others by a peer that reports      *)
(* whatever it likes.                                                         *)
(***************************************************************************)
EXTENDS Naturals, Sequences, FiniteSets, SequencesExt

CONSTANTS
  Requests,    \* attempts asked for, each on its own connection
  UidOf,       \* the uid of each
  Faithful,    \* those whose client is maknae-loop
  Asks,        \* what the requests may ask for together: functions to Ops
  MaxWorkers,  \* MAX_WORKERS
  MaxBatch,    \* MAX_MUTATION_BATCH
  MaxEffects,  \* MAX_MUTATION_EFFECTS
  MaxDepth,    \* MAX_MUTATION_DEPTH
  Root,        \* the path asked for, and the root of a recursive delete
  Chain,       \* the directories of a mkdir with parents, outermost first
  Tree,        \* paths that can exist
  Disks,       \* what exists at the start of an attempt
  Claimed,     \* what a peer that is not maknae-loop may report, per request
  MaxOther     \* bound: changes another process makes to a tree

Ops == {"none", "exact", "tree", "dirs"}

Uids == {UidOf[r] : r \in Requests}

Outcomes == {"Success", "OsRefused", "Partial", "LimitReached", "PathChanged",
             "UnsupportedName", "DurabilityUnknown"}

\* What decodes as a report: the id matches or not, the index is any, an effect
\* names any path and fits the request or not.
BatchReports == [t : {"batch"}, id : BOOLEAN, at : Nat,
                 effects : Seq([path : Seq(STRING), fits : BOOLEAN])]
FinishReports == [t : {"finish"}, id : BOOLEAN, at : Nat, outcome : Outcomes]
Reports == BatchReports \union FinishReports

ASSUME MutationAssumption ==
  /\ UidOf \in [Requests -> Uids] /\ Faithful \subseteq Requests
  /\ Asks \subseteq [Requests -> Ops] /\ IsFiniteSet(Requests)
  /\ MaxWorkers \in Nat \ {0} /\ MaxBatch \in Nat \ {0} /\ MaxEffects \in Nat \ {0}
  /\ MaxDepth \in Nat \ {0} /\ MaxOther \in Nat
  /\ Root \in Tree /\ Chain \in Seq(Tree) /\ Len(Chain) > 0 /\ Disks \subseteq SUBSET Tree
  /\ Tree \subseteq Seq(STRING) \ {<<>>}
  /\ Claimed \in [Requests -> SUBSET Reports]

VARIABLES
  op,        \* what each request asks for
  up,        \* whether the daemon runs
  claims,    \* UidGate: uids with a live preparing worker
  permits,   \* free permits of CAPACITY
  prep,      \* the blocking worker of each request
  kern,      \* where the handler of each request is, and its MutationExchange
  trail,     \* the records of each request that are durable
  landing,   \* records whose append was given up and may still become durable
  lost,      \* whether an append about the request was given up
  toCli,     \* the frame on its way to the client, if any
  toKern,    \* the frame on its way to the kernel, if any
  open,      \* whether the client keeps the connection open
  cli,       \* the client's attempt
  wk,        \* the client's blocking worker and its walk
  disk,      \* the paths that exist
  eff,       \* the effects the client performed, in order
  late,      \* which of the two attempt windows are over
  other      \* changes another process made

gate == <<claims, permits, prep>>
audit == <<trail, landing, lost>>
subject == <<cli, wk, disk, eff, other>>
vars == <<op, up, gate, kern, audit, toCli, toKern, open, subject, late>>

None == [t |-> "none"]     \* no frame
NoPath == <<>>

-----------------------------------------------------------------------------
(* Records, reports and the scope of a grant *)

\* A report's entry: fits stands for the effect's kind and, for a read, the
\* length, range and lines that must agree with the page asked for.
Entry(p) == [path |-> p, fits |-> TRUE]

Batch(first, es) == [t |-> "batch", id |-> TRUE, at |-> first, effects |-> es]
Finish(next, o) == [t |-> "finish", id |-> TRUE, at |-> next, outcome |-> o]

Intent == [t |-> "intent"]
Deny == [t |-> "deny"]
Incomplete == [t |-> "incomplete"]

Allowed(r) ==
  CASE op[r] = "tree" ->
         {p \in Tree : IsPrefix(Root, p) /\ Len(p) - Len(Root) <= MaxDepth}
    [] op[r] = "dirs" -> {Chain[i] : i \in DOMAIN Chain}
    [] OTHER -> {Root}

\* Faulty validation: a path may be reported again in a later batch.
BatchOkRepeating(r, b) ==
  LET es == b.effects
      k == kern[r]
  IN /\ Len(es) \in 1 .. MaxBatch /\ k.idx + Len(es) <= MaxEffects
     /\ \A i \in DOMAIN es : es[i].path \in Allowed(r) /\ es[i].fits
     /\ op[r] = "tree" =>
          /\ Root \notin k.seen
          /\ \A i \in 1 .. Len(es) - 1 : es[i].path # Root
     /\ \A i, j \in DOMAIN es : i # j => es[i].path # es[j].path

\* validate_report on a batch
BatchOk(r, b) ==
  LET es == b.effects
      k == kern[r]
  IN /\ Len(es) \in 1 .. MaxBatch /\ k.idx + Len(es) <= MaxEffects
     /\ \A i \in DOMAIN es : es[i].path \in Allowed(r) /\ es[i].fits
     /\ op[r] = "tree" =>
          /\ Root \notin k.seen
          /\ \A i \in 1 .. Len(es) - 1 : es[i].path # Root
     /\ \A i \in DOMAIN es : es[i].path \notin k.seen
     /\ \A i, j \in DOMAIN es : i # j => es[i].path # es[j].path

\* validate_report on a terminal report
FinishOk(r, f) ==
  f.outcome = "Success" =>
    CASE op[r] = "tree" -> Root \in kern[r].seen
      [] op[r] = "dirs" -> TRUE
      [] OTHER -> kern[r].idx = 1

ReportOk(r, m) ==
  /\ ~kern[r].term
  /\ m.id /\ m.at = kern[r].idx
  /\ IF m.t = "batch" THEN BatchOk(r, m) ELSE FinishOk(r, m)

PathsOf(m) == IF m.t = "batch" THEN {m.effects[i].path : i \in DOMAIN m.effects} ELSE {}

-----------------------------------------------------------------------------
Fresh == [pc |-> "idle", idx |-> 0, seen |-> {}, term |-> FALSE, pend |-> None, permit |-> FALSE]

\* The client's worker: the directories it is inside of with the names their
\* cursors have left, the component it is at, the path it is about to touch and
\* the result of the step.
Idle == [pc |-> "idle", stack |-> <<>>, at |-> 1, target |-> NoPath, closing |-> FALSE,
         effect |-> NoPath, finish |-> "none"]

Init ==
  /\ op \in Asks
  /\ up = TRUE
  /\ claims = {}
  /\ permits = MaxWorkers
  /\ prep = [r \in Requests |-> "none"]
  /\ kern = [r \in Requests |-> Fresh]
  /\ trail = [r \in Requests |-> {}]
  /\ landing = [r \in Requests |-> {}]
  /\ lost = [r \in Requests |-> FALSE]
  /\ toCli = [r \in Requests |-> None]
  /\ toKern = [r \in Requests |-> None]
  /\ open = [r \in Requests |-> op[r] # "none"]
  /\ cli = [r \in Requests |-> [pc |-> IF r \in Faithful THEN "wait" ELSE "peer",
                                idx |-> 0, seen |-> {}, finish |-> "none"]]
  /\ wk = [r \in Requests |-> Idle]
  /\ \E d \in Disks : disk = [r \in Requests |-> IF r \in Faithful THEN d ELSE {}]
  /\ eff = [r \in Requests |-> <<>>]
  /\ late = [r \in Requests |-> {}]
  /\ other = [r \in Requests |-> 0]

-----------------------------------------------------------------------------
(* Appending to the trail: it succeeds, or the caller is told it failed; the    *)
(* line may then become durable later, or never.                               *)

Appended(r, x) ==
  /\ trail' = [trail EXCEPT ![r] = @ \union {x}]
  /\ UNCHANGED <<landing, lost>>

AppendFails(r, x) ==
  /\ lost' = [lost EXCEPT ![r] = TRUE]
  /\ landing' = [landing EXCEPT ![r] = @ \union {x}]
  /\ UNCHANGED trail

\* The sink's own worker finishes an append nobody waits for.
Land(r) ==
  /\ \E x \in landing[r] :
       /\ trail' = [trail EXCEPT ![r] = @ \union {x}]
       /\ landing' = [landing EXCEPT ![r] = @ \ {x}]
  /\ UNCHANGED <<op, up, gate, kern, lost, toCli, toKern, open, subject, late>>

-----------------------------------------------------------------------------
(* The kernel's handler *)

At(r, pc) == up /\ kern[r].pc = pc

Goto(r, pc) == kern' = [kern EXCEPT ![r].pc = pc]

\* handle returns: the exchange's permit goes back.
Ends(r) ==
  /\ kern' = [kern EXCEPT ![r].pc = "over", ![r].permit = FALSE, ![r].pend = None]
  /\ permits' = IF kern[r].permit THEN permits + 1 ELSE permits
  /\ UNCHANGED <<claims, prep>>

\* No usable home, this uid is preparing already, or no permit is free.
Turned(r) ==
  /\ At(r, "idle") /\ op[r] # "none"
  /\ Goto(r, "refuse")
  /\ UNCHANGED <<op, up, gate, audit, toCli, toKern, open, subject, late>>

\* try_admit, and the worker is spawned with the claim and the permit.
Admit(r) ==
  /\ At(r, "idle") /\ op[r] # "none"
  /\ UidOf[r] \notin claims
  /\ permits > 0
  /\ claims' = claims \union {UidOf[r]}
  /\ permits' = permits - 1
  /\ prep' = [prep EXCEPT ![r] = "running"]
  /\ Goto(r, "prep")
  /\ UNCHANGED <<op, up, audit, toCli, toKern, open, subject, late>>

\* prepare and authorize return in time.  A refused preparation drops the permit
\* with the worker; a denied one is refused with the permit still held.
Prepared(r) ==
  /\ At(r, "prep") /\ prep[r] = "running"
  /\ claims' = claims \ {UidOf[r]}
  /\ prep' = [prep EXCEPT ![r] = "none"]
  /\ \/ /\ permits' = permits + 1
        /\ Goto(r, "refuse")
     \/ /\ UNCHANGED permits
        /\ \E pc \in {"refuse", "intent"} :
             kern' = [kern EXCEPT ![r].pc = pc, ![r].permit = TRUE]
  /\ UNCHANGED <<op, up, audit, toCli, toKern, open, subject, late>>

\* Faulty timeout: the claim is taken from the worker that still runs.
PrepTimesOutReclaiming(r) ==
  /\ At(r, "prep")
  /\ prep' = [prep EXCEPT ![r] = "orphan"]
  /\ claims' = claims \ {UidOf[r]}
  /\ Goto(r, "refuse")
  /\ UNCHANGED <<op, up, permits, audit, toCli, toKern, open, subject, late>>

\* authz_timeout elapses; the worker keeps its claim and its permit.
PrepTimesOut(r) ==
  /\ At(r, "prep")
  /\ prep' = [prep EXCEPT ![r] = "orphan"]
  /\ Goto(r, "refuse")
  /\ UNCHANGED <<op, up, claims, permits, audit, toCli, toKern, open, subject, late>>

OrphanEnds(r) ==
  /\ up /\ prep[r] = "orphan"
  /\ prep' = [prep EXCEPT ![r] = "none"]
  /\ claims' = claims \ {UidOf[r]}
  /\ permits' = permits + 1
  /\ UNCHANGED <<op, up, kern, audit, toCli, toKern, open, subject, late>>

\* refuse: the answer is sent only when the denial is on the trail.
Refuse(r) ==
  /\ At(r, "refuse")
  /\ \/ /\ Appended(r, Deny)
        /\ toCli' = [toCli EXCEPT ![r] = IF open[r] THEN Deny ELSE None]
     \/ /\ AppendFails(r, Deny)
        /\ UNCHANGED toCli
  /\ Ends(r)
  /\ UNCHANGED <<op, up, toKern, open, subject, late>>

\* commit_intent: nothing is sent unless the intent is on the trail.
CommitIntent(r) ==
  /\ At(r, "intent")
  /\ \/ /\ Appended(r, Intent)
        /\ Goto(r, "grant")
        /\ UNCHANGED gate
     \/ /\ AppendFails(r, Intent)
        /\ Ends(r)
  /\ UNCHANGED <<op, up, toCli, toKern, open, subject, late>>

\* attempt up to its loop: the grant goes out, or it is known not to have.
SendGrant(r) ==
  /\ At(r, "grant")
  /\ \/ /\ open[r] /\ "kern" \notin late[r]
        /\ toCli' = [toCli EXCEPT ![r] = [t |-> "grant"]]
        /\ Goto(r, "read")
     \/ /\ Goto(r, "incomplete")
        /\ UNCHANGED toCli
  /\ UNCHANGED <<op, up, gate, audit, toKern, open, subject, late>>

\* Faulty wait: a report is awaited for as long as the connection lasts.
ReadReportForever(r) ==
  /\ At(r, "read")
  /\ \/ /\ toKern[r] # None
        /\ kern' = [kern EXCEPT
             ![r].pc = IF ReportOk(r, toKern[r]) THEN "record" ELSE "incomplete",
             ![r].pend = IF ReportOk(r, toKern[r]) THEN toKern[r] ELSE None]
     \/ /\ ~open[r] /\ toKern[r] = None
        /\ Goto(r, "incomplete")
  /\ toKern' = [toKern EXCEPT ![r] = None]
  /\ UNCHANGED <<op, up, gate, audit, toCli, open, subject, late>>

\* A report is read and validated, or none came before the deadline or the end of
\* the connection.
ReadReport(r) ==
  /\ At(r, "read")
  /\ \/ /\ toKern[r] # None
        /\ kern' = [kern EXCEPT
             ![r].pc = IF ReportOk(r, toKern[r]) THEN "record" ELSE "incomplete",
             ![r].pend = IF ReportOk(r, toKern[r]) THEN toKern[r] ELSE None]
     \/ /\ "kern" \in late[r] \/ (~open[r] /\ toKern[r] = None)
        /\ Goto(r, "incomplete")
  /\ toKern' = [toKern EXCEPT ![r] = None]
  /\ UNCHANGED <<op, up, gate, audit, toCli, open, subject, late>>

\* MutationExchange::acknowledge
Acknowledge(r) ==
  LET m == kern[r].pend
  IN kern' = [kern EXCEPT
       ![r].pc = "ack",
       ![r].seen = @ \union PathsOf(m),
       ![r].idx = @ + (IF m.t = "batch" THEN Len(m.effects) ELSE 0),
       ![r].term = m.t = "finish",
       ![r].pend = None]

\* Faulty recording: a report that was given up is acknowledged.
RecordReportAnyway(r) ==
  /\ At(r, "record")
  /\ Appended(r, kern[r].pend) \/ AppendFails(r, kern[r].pend)
  /\ Acknowledge(r)
  /\ UNCHANGED <<op, up, gate, toCli, toKern, open, subject, late>>

\* The exact report is durable before the exchange advances.
RecordReport(r) ==
  /\ At(r, "record")
  /\ \/ Appended(r, kern[r].pend) /\ Acknowledge(r)
     \/ AppendFails(r, kern[r].pend) /\ Goto(r, "incomplete")
  /\ UNCHANGED <<op, up, gate, toCli, toKern, open, subject, late>>

\* Faulty acknowledgment: one that cannot be delivered ends the attempt quietly.
SendAckQuietly(r) ==
  /\ At(r, "ack")
  /\ \/ /\ open[r] /\ "kern" \notin late[r]
        /\ toCli' = [toCli EXCEPT ![r] = [t |-> "ack", at |-> kern[r].idx]]
        /\ IF kern[r].term THEN Ends(r) ELSE Goto(r, "read") /\ UNCHANGED gate
     \/ /\ Ends(r)
        /\ UNCHANGED toCli
  /\ UNCHANGED <<op, up, audit, toKern, open, subject, late>>

SendAck(r) ==
  /\ At(r, "ack")
  /\ \/ /\ open[r] /\ "kern" \notin late[r]
        /\ toCli' = [toCli EXCEPT ![r] = [t |-> "ack", at |-> kern[r].idx]]
        /\ IF kern[r].term THEN Ends(r) ELSE Goto(r, "read") /\ UNCHANGED gate
     \/ /\ Goto(r, "incomplete")
        /\ UNCHANGED <<gate, toCli>>
  /\ UNCHANGED <<op, up, audit, toKern, open, subject, late>>

\* incomplete: one bounded append, whatever becomes of it.
WriteIncomplete(r) ==
  /\ At(r, "incomplete")
  /\ Appended(r, Incomplete) \/ AppendFails(r, Incomplete)
  /\ Ends(r)
  /\ UNCHANGED <<op, up, toCli, toKern, open, subject, late>>

\* The attempt's one deadline; acknowledgments do not refresh it.
KernelLate(r) ==
  /\ up /\ kern[r].pc \in {"grant", "read", "record", "ack"}
  /\ late' = [late EXCEPT ![r] = @ \union {"kern"}]
  /\ UNCHANGED <<op, up, gate, kern, audit, toCli, toKern, open, subject>>

\* What a daemon that dies was appending may be on disk.
InHand(r) ==
  CASE kern[r].pc = "refuse" -> {Deny}
    [] kern[r].pc = "intent" -> {Intent}
    [] kern[r].pc = "record" -> {kern[r].pend}
    [] kern[r].pc = "incomplete" -> {Incomplete}
    [] OTHER -> {}

DaemonDies ==
  /\ up
  /\ up' = FALSE
  /\ landing' = [r \in Requests |-> landing[r] \union InHand(r)]
  /\ UNCHANGED <<op, gate, kern, trail, lost, toCli, toKern, open, subject, late>>

-----------------------------------------------------------------------------
(* maknae-loop: the waiter *)

Waiting == {"wait", "step", "batch", "finish"}

ClientLate(r) ==
  /\ cli[r].pc \in Waiting
  /\ late' = [late EXCEPT ![r] = @ \union {"cli"}]
  /\ UNCHANGED <<op, up, gate, kern, audit, toCli, toKern, open, subject>>

\* The grant matches what was prepared and the held directory is where it says.
GrantArrives(r) ==
  /\ cli[r].pc = "wait" /\ toCli[r].t = "grant" /\ "cli" \notin late[r]
  /\ toCli' = [toCli EXCEPT ![r] = None]
  /\ cli' = [cli EXCEPT ![r].pc = "step"]
  /\ wk' = [wk EXCEPT ![r].pc = "aim"]
  /\ UNCHANGED <<op, up, gate, kern, audit, toKern, open, disk, eff, other, late>>

\* run_attempt returns an error: a refusal, a grant that does not match, an
\* elapsed window, a connection that ended.  A worker inside a step is left to it.
Quit(r) ==
  /\ cli[r].pc \in Waiting
  /\ \/ "cli" \in late[r]
     \/ cli[r].pc = "wait" /\ toCli[r] # None
     \/ toCli[r] = None /\ (~up \/ kern[r].pc = "over")
  /\ cli' = [cli EXCEPT ![r].pc = "gone"]
  /\ open' = [open EXCEPT ![r] = FALSE]
  /\ toCli' = [toCli EXCEPT ![r] = None]
  /\ UNCHANGED <<op, up, gate, kern, audit, toKern, wk, disk, eff, other, late>>

\* The process is killed, its worker with it.
Killed(r) ==
  /\ r \in Faithful /\ open[r]
  /\ cli' = [cli EXCEPT ![r].pc = "gone"]
  /\ wk' = [wk EXCEPT ![r] = Idle]
  /\ open' = [open EXCEPT ![r] = FALSE]
  /\ toCli' = [toCli EXCEPT ![r] = None]
  /\ UNCHANGED <<op, up, gate, kern, audit, toKern, disk, eff, other, late>>

\* A refusal by the system after the first effect is a partial outcome.
Reported(r, o) == IF o = "OsRefused" /\ cli[r].idx > 0 THEN "Partial" ELSE o

\* Faulty waiter: the next step starts without the acknowledgment.
StepReturnsUnacked(r) ==
  /\ cli[r].pc = "step" /\ wk[r].pc = "ret" /\ toKern[r] = None
  /\ IF wk[r].effect # NoPath
       THEN /\ toKern' = [toKern EXCEPT ![r] = Batch(cli[r].idx, <<Entry(wk[r].effect)>>)]
            /\ cli' = [cli EXCEPT ![r].pc = IF wk[r].finish = "none" THEN "step" ELSE "batch",
                                  ![r].idx = @ + 1,
                                  ![r].seen = @ \union {wk[r].effect},
                                  ![r].finish = wk[r].finish]
            /\ wk' = [wk EXCEPT ![r].pc = IF wk[r].finish = "none" THEN "aim" ELSE "idle",
                                ![r].effect = NoPath, ![r].finish = "none"]
       ELSE /\ toKern' = [toKern EXCEPT ![r] = Finish(cli[r].idx, Reported(r, wk[r].finish))]
            /\ cli' = [cli EXCEPT ![r].pc = "finish"]
            /\ wk' = [wk EXCEPT ![r] = Idle]
  /\ UNCHANGED <<op, up, gate, kern, audit, toCli, open, disk, eff, other, late>>

\* The worker's step comes back in time: its effect is reported, or its end.
StepReturns(r) ==
  /\ cli[r].pc = "step" /\ wk[r].pc = "ret" /\ toKern[r] = None
  /\ wk' = [wk EXCEPT ![r].pc = "idle", ![r].effect = NoPath, ![r].finish = "none"]
  /\ IF wk[r].effect # NoPath
       THEN /\ toKern' = [toKern EXCEPT ![r] = Batch(cli[r].idx, <<Entry(wk[r].effect)>>)]
            /\ cli' = [cli EXCEPT ![r].pc = "batch", ![r].idx = @ + 1,
                                  ![r].seen = @ \union {wk[r].effect},
                                  ![r].finish = wk[r].finish]
       ELSE /\ toKern' = [toKern EXCEPT ![r] = Finish(cli[r].idx, Reported(r, wk[r].finish))]
            /\ cli' = [cli EXCEPT ![r].pc = "finish"]
  /\ UNCHANGED <<op, up, gate, kern, audit, toCli, open, disk, eff, other, late>>

\* The acknowledgment names the next index: the end is reported, the next step
\* starts, or the attempt is over.
AckArrives(r) ==
  /\ cli[r].pc \in {"batch", "finish"} /\ toCli[r].t = "ack" /\ toCli[r].at = cli[r].idx
  /\ toCli' = [toCli EXCEPT ![r] = None]
  /\ \/ /\ cli[r].pc = "batch" /\ cli[r].finish = "none"
        /\ cli' = [cli EXCEPT ![r].pc = "step"]
        /\ wk' = [wk EXCEPT ![r].pc = "aim"]
        /\ UNCHANGED <<toKern, open>>
     \/ /\ cli[r].pc = "batch" /\ cli[r].finish # "none" /\ toKern[r] = None
        /\ toKern' = [toKern EXCEPT ![r] = Finish(cli[r].idx, Reported(r, cli[r].finish))]
        /\ cli' = [cli EXCEPT ![r].pc = "finish", ![r].finish = "none"]
        /\ UNCHANGED <<wk, open>>
     \/ /\ cli[r].pc = "finish"
        /\ cli' = [cli EXCEPT ![r].pc = "done"]
        /\ open' = [open EXCEPT ![r] = FALSE]
        /\ UNCHANGED <<wk, toKern>>
  /\ UNCHANGED <<op, up, gate, kern, audit, disk, eff, other, late>>

-----------------------------------------------------------------------------
(* maknae-loop: one step of the worker, at most one effect.  It is orphaned when *)
(* its waiter quits and then only finishes what it is at.                        *)

Children(D, p) == {q \in D : Len(q) = Len(p) + 1 /\ IsPrefix(p, q)}

Depth(r) == IF op[r] = "tree" THEN Len(wk[r].target) - Len(Root) ELSE wk[r].at

Stops(r, o) == wk' = [wk EXCEPT ![r].pc = "ret", ![r].finish = o]

\* Worker::reserve, before every system call
Reserve(r, p, depth) ==
  CASE "cli" \in late[r] \/ depth > MaxDepth \/ cli[r].idx >= MaxEffects -> "LimitReached"
    [] p \in cli[r].seen -> "PathChanged"
    [] OTHER -> "armed"

Targets(r, p, depth, closing, stack) ==
  LET verdict == Reserve(r, p, depth)
  IN wk' = [wk EXCEPT
       ![r].stack = stack,
       ![r].pc = IF verdict = "armed" THEN "armed" ELSE "ret",
       ![r].target = p,
       ![r].closing = closing,
       ![r].finish = IF verdict = "armed" THEN "none" ELSE verdict]

\* The walk: the root first, then what the innermost cursor yields, which may be
\* gone or new since the directory was opened, then that directory itself.
AimTree(r) ==
  LET st == wk[r].stack
      top == st[Len(st)]
      Yields(p) == Targets(r, p, Len(p) - Len(Root), FALSE,
                           [st EXCEPT ![Len(st)].todo = @ \ {p}])
  IN \/ st = <<>> /\ Targets(r, Root, 0, FALSE, st)
     \/ st # <<>> /\ \E p \in top.todo \union Children(disk[r], top.dir) : Yields(p)
     \/ st # <<>> /\ top.todo = {} /\ Targets(r, top.dir, Len(top.dir) - Len(Root), TRUE, st)
     \/ st # <<>> /\ \E o \in {"OsRefused", "PathChanged", "UnsupportedName"} : Stops(r, o)

Aim(r) ==
  /\ wk[r].pc = "aim"
  /\ CASE op[r] = "tree" -> AimTree(r)
       [] op[r] = "dirs" -> Targets(r, Chain[wk[r].at], wk[r].at, FALSE, <<>>)
       [] OTHER -> Targets(r, Root, 1, FALSE, <<>>)
  /\ UNCHANGED <<op, up, gate, kern, audit, toCli, toKern, open, cli, disk, eff, other, late>>

\* The system refuses, the held directory is no longer where it was, or the
\* window ended while it was checked.
CallRefused(r) ==
  /\ wk[r].pc = "armed"
  /\ \/ \E o \in {"OsRefused", "PathChanged"} : Stops(r, o)
     \/ "cli" \in late[r] /\ Stops(r, "LimitReached")
  /\ UNCHANGED <<op, up, gate, kern, audit, toCli, toKern, open, cli, disk, eff, other, late>>

Did(r) == eff' = [eff EXCEPT ![r] = Append(@, wk[r].target)]

\* remove_entry succeeds on what exists and holds nothing.
RemoveEntry(r) ==
  LET p == wk[r].target
      st == wk[r].stack
      rest == IF wk[r].closing THEN SubSeq(st, 1, Len(st) - 1) ELSE st
  IN /\ wk[r].pc = "armed" /\ op[r] = "tree"
     /\ p \in disk[r] /\ Children(disk[r], p) = {}
     /\ disk' = [disk EXCEPT ![r] = @ \ {p}]
     /\ Did(r)
     /\ wk' = [wk EXCEPT ![r].pc = "ret", ![r].effect = p, ![r].stack = rest,
                         ![r].finish = IF rest = <<>> THEN "Success" ELSE "none"]
     /\ UNCHANGED <<op, up, gate, kern, audit, toCli, toKern, open, cli, other, late>>

\* DirectoryNotEmpty: the walk goes in, unless it is on its way out.
Descend(r) ==
  LET p == wk[r].target
      below == Children(disk[r], p)
  IN /\ wk[r].pc = "armed" /\ op[r] = "tree"
     /\ p \in disk[r] /\ below # {} /\ ~wk[r].closing
     /\ IF Depth(r) >= MaxDepth
          THEN Stops(r, "LimitReached")
          ELSE wk' = [wk EXCEPT ![r].pc = "aim",
                                ![r].stack = Append(@, [dir |-> p, todo |-> below])]
     /\ UNCHANGED <<op, up, gate, kern, audit, toCli, toKern, open, cli, disk, eff, other, late>>

\* mkdir_one, then the child is opened for the next component; whatever io_finish makes of
\* a failed open stands as OsRefused here.
MakeDirectory(r) ==
  LET p == wk[r].target
      last == wk[r].at = Len(Chain)
  IN /\ wk[r].pc = "armed" /\ op[r] = "dirs"
     /\ p \notin disk[r]
     /\ disk' = [disk EXCEPT ![r] = @ \union {p}]
     /\ Did(r)
     /\ \/ wk' = [wk EXCEPT ![r].pc = "ret", ![r].effect = p, ![r].at = @ + 1,
                            ![r].finish = IF last THEN "Success" ELSE "none"]
        \/ /\ ~last
           /\ wk' = [wk EXCEPT ![r].pc = "ret", ![r].effect = p, ![r].finish = "OsRefused"]
     /\ UNCHANGED <<op, up, gate, kern, audit, toCli, toKern, open, cli, other, late>>

\* A directory that exists is opened and passed over.
PassDirectory(r) ==
  /\ wk[r].pc = "armed" /\ op[r] = "dirs"
  /\ wk[r].target \in disk[r]
  /\ IF wk[r].at = Len(Chain)
       THEN Stops(r, "Success")
       ELSE wk' = [wk EXCEPT ![r].pc = "aim", ![r].at = @ + 1]
  /\ UNCHANGED <<op, up, gate, kern, audit, toCli, toKern, open, cli, disk, eff, other, late>>

\* One file written or read, one entry removed, one directory made: done, or done
\* in part, or done with its durability unknown.
DoExact(r) ==
  /\ wk[r].pc = "armed" /\ op[r] = "exact"
  /\ Did(r)
  /\ \E o \in {"Success", "Partial", "DurabilityUnknown"} :
       wk' = [wk EXCEPT ![r].pc = "ret", ![r].effect = wk[r].target, ![r].finish = o]
  /\ UNCHANGED <<op, up, gate, kern, audit, toCli, toKern, open, cli, disk, other, late>>

\* Another process creates or removes an entry under the walk.
OtherProcess(r) ==
  /\ wk[r].pc \in {"aim", "armed"} /\ op[r] \in {"tree", "dirs"}
  /\ other[r] < MaxOther
  /\ other' = [other EXCEPT ![r] = @ + 1]
  /\ \E p \in Tree :
       \/ /\ p \notin disk[r] /\ (p = Root \/ Front(p) \in disk[r])
          /\ disk' = [disk EXCEPT ![r] = @ \union {p}]
       \/ /\ p \in disk[r] /\ Children(disk[r], p) = {}
          /\ disk' = [disk EXCEPT ![r] = @ \ {p}]
  /\ UNCHANGED <<op, up, gate, kern, audit, toCli, toKern, open, cli, wk, eff, late>>

-----------------------------------------------------------------------------
(* A peer that is not maknae-loop *)

PeerReports(r) ==
  /\ r \notin Faithful /\ open[r] /\ toKern[r] = None
  /\ up /\ kern[r].pc = "read"
  /\ \E m \in Claimed[r] : toKern' = [toKern EXCEPT ![r] = m]
  /\ toCli' = [toCli EXCEPT ![r] = None]
  /\ UNCHANGED <<op, up, gate, kern, audit, open, subject, late>>

PeerCloses(r) ==
  /\ r \notin Faithful /\ open[r]
  /\ open' = [open EXCEPT ![r] = FALSE]
  /\ toCli' = [toCli EXCEPT ![r] = None]
  /\ UNCHANGED <<op, up, gate, kern, audit, toKern, subject, late>>

-----------------------------------------------------------------------------
KernelStep(r) ==
  \/ Turned(r) \/ Admit(r) \/ Prepared(r) \/ PrepTimesOut(r) \/ Refuse(r)
  \/ CommitIntent(r) \/ SendGrant(r) \/ ReadReport(r) \/ RecordReport(r) \/ SendAck(r)
  \/ WriteIncomplete(r)

WorkerStep(r) ==
  \/ Aim(r) \/ CallRefused(r) \/ RemoveEntry(r) \/ Descend(r) \/ MakeDirectory(r)
  \/ PassDirectory(r) \/ DoExact(r)

ClientStep(r) ==
  \/ GrantArrives(r) \/ Quit(r) \/ Killed(r) \/ StepReturns(r) \/ AckArrives(r)
  \/ PeerReports(r) \/ PeerCloses(r)

Next ==
  \/ \E r \in Requests :
       \/ KernelStep(r) \/ ClientStep(r) \/ WorkerStep(r)
       \/ OrphanEnds(r) \/ Land(r) \/ KernelLate(r) \/ ClientLate(r) \/ OtherProcess(r)
  \/ DaemonDies

Spec == Init /\ [][Next]_vars

\* Only the daemon's own tasks and its clock are fair: neither the client, nor a
\* worker inside a system call, nor the sink needs to come back.
FairSpec ==
  /\ Spec
  /\ \A r \in Requests : WF_vars(KernelStep(r) /\ kern[r].pc # "idle") /\ WF_vars(KernelLate(r))

-----------------------------------------------------------------------------
TypeOK ==
  /\ op \in Asks
  /\ up \in BOOLEAN
  /\ claims \subseteq Uids
  /\ permits \in 0 .. MaxWorkers
  /\ prep \in [Requests -> {"none", "running", "orphan"}]
  /\ kern \in [Requests ->
        [pc : {"idle", "prep", "refuse", "intent", "grant", "read", "record", "ack",
               "incomplete", "over"},
         idx : Nat, seen : SUBSET Seq(STRING), term : BOOLEAN, pend : Reports \union {None},
         permit : BOOLEAN]]
  /\ trail \in [Requests -> SUBSET (Reports \union {Intent, Deny, Incomplete})]
  /\ landing \in [Requests -> SUBSET (Reports \union {Intent, Deny, Incomplete})]
  /\ lost \in [Requests -> BOOLEAN]
  /\ toCli \in [Requests -> {None, Deny, [t |-> "grant"]} \union [t : {"ack"}, at : Nat]]
  /\ toKern \in [Requests -> Reports \union {None}]
  /\ open \in [Requests -> BOOLEAN]
  /\ cli \in [Requests -> [pc : Waiting \union {"peer", "gone", "done"}, idx : Nat,
                            seen : SUBSET Tree, finish : Outcomes \union {"none"}]]
  /\ wk \in [Requests ->
        [pc : {"idle", "aim", "armed", "ret"}, stack : Seq([dir : Tree, todo : SUBSET Tree]),
         at : Nat, target : Tree \union {NoPath}, closing : BOOLEAN,
         effect : Tree \union {NoPath}, finish : Outcomes \union {"none"}]]
  /\ disk \in [Requests -> SUBSET Tree]
  /\ eff \in [Requests -> Seq(Tree)]
  /\ late \in [Requests -> SUBSET {"kern", "cli"}]
  /\ other \in [Requests -> 0 .. MaxOther]

-----------------------------------------------------------------------------
(* Properties *)

OnTrail(r, t) == \E x \in trail[r] : x.t = t

Logged(r) == {i \in DOMAIN eff[r] : Batch(i - 1, <<Entry(eff[r][i])>>) \in trail[r]}

Ledger == INSTANCE EffectLedger WITH
  Attempts <- Faithful,
  intended <- [r \in Faithful |-> Intent \in trail[r]],
  done <- [r \in Faithful |-> Len(eff[r])],
  logged <- [r \in Faithful |-> Cardinality(Logged(r))],
  closed <- [r \in Faithful |-> OnTrail(r, "finish")]

\* An attempt maknae-loop drives keeps the ledger: no effect without the durable
\* intent, none while an earlier one is missing from the trail, none after the
\* end was recorded, and an end recorded only over a whole account, whatever
\* times out, dies, is lost or lands late.
KeepsLedger == Ledger!Spec

BatchesOf(r) == {x \in trail[r] : x.t = "batch"}

Counted(r) == UNION {{x.at + i : i \in DOMAIN x.effects} : x \in BatchesOf(r)}

\* What a client is told is on the trail: a denial, an intent, or as many effects
\* as the acknowledgment counts, the end itself when the attempt ended.
ToldIsRecorded ==
  \A r \in Requests :
    /\ toCli[r].t = "deny" => Deny \in trail[r]
    /\ toCli[r].t = "grant" => Intent \in trail[r]
    /\ toCli[r].t = "ack" => Counted(r) = 1 .. toCli[r].at
    /\ cli[r].pc = "done" => OnTrail(r, "finish")

\* Whoever reports, the effects on the trail are ones the grant allows, each once,
\* numbered without gaps and within the limit, and nothing under a root follows
\* the root's own removal.
RecordedInScope ==
  \A r \in Requests :
    LET B == BatchesOf(r)
        Placed == UNION {{<<x.at + i, x.effects[i].path>> : i \in DOMAIN x.effects} : x \in B}
    IN /\ \A e \in Placed : e[2] \in Allowed(r)
       /\ \A e, f \in Placed : (e[1] = f[1] \/ e[2] = f[2]) => e = f
       /\ Counted(r) = 1 .. Cardinality(Counted(r)) /\ Cardinality(Counted(r)) <= MaxEffects
       /\ op[r] = "tree" => \A e \in Placed : e[2] = Root => e[1] = Cardinality(Counted(r))

\* A granted attempt leaves an end on the trail, the client's or the kernel's own
\* "incomplete", unless an append about it failed or the daemon died.
EndIsRecorded ==
  \A r \in Requests :
    (up /\ kern[r].pc = "over" /\ Intent \in trail[r] /\ ~lost[r])
      => (OnTrail(r, "finish") \/ Incomplete \in trail[r])

\* The gate counts what really runs: a uid is claimed exactly while one worker
\* prepares for it, timed out or not, and no permit is lost or minted.
GateExact ==
  LET Running == {r \in Requests : prep[r] # "none"}
  IN up =>
       /\ claims = {UidOf[r] : r \in Running}
       /\ \A r, s \in Running : UidOf[r] = UidOf[s] => r = s
       /\ permits + Cardinality(Running) + Cardinality({r \in Requests : kern[r].permit})
            = MaxWorkers

\* The kernel's side of an attempt ends whatever the client, the file system and
\* the sink do, and its permit is not kept by a client that stalls.
AttemptEnds ==
  \A r \in Requests :
    kern[r].pc \notin {"idle", "over"} ~> (~up \/ (kern[r].pc = "over" /\ ~kern[r].permit))
=============================================================================
