------------------------------ MODULE Serving -------------------------------
(* The daemon's accept loop and the handler of one connection (maknae-kernel   *)
(* run.rs accept_loop, handle; session.rs, live.rs).                           *)
(*                                                                             *)
(* Accepted connections run on tasks of their own under a permit; a refused    *)
(* one is recorded through a bounded queue that one background task drains, or *)
(* counted when the queue is full.  A request is decided on a worker while a   *)
(* live install may change what it was admitted on.  The loop ends by a        *)
(* signal, waits for its handlers and its queue, each for a bounded time, and  *)
(* returns.  A prompt and a filesystem verb leave for Egress and Mutation.     *)
EXTENDS Naturals, FiniteSets, Sequences, SequencesExt

CONSTANTS
  Conns,           \* connections that may arrive
  MaxConnections,  \* permits
  QueueDepth,      \* refusal records the queue holds
  MaxInstalls,     \* bound: live installs
  MaxFaults        \* bound: failed appends and failed writes

ASSUME ServingAssumption ==
  /\ MaxConnections \in Nat \ {0} /\ QueueDepth \in Nat \ {0}
  /\ MaxInstalls \in Nat /\ MaxFaults \in Nat

VARIABLES
  loop,      \* accepting, stopping, reaping, draining, auditing, returned
  uncounted, \* the refusal whose record did not fit and is not counted yet
  at,        \* per connection: what its task does
  rec,       \* the record it is appending
  next,      \* what it does once that record is acknowledged
  newest,    \* the newest acknowledged record about its request
  wire,      \* the frame its handler wrote whole
  cut,       \* the frame whose write failed or ran out of time: the peer has part of it, or none
  admitted,  \* the generation of the view and providers it was admitted on
  decided,   \* the generation its decision was made on
  gen,       \* the generation of the installed values
  queue,     \* refusal records waiting
  dropped,   \* refusals counted, not on the trail yet
  drainer,   \* the background task: [at, hand], hand the refusals its append is about
  settled,   \* connections whose last record is on the trail, singly or in a summary
  lost,      \* those whose last record was given up: a failed append, an abort
  unsure,    \* those whose handling was cut short by a failed append or an abort
  faults

answers == <<wire, cut>>
tasks == <<at, rec, next, newest, wire, cut, admitted, decided>>
offload == <<uncounted, queue, dropped, drainer>>
accounts == <<settled, lost, unsure>>
vars == <<loop, uncounted, at, rec, next, newest, wire, cut, admitted, decided, gen, queue,
          dropped, drainer, settled, lost, unsure, faults>>

Receiving == [at |-> "receiving", hand |-> {}]

Init ==
  /\ loop = "accepting" /\ uncounted = {}
  /\ at = [c \in Conns |-> "new"]
  /\ rec = [c \in Conns |-> "none"]
  /\ next = [c \in Conns |-> "none"]
  /\ newest = [c \in Conns |-> "none"]
  /\ wire = [c \in Conns |-> "none"]
  /\ cut = [c \in Conns |-> "none"]
  /\ admitted = [c \in Conns |-> 0]
  /\ decided = [c \in Conns |-> 0]
  /\ gen = 0
  /\ queue = <<>> /\ dropped = {} /\ drainer = Receiving
  /\ settled = {} /\ lost = {} /\ unsure = {}
  /\ faults = 0

Fault == faults < MaxFaults /\ faults' = faults + 1

-----------------------------------------------------------------------------
(* The accept loop *)

Live == {c \in Conns : at[c] \notin {"new", "refused", "closed"}}

AtCapacity == Cardinality(Live) >= MaxConnections

\* A permit and a task of its own, before the handshake.
AcceptConn(c) ==
  /\ loop = "accepting" /\ uncounted = {} /\ at[c] = "new"
  /\ ~AtCapacity
  /\ at' = [at EXCEPT ![c] = "handshake"]
  /\ UNCHANGED <<loop, rec, next, newest, answers, admitted, decided, gen, offload, accounts,
                 faults>>

\* offload_refusal: at capacity, or (at any time) while a drain has begun or without peer
\* credentials; a record that does not fit the queue is counted, a step of its own beside
\* the drain.
RefuseConn(c) ==
  /\ loop = "accepting" /\ uncounted = {} /\ at[c] = "new"
  /\ at' = [at EXCEPT ![c] = "refused"]
  /\ \/ /\ Len(queue) < QueueDepth
        /\ queue' = Append(queue, c)
        /\ UNCHANGED uncounted
     \/ /\ Len(queue) >= QueueDepth
        /\ uncounted' = {c}
        /\ UNCHANGED queue
  /\ UNCHANGED <<loop, rec, next, newest, answers, admitted, decided, gen, dropped, drainer,
                 accounts, faults>>

CountDropped ==
  /\ uncounted # {}
  /\ dropped' = dropped \union uncounted
  /\ uncounted' = {}
  /\ UNCHANGED <<loop, tasks, gen, queue, drainer, accounts, faults>>

\* The signal comes, a drain is over, or the credential supervisor gives up.
Stop ==
  /\ loop = "accepting" /\ uncounted = {}
  /\ loop' = "stopping"
  /\ UNCHANGED <<tasks, gen, offload, accounts, faults>>

\* The stop record, appended or given up; then the supervisor, reaped or given up.
StopStep ==
  /\ loop \in {"stopping", "reaping"}
  /\ loop' = IF loop = "stopping" THEN "reaping" ELSE "draining"
  /\ UNCHANGED <<tasks, gen, offload, accounts, faults>>

\* drain_handlers_bounded, then the queue's sender is dropped: the handlers end, or the
\* bound passes and those left are aborted.
DrainHandlers ==
  /\ loop = "draining"
  /\ loop' = "auditing"
  /\ at' = [c \in Conns |-> IF c \in Live THEN "closed" ELSE at[c]]
  /\ lost' = lost \union Live
  /\ unsure' = unsure \union Live
  /\ UNCHANGED <<rec, next, newest, answers, admitted, decided, gen, offload, settled, faults>>

\* await_drain_with_timeout: the drain ends, or the bound passes and it is aborted.
Return ==
  /\ loop = "auditing"
  /\ loop' = "returned"
  /\ drainer' = [at |-> "ended", hand |-> {}]
  /\ lost' = IF drainer.at = "ended" THEN lost
             ELSE lost \union drainer.hand \union ToSet(queue) \union dropped
  /\ UNCHANGED <<tasks, gen, uncounted, queue, dropped, settled, unsure, faults>>

-----------------------------------------------------------------------------
(* The background drain: drain_refusal_audit *)

Receive ==
  /\ drainer.at = "receiving" /\ queue # <<>>
  /\ drainer' = [at |-> "appending", hand |-> {Head(queue)}]
  /\ queue' = Tail(queue)
  /\ UNCHANGED <<loop, tasks, gen, uncounted, dropped, accounts, faults>>

\* An append under its bound: acknowledged, or given up and reported only.
DrainAppends ==
  /\ drainer.at \in {"appending", "summarising", "finishing"}
  /\ \/ settled' = settled \union drainer.hand /\ UNCHANGED <<lost, faults>>
     \/ Fault /\ lost' = lost \union drainer.hand /\ UNCHANGED settled
  /\ drainer' = [at |-> CASE drainer.at = "appending" -> "flushing"
                          [] drainer.at = "summarising" -> "receiving"
                          [] OTHER -> "ended",
                 hand |-> {}]
  /\ UNCHANGED <<loop, tasks, gen, uncounted, queue, dropped, unsure>>

\* flush_dropped: the count is swapped out into one summary.
Flush ==
  /\ drainer.at = "flushing"
  /\ drainer' = IF dropped = {} THEN Receiving ELSE [at |-> "summarising", hand |-> dropped]
  /\ dropped' = {}
  /\ UNCHANGED <<loop, tasks, gen, uncounted, queue, accounts, faults>>

\* Faulty end: what was counted after the last record is not summarised.
DrainEndsUnflushed ==
  /\ drainer.at = "receiving" /\ queue = <<>> /\ loop = "auditing"
  /\ drainer' = [at |-> "ended", hand |-> {}]
  /\ UNCHANGED <<loop, tasks, gen, uncounted, queue, dropped, accounts, faults>>

\* The channel is closed and empty: one last flush.
DrainEnds ==
  /\ drainer.at = "receiving" /\ queue = <<>> /\ loop = "auditing"
  /\ drainer' = [at |-> IF dropped = {} THEN "ended" ELSE "finishing", hand |-> dropped]
  /\ dropped' = {}
  /\ UNCHANGED <<loop, tasks, gen, uncounted, queue, accounts, faults>>

-----------------------------------------------------------------------------
(* One connection's task *)

Goto(c, a) == at' = [at EXCEPT ![c] = a] /\ UNCHANGED <<rec, next>>

\* Append record r, and go to n once it is acknowledged.
Record(c, r, n) ==
  /\ at' = [at EXCEPT ![c] = "recording"]
  /\ rec' = [rec EXCEPT ![c] = r]
  /\ next' = [next EXCEPT ![c] = n]

\* end_session and the refusals like it: the cause to the trail, then the frame.
Refuse(c) == Record(c, "deny", "error")

\* Records that close a connection's trail: an admission refusal, a session's termination.
Closing == {"refused", "terminate"}

\* The record is acknowledged; only the last one ends the task.
Acknowledged(c) ==
  /\ at[c] = "recording"
  /\ at' = [at EXCEPT ![c] = next[c]]
  /\ newest' = [newest EXCEPT ![c] = IF rec[c] \in Closing \union {"admit"} THEN @ ELSE rec[c]]
  /\ settled' = IF rec[c] \in Closing THEN settled \union {c} ELSE settled
  /\ rec' = [rec EXCEPT ![c] = "none"]
  /\ next' = [next EXCEPT ![c] = "none"]
  /\ UNCHANGED <<loop, answers, admitted, decided, gen, offload, lost, unsure, faults>>

\* Faulty gate: the frame that goes with a corrective record is released without it.
NotAcknowledgedAnyway(c) ==
  /\ at[c] = "recording" /\ Fault
  /\ IF rec[c] \in Closing
       THEN at' = [at EXCEPT ![c] = "closed"] /\ lost' = lost \union {c} /\ UNCHANGED unsure
       ELSE /\ at' = [at EXCEPT ![c] = IF rec[c] = "withheld" THEN "error" ELSE "closing"]
            /\ unsure' = unsure \union {c}
            /\ UNCHANGED lost
  /\ rec' = [rec EXCEPT ![c] = "none"]
  /\ next' = [next EXCEPT ![c] = "none"]
  /\ UNCHANGED <<loop, newest, answers, admitted, decided, gen, offload, settled>>

\* may_respond: without the acknowledgement nothing more goes out.
NotAcknowledged(c) ==
  /\ at[c] = "recording" /\ Fault
  /\ IF rec[c] \in Closing
       THEN at' = [at EXCEPT ![c] = "closed"] /\ lost' = lost \union {c} /\ UNCHANGED unsure
       ELSE at' = [at EXCEPT ![c] = "closing"] /\ unsure' = unsure \union {c} /\ UNCHANGED lost
  /\ rec' = [rec EXCEPT ![c] = "none"]
  /\ next' = [next EXCEPT ![c] = "none"]
  /\ UNCHANGED <<loop, newest, answers, admitted, decided, gen, offload, settled>>

\* finish_handshake, under the permit and its bound; a rejection is recorded.
Handshake(c) ==
  /\ at[c] = "handshake"
  /\ Goto(c, "facts") \/ Record(c, "refused", "closed")
  /\ UNCHANGED <<loop, newest, answers, admitted, decided, gen, offload, accounts, faults>>

\* gather and revalidate: a peer that is not admitted has no session; an admitted one gets
\* its admission record before its request is read.
AdmitPeer(c) ==
  /\ at[c] = "facts"
  /\ Record(c, "admit", "reading") \/ Record(c, "refused", "closed")
  /\ UNCHANGED <<loop, newest, answers, admitted, decided, gen, offload, accounts, faults>>

\* One frame within its bound; a timeout, a failed read and a frame that does not decode
\* are recorded and not answered, a foreign sender is answered too.
ReadRequest(c) ==
  /\ at[c] = "reading"
  /\ Goto(c, "checking") \/ Record(c, "deny", "closing") \/ Refuse(c)
  /\ UNCHANGED <<loop, newest, answers, admitted, decided, gen, offload, accounts, faults>>

\* The session's lifetime, this request's own facts, its operands; a filesystem verb goes
\* to its exchange and the connection closes after it.
CheckRequest(c) ==
  /\ at[c] = "checking"
  /\ Goto(c, "admission") \/ Goto(c, "closing") \/ Refuse(c)
  /\ UNCHANGED <<loop, newest, answers, admitted, decided, gen, offload, accounts, faults>>

\* LiveConfig::admission: the view, the providers and their generation, as one.
TakeAdmission(c) ==
  /\ at[c] = "admission"
  /\ admitted' = [admitted EXCEPT ![c] = gen]
  /\ Goto(c, "deciding") \/ Refuse(c)
  /\ UNCHANGED <<loop, newest, answers, decided, gen, offload, accounts, faults>>

\* The decision on the blocking pool; the breaker, a timeout and a lost worker deny.
Decide(c) ==
  /\ at[c] = "deciding"
  /\ decided' = [decided EXCEPT ![c] = gen]
  /\ Goto(c, "decided") \/ Refuse(c)
  /\ UNCHANGED <<loop, newest, answers, admitted, gen, offload, accounts, faults>>

\* Faulty check: what was admitted is not compared with what was decided.
CheckGenerationSkipped(c) ==
  /\ at[c] = "decided"
  /\ Goto(c, "dispatching")
  /\ UNCHANGED <<loop, newest, answers, admitted, decided, gen, offload, accounts, faults>>

\* The same worker reads the generation after its decision: another one than the request
\* was admitted on denies.
CheckGeneration(c) ==
  /\ at[c] = "decided"
  /\ IF gen = admitted[c] THEN Goto(c, "dispatching") ELSE Refuse(c)
  /\ UNCHANGED <<loop, newest, answers, admitted, decided, gen, offload, accounts, faults>>

\* Obligations, then the verb: one without behaviour is a permit that says so and an error
\* frame; a prompt goes to its exchange; the others are recorded and performed.
Dispatch(c) ==
  /\ at[c] = "dispatching"
  /\ \/ Refuse(c)
     \/ Record(c, "withheld", "error")
     \/ Goto(c, "closing")
     \/ Record(c, "permit", "performing")
  /\ UNCHANGED <<loop, newest, answers, admitted, decided, gen, offload, accounts, faults>>

\* The admin operation: its payload; a view that says it was refused, behind the record
\* that corrects the permit; or no payload and the record that says so.  It may also never
\* return.
Perform(c) ==
  /\ at[c] = "performing"
  /\ \/ Goto(c, "delivering")
     \/ Record(c, "corrected", "delivering")
     \/ Record(c, "withheld", "error")
  /\ UNCHANGED <<loop, newest, answers, admitted, decided, gen, offload, accounts, faults>>

\* write_frame within its bound.  The result is dropped: a write that failed or timed out
\* goes on like one that did not.
Write(c, frame) ==
  \/ wire' = [wire EXCEPT ![c] = frame] /\ UNCHANGED <<cut, faults>>
  \/ Fault /\ cut' = [cut EXCEPT ![c] = frame] /\ UNCHANGED wire

\* write_frame_bounded: the payload, or a corrective record when it is over the cap or does
\* not encode.
Deliver(c) ==
  /\ at[c] = "delivering"
  /\ \/ /\ Write(c, IF newest[c] = "corrected" THEN "refusal" ELSE "payload")
        /\ Goto(c, "closing")
     \/ Record(c, "withheld", "error") /\ UNCHANGED <<answers, faults>>
  /\ UNCHANGED <<loop, newest, admitted, decided, gen, offload, accounts>>

\* write_error_bounded, whose write is dropped in the same way.
WriteError(c) ==
  /\ at[c] = "error"
  /\ Write(c, "error")
  /\ Goto(c, "closing")
  /\ UNCHANGED <<loop, newest, admitted, decided, gen, offload, accounts>>

\* The stream is closed and the request forgotten; emit_termination closes the session's
\* trail.
Terminate(c) ==
  /\ at[c] = "closing"
  /\ Record(c, "terminate", "closed")
  /\ admitted' = [admitted EXCEPT ![c] = 0]
  /\ decided' = [decided EXCEPT ![c] = 0]
  /\ UNCHANGED <<loop, newest, answers, gen, offload, accounts, faults>>

\* LiveConfig::install, in the live turn of another task.
Install ==
  /\ gen < MaxInstalls
  /\ gen' = gen + 1
  /\ UNCHANGED <<loop, tasks, offload, accounts, faults>>

-----------------------------------------------------------------------------
Handler(c) ==
  \/ Acknowledged(c) \/ NotAcknowledged(c) \/ Handshake(c) \/ AdmitPeer(c) \/ ReadRequest(c)
  \/ CheckRequest(c) \/ TakeAdmission(c) \/ Decide(c) \/ CheckGeneration(c) \/ Dispatch(c)
  \/ Perform(c) \/ Deliver(c) \/ WriteError(c) \/ Terminate(c)

Next ==
  \/ \E c \in Conns : AcceptConn(c) \/ RefuseConn(c) \/ Handler(c)
  \/ CountDropped \/ Stop \/ StopStep \/ DrainHandlers \/ Return
  \/ Receive \/ DrainAppends \/ Flush \/ DrainEnds \/ Install

Spec == Init /\ [][Next]_vars

-----------------------------------------------------------------------------
(* Properties *)

Places == {"new", "refused", "handshake", "facts", "recording", "reading", "checking", "admission",
           "deciding", "decided", "dispatching", "performing", "delivering", "error", "closing",
           "closed"}

Frames == {"none", "payload", "refusal", "error"}

TypeOK ==
  /\ loop \in {"accepting", "stopping", "reaping", "draining", "auditing", "returned"}
  /\ uncounted \subseteq Conns
  /\ at \in [Conns -> Places]
  /\ rec \in [Conns -> {"none", "admit", "refused", "deny", "permit", "corrected", "withheld",
                        "terminate"}]
  /\ next \in [Conns -> Places \union {"none"}]
  /\ newest \in [Conns -> {"none", "deny", "permit", "corrected", "withheld"}]
  /\ wire \in [Conns -> Frames] /\ cut \in [Conns -> Frames]
  /\ admitted \in [Conns -> Nat] /\ decided \in [Conns -> Nat] /\ gen \in Nat
  /\ queue \in Seq(Conns) /\ dropped \subseteq Conns
  /\ drainer.hand \subseteq Conns
  /\ settled \subseteq Conns /\ lost \subseteq Conns /\ unsure \subseteq Conns
  /\ faults \in Nat

\* The newest acknowledged record behind which a frame may go out.
Backing(frame) ==
  CASE frame = "payload" -> {"permit"}
    [] frame = "refusal" -> {"corrected"}
    [] frame = "error" -> {"deny", "withheld"}
    [] OTHER -> {"none", "deny", "permit", "corrected", "withheld"}

\* What a peer was sent, whole or cut, and the newest acknowledged record about its request
\* agree: a payload only behind a permit that nothing corrected, a view of a refusal only
\* behind the record of that refusal, an error only when the trail says that nothing was
\* served.  A permit, corrected or not, that stands when the connection closes had its
\* answer written, unless an append failed or the handler was aborted (may_respond and the
\* corrective records of handle).  The answer need not have arrived: the permit stays as it
\* is behind a write that failed or timed out (write_frame_bounded).
AnswerMatchesTrail ==
  \A c \in Conns :
    /\ newest[c] \in Backing(wire[c]) \intersect Backing(cut[c])
    /\ at[c] = "closed" /\ newest[c] \in {"permit", "corrected"} =>
         wire[c] # "none" \/ cut[c] # "none" \/ c \in unsure

\* A payload is served on the baseline its decision was made on: the view it shows was
\* admitted at the generation the decision saw, whatever was installed in between.
DecidedOnAdmitted ==
  \A c \in Conns : "payload" \in {wire[c], cut[c]} => decided[c] = admitted[c]

\* When the loop has returned every connection it accepted is closed on the trail, a refused
\* one by its own record or in a summary, unless that last append failed or was aborted: the
\* full queue, the counter beside it and the order of the shutdown lose none.
Accounted == loop = "returned" => \A c \in Conns : at[c] # "new" => c \in settled \union lost
=============================================================================
