------------------------------- MODULE Egress -------------------------------
(* The egress plane: a prompt leaves the kernel over one connection to the      *)
(* Egress Daemon (the deputy), which opens the key and calls the provider.      *)
(*                                                                              *)
(* The kernel's task (maknae-kernel run.rs, session.prompt) records the intent, *)
(* has a blocking worker send (egress_socket.rs) under a deadline, records the  *)
(* outcome and answers; a worker that is given up keeps running.  The deputy    *)
(* (maknae-egress serve.rs) serves a connection on a thread that holds a slot.  *)
(* Either process may die, a thread may panic, and every wait may run out.      *)
EXTENDS EgressTrail, FiniteSets

kernel == <<task, worker, result, told, intent, outcome, answer>>
wire == <<conn, frame, reply>>
deputy == <<thread, lane, word, left>>
vars == <<task, worker, result, told, intent, outcome, answer, conn, frame, reply, thread,
          lane, word, left, faults>>

Init ==
  /\ task = [p \in Prompts |-> "idle"]
  /\ worker = [p \in Prompts |-> "none"]
  /\ result = [p \in Prompts |-> "none"]
  /\ told = [p \in Prompts |-> "none"]
  /\ intent = [p \in Prompts |-> "none"]
  /\ outcome = [p \in Prompts |-> "none"]
  /\ answer = [p \in Prompts |-> "none"]
  /\ conn = [p \in Prompts |-> "none"]
  /\ frame = [p \in Prompts |-> "none"]
  /\ reply = [p \in Prompts |-> "none"]
  /\ thread = [p \in Prompts |-> "none"]
  /\ lane = [p \in Prompts |-> "none"]
  /\ word = [p \in Prompts |-> "none"]
  /\ left = {}
  /\ faults = 0

Fault == faults < MaxFaults /\ faults' = faults + 1

-----------------------------------------------------------------------------
(* The kernel's task *)

\* The readiness check; a backend that is not ready is recorded, and refused if the record
\* is acknowledged.
Ask(p) ==
  /\ task[p] = "idle"
  /\ \/ /\ task' = [task EXCEPT ![p] = "intending"]
        /\ UNCHANGED <<answer, faults>>
     \/ /\ task' = [task EXCEPT ![p] = "closed"]
        /\ \/ answer' = [answer EXCEPT ![p] = "refused"] /\ UNCHANGED faults
           \/ Fault /\ UNCHANGED answer
  /\ UNCHANGED <<worker, result, told, intent, outcome, wire, deputy>>

\* Faulty commit: a failed append does not withhold the send.
CommitIntentAnyway(p) ==
  /\ task[p] = "intending"
  /\ task' = [task EXCEPT ![p] = "admitting"]
  /\ \/ intent' = [intent EXCEPT ![p] = "durable"] /\ UNCHANGED faults
     \/ intent' = [intent EXCEPT ![p] = "unsure"] /\ Fault
  /\ UNCHANGED <<worker, result, told, outcome, answer, wire, deputy>>

\* commit_intent: no send without the durable record.
CommitIntent(p) ==
  /\ task[p] = "intending"
  /\ \/ /\ intent' = [intent EXCEPT ![p] = "durable"]
        /\ task' = [task EXCEPT ![p] = "admitting"]
        /\ UNCHANGED faults
     \/ /\ Fault
        /\ intent' = [intent EXCEPT ![p] = "unsure"]
        /\ task' = [task EXCEPT ![p] = "closed"]
  /\ UNCHANGED <<worker, result, told, outcome, answer, wire, deputy>>

\* The egress breaker, open or at its cap, refuses before anything is spawned.
Admit(p) ==
  /\ task[p] = "admitting"
  /\ \/ /\ worker' = [worker EXCEPT ![p] = "connecting"]
        /\ task' = [task EXCEPT ![p] = "waiting"]
        /\ UNCHANGED told
     \/ /\ told' = [told EXCEPT ![p] = "at capacity"]
        /\ task' = [task EXCEPT ![p] = "recording"]
        /\ UNCHANGED worker
  /\ UNCHANGED <<result, intent, outcome, answer, wire, deputy, faults>>

\* The worker returned before the deadline.
Collect(p) ==
  /\ task[p] = "waiting" /\ worker[p] = "done"
  /\ told' = [told EXCEPT ![p] = result[p]]
  /\ result' = [result EXCEPT ![p] = "none"]
  /\ task' = [task EXCEPT ![p] = "recording"]
  /\ UNCHANGED <<worker, intent, outcome, answer, wire, deputy, faults>>

\* The deadline passes first: the worker runs on and what it returns is dropped.
GiveUp(p) ==
  /\ task[p] = "waiting"
  /\ told' = [told EXCEPT ![p] = "expired"]
  /\ result' = [result EXCEPT ![p] = "none"]
  /\ task' = [task EXCEPT ![p] = "recording"]
  /\ UNCHANGED <<worker, intent, outcome, answer, wire, deputy, faults>>

\* outcome_for_failure, and what the kernel makes of a reply it holds.
OutcomesFor(t) ==
  CASE t = "expired" -> {"expired"}
    [] t = "after send" -> {"unknown"}
    [] t = "unusable" -> {"landed"}
    [] t = "reply" -> {"sent", "landed"}
    [] OTHER -> {"failed"}

\* failure_is_unavailability: each of these is told as a matter of availability.
Unavailable == {"at capacity", "unreachable"}

\* The outcome record, then the answer: nothing goes back before it is acknowledged.
RecordOutcome(p) ==
  /\ task[p] = "recording"
  /\ \E o \in OutcomesFor(told[p]) :
       /\ outcome' = [outcome EXCEPT ![p] = o]
       /\ \/ /\ answer' = [answer EXCEPT ![p] = IF o = "sent" THEN "reply"
                                                ELSE IF told[p] \in Unavailable THEN "unavailable"
                                                ELSE "refused"]
             /\ UNCHANGED faults
          \/ /\ Fault
             /\ UNCHANGED answer
  /\ task' = [task EXCEPT ![p] = "closed"]
  /\ told' = [told EXCEPT ![p] = "none"]
  /\ UNCHANGED <<worker, result, intent, wire, deputy>>

-----------------------------------------------------------------------------
(* The kernel's worker: send *)

\* The kernel's end of a connection closes.
Leave(c) == CASE c = "queued" -> "orphaned" [] c = "open" -> "left" [] OTHER -> c

\* The worker returns r, to the task if it still waits, and its connection closes.
Return(p, r) ==
  /\ worker' = [worker EXCEPT ![p] = "done"]
  /\ result' = [result EXCEPT ![p] = IF task[p] = "waiting" THEN r ELSE "none"]
  /\ conn' = [conn EXCEPT ![p] = Leave(@)]

\* connect: into the listener's backlog, or refused.
Connect(p) ==
  /\ worker[p] = "connecting"
  /\ \/ /\ worker' = [worker EXCEPT ![p] = "preparing"]
        /\ conn' = [conn EXCEPT ![p] = "queued"]
        /\ UNCHANGED result
     \/ Return(p, "unreachable")
     \/ Return(p, "transport")
  /\ UNCHANGED <<task, told, intent, outcome, answer, frame, reply, deputy, faults>>

\* Before the first write: the listener's uid, the frame's measured length, the timers.
Prepare(p) ==
  /\ worker[p] = "preparing"
  /\ \/ /\ worker' = [worker EXCEPT ![p] = "writing"]
        /\ UNCHANGED <<result, conn>>
     \/ Return(p, "transport")
     \/ Return(p, "expired")
  /\ UNCHANGED <<task, told, intent, outcome, answer, frame, reply, deputy, faults>>

\* write_all_by: the bytes go out in pieces, and the socket may take them all though
\* the deputy never reads them.
Write(p) ==
  /\ worker[p] = "writing" /\ conn[p] \in {"queued", "open"}
  /\ \/ /\ frame[p] = "none"
        /\ frame' = [frame EXCEPT ![p] = "part"]
        /\ UNCHANGED worker
     \/ /\ frame[p] = "part"
        /\ frame' = [frame EXCEPT ![p] = "whole"]
        /\ worker' = [worker EXCEPT ![p] = "reading"]
  /\ UNCHANGED <<task, result, told, intent, outcome, answer, conn, reply, deputy, faults>>

\* after_send: from the first write on a failure says that delivery is unknown.
WriteFails(p) ==
  /\ worker[p] = "writing"
  /\ \/ conn[p] = "closed" /\ Return(p, "after send") /\ UNCHANGED faults
     \/ Fault /\ Return(p, "after send")
     \/ Return(p, "expired") /\ UNCHANGED faults
  /\ UNCHANGED <<task, told, intent, outcome, answer, frame, reply, deputy>>

\* What the worker makes of a connection that ended with reply r on it: a close with bytes
\* unread may cost the reply.
ResultsOf(r) == IF r = "none" THEN {"after send"} ELSE {r, "after send"}

\* read_exact_by: the reply, the end of a connection without one, a frame that cannot be
\* read, or the end of the budget.
Read(p) ==
  /\ worker[p] = "reading"
  /\ \/ conn[p] = "closed" /\ (\E r \in ResultsOf(reply[p]) : Return(p, r)) /\ UNCHANGED faults
     \/ Fault /\ Return(p, "after send")
     \/ Return(p, "expired") /\ UNCHANGED faults
  /\ UNCHANGED <<task, told, intent, outcome, answer, frame, reply, deputy>>

-----------------------------------------------------------------------------
(* The deputy *)

Holding(l) == {p \in Prompts : lane[p] = l}

\* Accept: a slot and a serving thread; without a slot, or without a thread, a refusal
\* slot and a refusing thread; without that, closed unanswered.
Accept(p) ==
  /\ conn[p] \in {"queued", "orphaned"}
  /\ \/ /\ Cardinality(Holding("slot")) < Cap
        /\ thread' = [thread EXCEPT ![p] = "reading"]
        /\ lane' = [lane EXCEPT ![p] = "slot"]
        /\ conn' = [conn EXCEPT ![p] = IF @ = "queued" THEN "open" ELSE "left"]
        /\ UNCHANGED faults
     \/ /\ \/ Cardinality(Holding("slot")) >= Cap /\ UNCHANGED faults
           \/ Cardinality(Holding("slot")) < Cap /\ Fault
        /\ IF Cardinality(Holding("refusal")) < Cap
             THEN /\ thread' = [thread EXCEPT ![p] = "refusing"]
                  /\ lane' = [lane EXCEPT ![p] = "refusal"]
                  /\ conn' = [conn EXCEPT ![p] = IF @ = "queued" THEN "open" ELSE "left"]
             ELSE /\ conn' = [conn EXCEPT ![p] = IF @ = "queued" THEN "closed" ELSE "left"]
                  /\ UNCHANGED <<thread, lane>>
  /\ UNCHANGED <<kernel, frame, reply, word, left>>

\* A thread ends: its slot is free and its end of the connection is closed.
End(p) ==
  /\ thread' = [thread EXCEPT ![p] = "none"]
  /\ lane' = [lane EXCEPT ![p] = "none"]
  /\ conn' = [conn EXCEPT ![p] = IF @ = "open" THEN "closed" ELSE @]

Goto(p, t) == thread' = [thread EXCEPT ![p] = t] /\ UNCHANGED <<conn, lane>>

Answers(p, w) == Goto(p, "replying") /\ word' = [word EXCEPT ![p] = w]

\* read_body_zeroizing: the whole frame, or the end of the connection or of the bound.
ReadFrame(p) ==
  /\ thread[p] \in {"reading", "refusing"}
  /\ \/ /\ frame[p] = "whole" /\ thread[p] = "reading"
        /\ Goto(p, "deciding") /\ UNCHANGED word
     \/ /\ frame[p] = "whole" /\ thread[p] = "refusing"
        /\ Answers(p, "at capacity")
     \/ End(p) /\ UNCHANGED word
  /\ UNCHANGED <<kernel, frame, reply, left, faults>>

\* decide: an admitted frame commits the thread; a refused one is answered.
Decide(p) ==
  /\ thread[p] = "deciding"
  /\ \/ Goto(p, "opening") /\ UNCHANGED word
     \/ Answers(p, "refused")
     \/ End(p) /\ UNCHANGED word
  /\ UNCHANGED <<kernel, frame, reply, left, faults>>

\* The sealed key is opened before the provider is called.
OpenKey(p) ==
  /\ thread[p] = "opening"
  /\ \/ Goto(p, "calling") /\ UNCHANGED word
     \/ Answers(p, "refused")
  /\ UNCHANGED <<kernel, frame, reply, left, faults>>

\* chat_completion: the content leaves, or no connection to the provider comes about.
Call(p) ==
  /\ thread[p] = "calling"
  /\ \/ /\ left' = left \union {p}
        /\ Goto(p, "called")
     \/ /\ End(p)
        /\ UNCHANGED left
  /\ UNCHANGED <<kernel, frame, reply, word, faults>>

\* The provider's answer: a completion, an unusable one, or none.
Provided(p) ==
  /\ thread[p] = "called"
  /\ \/ Answers(p, "reply")
     \/ Answers(p, "unusable")
     \/ End(p) /\ UNCHANGED word
  /\ UNCHANGED <<kernel, frame, reply, left, faults>>

\* write_reply: the whole frame, or too little of it for the kernel to read.
Reply(p) ==
  /\ thread[p] = "replying"
  /\ \/ reply' = [reply EXCEPT ![p] = word[p]] /\ UNCHANGED faults
     \/ Fault /\ UNCHANGED reply
     \/ conn[p] = "left" /\ UNCHANGED <<reply, faults>>
  /\ End(p)
  /\ word' = [word EXCEPT ![p] = "none"]
  /\ UNCHANGED <<kernel, frame, left>>

\* What a panic answers: on either lane the reply that says nothing left.
Unsent(p) == IF lane[p] = "refusal" THEN "at capacity" ELSE "refused"

\* Faulty containment: the peer is answered whatever the thread had begun.
PanicAnswers(p) ==
  /\ thread[p] \notin {"none", "replying"}
  /\ Fault
  /\ reply' = [reply EXCEPT ![p] = Unsent(p)]
  /\ End(p)
  /\ word' = [word EXCEPT ![p] = "none"]
  /\ UNCHANGED <<kernel, frame, left>>

\* spawn_contained: a panic ends its connection alone; the peer is answered only if the
\* thread had committed to nothing, neither to the provider call nor to a reply.
Panic(p) ==
  /\ thread[p] # "none"
  /\ Fault
  /\ \/ /\ thread[p] \in {"reading", "deciding", "refusing"}
        /\ reply' = [reply EXCEPT ![p] = Unsent(p)]
     \/ UNCHANGED reply
  /\ End(p)
  /\ word' = [word EXCEPT ![p] = "none"]
  /\ UNCHANGED <<kernel, frame, left>>

\* The deputy dies: its threads and accepted connections end; the listener is the init
\* system's, so connections it has not accepted wait for the next start.
DeputyDies ==
  /\ Fault
  /\ thread' = [p \in Prompts |-> "none"]
  /\ lane' = [p \in Prompts |-> "none"]
  /\ word' = [p \in Prompts |-> "none"]
  /\ conn' = [p \in Prompts |-> IF conn[p] = "open" THEN "closed" ELSE conn[p]]
  /\ UNCHANGED <<kernel, frame, reply, left>>

\* The kernel dies: what it recorded stays, and a frame it wrote may still be read.
KernelDies ==
  /\ Fault
  /\ task' = [p \in Prompts |-> IF task[p] = "idle" THEN "idle" ELSE "closed"]
  /\ worker' = [p \in Prompts |-> IF worker[p] = "none" THEN "none" ELSE "done"]
  /\ result' = [p \in Prompts |-> "none"]
  /\ told' = [p \in Prompts |-> "none"]
  /\ conn' = [p \in Prompts |-> Leave(conn[p])]
  /\ UNCHANGED <<intent, outcome, answer, frame, reply, deputy>>

-----------------------------------------------------------------------------
Task(p) == Ask(p) \/ CommitIntent(p) \/ Admit(p) \/ Collect(p) \/ GiveUp(p) \/ RecordOutcome(p)

Worker(p) == Connect(p) \/ Prepare(p) \/ Write(p) \/ WriteFails(p) \/ Read(p)

Deputy(p) ==
  Accept(p) \/ ReadFrame(p) \/ Decide(p) \/ OpenKey(p) \/ Call(p) \/ Provided(p) \/ Reply(p)

Next ==
  \/ \E p \in Prompts : Task(p) \/ Worker(p) \/ Deputy(p) \/ Panic(p)
  \/ DeputyDies \/ KernelDies

Spec == Init /\ [][Next]_vars

-----------------------------------------------------------------------------
(* Properties *)

Tasks == {"idle", "intending", "admitting", "waiting", "recording", "closed"}
Workers == {"none", "connecting", "preparing", "writing", "reading", "done"}
Replies == {"none", "refused", "at capacity", "unusable", "reply"}
Results == Replies \union {"unreachable", "transport", "expired", "after send"}
Intents == {"none", "durable", "unsure"}
Outcomes == {"none", "sent", "failed", "expired", "unknown", "landed"}
Told == {"none", "reply", "unavailable", "refused"}
Links == {"none", "queued", "open", "closed", "left", "orphaned"}
Frames == {"none", "part", "whole"}
Threads == {"none", "reading", "refusing", "deciding", "opening", "calling", "called", "replying"}
Lanes == {"none", "slot", "refusal"}

TypeOK ==
  /\ task \in [Prompts -> Tasks] /\ worker \in [Prompts -> Workers]
  /\ result \in [Prompts -> Results] /\ told \in [Prompts -> Results]
  /\ intent \in [Prompts -> Intents] /\ outcome \in [Prompts -> Outcomes]
  /\ answer \in [Prompts -> Told]
  /\ conn \in [Prompts -> Links] /\ frame \in [Prompts -> Frames] /\ reply \in [Prompts -> Replies]
  /\ thread \in [Prompts -> Threads] /\ lane \in [Prompts -> Lanes] /\ word \in [Prompts -> Replies]
  /\ left \subseteq Prompts
  /\ faults \in Nat
=============================================================================
