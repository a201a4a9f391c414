---------------------------- MODULE EgressTrail ----------------------------
(***************************************************************************)
(* The state of the egress plane, and what the trail promises of the       *)
(* content that leaves through it.                                         *)
(***************************************************************************)
EXTENDS Naturals

CONSTANTS
  Prompts,    \* the prompts sent, each over a connection of its own
  Cap,        \* the deputy's slots, and as many refusal slots
  MaxFaults   \* bound: failed appends and I/O, panics, process deaths

ASSUME EgressAssumption == Cap \in Nat \ {0} /\ MaxFaults \in Nat

VARIABLES
  task,     \* the kernel's task: what it does for the prompt
  worker,   \* the blocking worker that runs send
  result,   \* what send returned
  told,     \* what the task goes on with: a result, or "expired"
  intent,   \* the write-ahead record of the prompt: none, durable, unsure
  outcome,  \* the outcome the task wrote to the trail, acknowledged or not
  answer,   \* what the caller was answered
  conn,     \* the connection: none, queued (not accepted), open, closed by the deputy, left by the
            \* kernel, or orphaned (left before it was accepted)
  frame,    \* how much of the request is written: none, part, whole
  reply,    \* the reply frame on the connection, or "none"
  thread,   \* the deputy's thread for the connection
  lane,     \* the kind of slot the thread holds
  word,     \* the reply a thread is about to write
  left,     \* the prompts whose content went out to the provider
  faults

-----------------------------------------------------------------------------
(* What is on record is true *)

\* The outcome on the trail is true of the content, now and later: a prompt recorded as
\* failed, or told to its caller as unavailable, never leaves for the provider, also not
\* through a worker that was given up or a frame the deputy reads late; one recorded as
\* sent or landed did leave.
OutcomeTrue ==
  \A p \in Prompts :
    /\ outcome[p] = "failed" \/ answer[p] = "unavailable" => p \notin left
    /\ outcome[p] \in {"sent", "landed"} => p \in left

\* Content that left the host has a durable intent record, through every death of the
\* kernel and every orphaned worker (commit_intent).
IntentAhead == \A p \in Prompts : p \in left => intent[p] = "durable"
=============================================================================
