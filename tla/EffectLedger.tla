---------------------------- MODULE EffectLedger ----------------------------
(***************************************************************************)
(* What a delegated filesystem attempt promises the reader of the audit      *)
(* trail.  The kernel never touches the subject's files: the subject does,   *)
(* one effect at a time, and the trail says in advance that it may and       *)
(* afterwards what it did.  Mutation.tla implements this.                    *)
(***************************************************************************)
EXTENDS Naturals

CONSTANT Attempts

VARIABLES
  intended,   \* whether the trail holds the intent of the attempt
  done,       \* effects performed
  logged,     \* effects the trail holds, in the order they were performed
  closed      \* whether the trail holds the subject's own account of the end

ledger == <<intended, done, logged, closed>>

Init ==
  /\ intended = [a \in Attempts |-> FALSE]
  /\ done = [a \in Attempts |-> 0]
  /\ logged = [a \in Attempts |-> 0]
  /\ closed = [a \in Attempts |-> FALSE]

Intend(a) ==
  /\ intended' = [intended EXCEPT ![a] = TRUE]
  /\ UNCHANGED <<done, logged, closed>>

\* An effect needs the intent, and every effect before it on the trail.
Perform(a) ==
  /\ intended[a]
  /\ done[a] = logged[a]
  /\ ~closed[a]
  /\ done' = [done EXCEPT ![a] = @ + 1]
  /\ UNCHANGED <<intended, logged, closed>>

\* The trail never runs ahead of what was done.
Log(a) ==
  /\ logged[a] < done[a]
  /\ logged' = [logged EXCEPT ![a] = @ + 1]
  /\ UNCHANGED <<intended, done, closed>>

\* An account of the end is an account of the whole.
Close(a) ==
  /\ intended[a]
  /\ logged[a] = done[a]
  /\ closed' = [closed EXCEPT ![a] = TRUE]
  /\ UNCHANGED <<intended, done, logged>>

Next == \E a \in Attempts : Intend(a) \/ Perform(a) \/ Log(a) \/ Close(a)

Spec == Init /\ [][Next]_ledger
=============================================================================
