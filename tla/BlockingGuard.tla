---------------------------- MODULE BlockingGuard ----------------------------
(***************************************************************************)
(* The kernel's breaker for blocking work (maknae-kernel blocking_guard.rs) *)
(* and the callers of one guarded surface (session.rs gather, run.rs        *)
(* baseline_blocking, probe_blocking and their siblings): admit, spawn a    *)
(* worker nobody can cancel, wait for it within a bound, record the outcome. *)
(* A worker whose caller gave up is an orphan: it keeps its thread.         *)
(***************************************************************************)
EXTENDS BreakerLimits

vars == <<backend, inFlight, timeouts, opened, caller, orphans, spawned, expiries, cools>>

\* running: the worker runs and its caller waits; returned, expired: the wait is
\* over and the outcome is not recorded yet (the breaker lock is awaited).
Waiting == {"running", "returned", "expired"}

Wedged == backend = "wedged"

Guarded == {c \in Callers : caller[c] \in Waiting}

Init ==
  /\ backend \in {"answers", "wedged"}
  /\ inFlight = 0
  /\ timeouts = 0
  /\ opened = "closed"
  /\ caller = [c \in Callers |-> "idle"]
  /\ orphans = 0
  /\ spawned = 0
  /\ expiries = 0
  /\ cools = 0

-----------------------------------------------------------------------------
(* begin_attempt_at *)

\* is_open_at: within reset_after of the trip.
Cooling == opened = "cooling"

\* Faulty half-open state: the cooldown alone decides, so every caller is a probe.
AdmitsEveryProbe ==
  /\ TripAfter > 0
  /\ ~Cooling
  /\ opened = "cooled" \/ inFlight < MaxInFlight

Admits ==
  /\ TripAfter > 0
  /\ ~Cooling
  /\ IF opened = "cooled" THEN inFlight = 0 ELSE inFlight < MaxInFlight

\* A refused request is answered at once and stays idle.
Begin(c) ==
  /\ caller[c] = "idle"
  /\ Admits
  /\ inFlight' = inFlight + 1
  /\ caller' = [caller EXCEPT ![c] = "running"]
  /\ spawned' = IF Wedged THEN spawned + 1 ELSE spawned
  /\ UNCHANGED <<backend, timeouts, opened, orphans, expiries, cools>>

\* The worker finishes, or panics, before the bound.
Return(c) ==
  /\ ~Wedged
  /\ caller[c] = "running"
  /\ caller' = [caller EXCEPT ![c] = "returned"]
  /\ UNCHANGED <<backend, inFlight, timeouts, opened, orphans, spawned, expiries, cools>>

\* The bound passes first: the worker is left behind.
Expire(c) ==
  /\ caller[c] = "running"
  /\ Wedged \/ expiries < MaxExpiries
  /\ caller' = [caller EXCEPT ![c] = "expired"]
  /\ orphans' = orphans + 1
  /\ expiries' = IF Wedged THEN expiries ELSE expiries + 1
  /\ UNCHANGED <<backend, inFlight, timeouts, opened, spawned, cools>>

Released == IF inFlight > 0 THEN inFlight - 1 ELSE 0

\* Faulty record_success: the counter is reset and the breaker left half open.
RecordSuccessHalfOpen(c) ==
  /\ caller[c] = "returned"
  /\ caller' = [caller EXCEPT ![c] = "idle"]
  /\ inFlight' = Released
  /\ timeouts' = 0
  /\ UNCHANGED <<backend, opened, orphans, spawned, expiries, cools>>

RecordSuccess(c) ==
  /\ caller[c] = "returned"
  /\ caller' = [caller EXCEPT ![c] = "idle"]
  /\ inFlight' = Released
  /\ timeouts' = 0
  /\ opened' = "closed"
  /\ UNCHANGED <<backend, orphans, spawned, expiries, cools>>

RecordTimeout(c) ==
  /\ caller[c] = "expired"
  /\ caller' = [caller EXCEPT ![c] = "idle"]
  /\ inFlight' = Released
  /\ IF timeouts + 1 >= TripAfter
       THEN /\ timeouts' = TripAfter
            /\ opened' = "cooling"
       ELSE /\ timeouts' = timeouts + 1
            /\ UNCHANGED opened
  /\ UNCHANGED <<backend, orphans, spawned, expiries, cools>>

OrphanEnds ==
  /\ ~Wedged
  /\ orphans > 0
  /\ orphans' = orphans - 1
  /\ UNCHANGED <<backend, inFlight, timeouts, opened, caller, spawned, expiries, cools>>

\* reset_after passes.  A cooldown is followed at most MaxCools times under a wedge.
Cool ==
  /\ Cooling
  /\ Wedged => cools < MaxCools
  /\ opened' = "cooled"
  /\ cools' = IF Wedged THEN cools + 1 ELSE cools
  /\ UNCHANGED <<backend, inFlight, timeouts, caller, orphans, spawned, expiries>>

Next ==
  \/ \E c \in Callers : \/ Begin(c) \/ Return(c) \/ Expire(c)
                        \/ RecordSuccess(c) \/ RecordTimeout(c)
  \/ OrphanEnds
  \/ Cool

Spec == Init /\ [][Next]_vars

\* The bound and the lock are always reached; time passes; a worker that has not
\* expired returns; and some client keeps asking.
Fairness ==
  /\ WF_vars(Cool)
  /\ \A c \in Callers : /\ WF_vars(Begin(c))
                        /\ WF_vars(Return(c))
                        /\ WF_vars(RecordSuccess(c))
                        /\ WF_vars(RecordTimeout(c))

FairSpec == Spec /\ Fairness

-----------------------------------------------------------------------------
(* Properties *)

\* Every variable holds a value of its kind, and the threshold saturates.
TypeOK ==
  /\ backend \in {"answers", "wedged"}
  /\ inFlight \in Nat
  /\ timeouts \in 0 .. TripAfter
  /\ opened \in {"closed", "cooling", "cooled"}
  /\ caller \in [Callers -> Waiting \union {"idle"}]
  /\ orphans \in Nat /\ spawned \in Nat /\ expiries \in Nat /\ cools \in Nat

\* in_flight counts exactly the operations whose outcome is not recorded, through
\* every mix of late records, trips and probes: no slot leaks, which would end in
\* refusing every request, and none is given back twice, which would lift the cap.
SlotsExact == inFlight = Cardinality(Guarded)

\* A breaker that opened closes again once the backend answers: the probe is
\* admitted after the cooldown although other operations were in flight when it
\* opened (begin_attempt_at waits for in_flight = 0).
Recovers == (opened # "closed" /\ ~Wedged) ~> (opened = "closed")
=============================================================================
