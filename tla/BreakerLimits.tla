--------------------------- MODULE BreakerLimits ---------------------------
(***************************************************************************)
(* The limits and the state of the kernel's breaker for blocking work      *)
(* (blocking_guard.rs), and the bound it puts on what a wedge costs.       *)
(***************************************************************************)
EXTENDS Naturals, FiniteSets

CONSTANTS
  Callers,       \* requests that may be at the guarded surface at once
  TripAfter,     \* BLOCKING_BREAKER_TRIP_AFTER
  MaxInFlight,   \* BLOCKING_BREAKER_MAX_IN_FLIGHT
  MaxExpiries,   \* bound: operations that run past their limit
  MaxCools       \* bound: cooldowns that pass; a wedge is followed for that long

ASSUME GuardAssumption ==
  /\ IsFiniteSet(Callers)
  /\ TripAfter \in Nat /\ MaxInFlight \in Nat
  /\ MaxInFlight > TripAfter    \* asserted at compile time
  /\ MaxExpiries \in Nat /\ MaxCools \in Nat

VARIABLES
  backend,    \* what the workers wait for: it answers, or never does
  inFlight,   \* BlockingBreaker.in_flight
  timeouts,   \* consecutive_timeouts
  opened,     \* opened_at: closed, or cooling / cooled by reset_after
  caller,     \* where each request is
  orphans,    \* workers whose caller gave up and that still run
  spawned,    \* ghost: workers spawned so far, counted while the backend is wedged
  expiries,   \* ghost: expiries so far
  cools       \* ghost: cooldowns passed so far

\* Under a backend that never answers, the threads lost are bounded: the cap, the
\* slots given back by the timeouts before the trip, and one probe per cooldown.
WedgeBounded == spawned <= MaxInFlight + TripAfter - 1 + cools
=============================================================================
