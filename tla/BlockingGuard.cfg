SPECIFICATION FairSpec
CONSTANTS
  Callers = {c1, c2, c3, c4}
  TripAfter = 2
  MaxInFlight = 3
  MaxExpiries = 5
  MaxCools = 3
CHECK_DEADLOCK FALSE
INVARIANTS WedgeBounded
PROPERTY Recovers
