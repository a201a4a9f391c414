SPECIFICATION FairSpec
CONSTANTS
  MaxAppends = 4
  MaxInFlight = 2
  MaxReclaims = 1
  MaxStarts = 2
  MaxFaults = 2
CHECK_DEADLOCK FALSE
INVARIANTS AckedIsDurable NothingAfterTorn AtMostOnce
PROPERTY SlotsComeBack
