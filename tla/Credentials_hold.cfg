SPECIFICATION Spec
CONSTANTS
  Http = 2
  Leases = {0, 1, 26}
  Ttls = {9, 24}
  MaxTime = 20
  Steps = {3}
  MaxSteps = 1
CHECK_DEADLOCK FALSE
INVARIANTS LeafInTime TokenInTime RenewalNotStarved RetirementIsFinal
