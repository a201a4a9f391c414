SPECIFICATION Spec
CONSTANTS
  Http = 3
  Leases = {30}
  Ttls = {15}
  MaxTime = 28
  Steps = {20}
  MaxSteps = 1
CHECK_DEADLOCK FALSE
INVARIANT LeafInTime
