SPECIFICATION FairSpec
CONSTANTS
  r1 = r1
  r2 = r2
  r3 = r3
  r4 = r4
  u1 = u1
  Requests = {r1, r2, r3, r4}
  UidOf <- MCUidOf
  Faithful = {r1}
  Asks <- MCAsks
  MaxWorkers = 2
  MaxBatch = 2
  MaxEffects = 3
  MaxDepth = 2
  Root <- R
  Chain <- MCChain
  Tree <- MCTree
  Disks <- MCDisks
  Claimed <- MCClaimed
  MaxOther = 1
INVARIANTS ToldIsRecorded RecordedInScope EndIsRecorded GateExact
PROPERTIES KeepsLedger AttemptEnds
CHECK_DEADLOCK FALSE
