SPECIFICATION FairSpec
CONSTANTS
  Handlers = {h1, h2}
  Reload = Reload
  Bases = {b1, b2}
  StartBase = b1
  Nobody = Nobody
  MaxRevision = 3
  MaxOps = 2
  MaxReloads = 1
  MaxFaults = 1
CHECK_DEADLOCK FALSE
INVARIANTS ServedIsStored DecidedOnStored
PROPERTIES DrainEnds StopIsFinal AuthorityCurrent
