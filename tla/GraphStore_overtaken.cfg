SPECIFICATION Spec
CONSTANTS
  None = None
  Baselines = {b1}
  SyncBases = {s1}
  Vocabs = {v1}
  MaxRevision = 3
  MaxStarts = 2
  MaxEvents = 2
CHECK_DEADLOCK FALSE
INVARIANT RollbackAlwaysRefused
