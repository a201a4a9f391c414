SPECIFICATION Spec
CONSTANTS
  None = None
  Baselines = {b1, b2}
  SyncBases = {s1}
  Vocabs = {v1, v2}
  MaxRevision = 3
  MaxStarts = 2
  MaxEvents = 3
SYMMETRY Symmetry
CHECK_DEADLOCK FALSE
INVARIANTS WriteAhead NoFalseRefusal MirrorTrue NoRevisionReuse RollbackDetected
PROPERTIES BaselineHistory ContainmentKept ReseedPreserves
