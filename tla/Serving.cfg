SPECIFICATION Spec
CONSTANTS
  Conns = {c1, c2, c3}
  MaxConnections = 2
  QueueDepth = 1
  MaxInstalls = 2
  MaxFaults = 2
SYMMETRY Symmetry
CHECK_DEADLOCK FALSE
INVARIANTS AnswerMatchesTrail DecidedOnAdmitted Accounted
