SPECIFICATION Spec
CONSTANTS
  Prompts = {p1, p2}
  Cap = 1
  MaxFaults = 4
SYMMETRY Symmetry
CHECK_DEADLOCK FALSE
INVARIANTS OutcomeTrue IntentAhead
