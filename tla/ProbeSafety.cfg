CONSTANTS
  Clients = {c1}
  Workers = {w1, w2}
  MaxSessions = 2
  Pairs = {p1}
  WindowCount = 2
  Polls = 2
  MaxCopies = 2
  Faults = {"crash", "redeliver", "refuse", "lateRefuse", "softLimit", "archive"}
SPECIFICATION Spec
SYMMETRY Slots
INVARIANTS TypeOK OneLoopPerSession OneActivePerPair
PROPERTIES KeepsContract
CHECK_DEADLOCK FALSE
