CONSTANTS
  Clients = {c1}
  Workers = {w1, w2}
  MaxOps = 3
  Exclusive = {}
  Faults = {}
SPECIFICATION Spec
SYMMETRY Slots
PROPERTIES DeletedIsFinal
CHECK_DEADLOCK FALSE
