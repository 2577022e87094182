CONSTANTS
  Clients = {c1}
  Workers = {w1, w2}
  MaxOps = 3
  Exclusive = {"check"}
  Faults = {"refuse", "crash"}
SPECIFICATION FairSpec
INVARIANTS TypeOK OneLifecycleTask
PROPERTIES DeletedIsFinal ArchivedIsFinal OperationEnds
CHECK_DEADLOCK FALSE
