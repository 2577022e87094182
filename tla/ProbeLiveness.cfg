CONSTANTS
  Clients = {c1}
  Workers = {w1}
  MaxSessions = 2
  Pairs = {p1, p2}
  WindowCount = 2
  Polls = 1
  MaxCopies = 2
  Faults = {"redeliver", "refuse", "lateRefuse", "softLimit", "archive"}
SPECIFICATION FairSpec
PROPERTIES SessionsEnd
CHECK_DEADLOCK FALSE
