CONSTANTS
  Handlers = {h1}
  Workers = {w1}
  MaxRuns = 2
  MaxDeaths = 1
  Scopes <- MCScopes
  Requests = {"upload", "delete", "clean", "validate"}
  Faults = {"refuse", "raise"}
SPECIFICATION FairSpec
INVARIANTS TypeOK VerdictAgrees OneTaskPerScope OfferedProbesSucceeded
PROPERTIES RunsEnd
CHECK_DEADLOCK FALSE
