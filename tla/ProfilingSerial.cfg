CONSTANTS
  Handlers = {h1}
  Workers = {w1, w2}
  MaxRuns = 5
  MaxGen = 3
  MaxCopies = 1
  PlanSize = 2
  StopChoices = {TRUE, FALSE}
  Patient = TRUE
  Requests = {"upload", "deleteExperiment", "generate", "replaceRun", "start", "rerunNew", "rerunInPlace", "deleteRun", "bulkDelete"}
  Faults = {"refuse", "claim", "artifacts"}
SPECIFICATION Spec
SYMMETRY Processes
INVARIANTS AtMostOneRunning NoDoubleExecution StatusFollowsRuns
CHECK_DEADLOCK FALSE
