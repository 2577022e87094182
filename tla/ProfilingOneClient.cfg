CONSTANTS
  Handlers = {h1}
  Workers = {w1}
  MaxRuns = 3
  MaxGen = 2
  MaxCopies = 1
  PlanSize = 2
  StopChoices = {TRUE}
  Patient = FALSE
  Requests = {"upload", "deleteExperiment", "generate", "replaceGen", "replaceRun", "start", "rerunNew", "rerunInPlace", "deleteRun", "bulkDelete"}
  Faults = {"refuse", "lateRefuse", "claim", "preview", "artifacts"}
SPECIFICATION Spec
SYMMETRY Processes
INVARIANTS TypeOK NoOrphanRunning RowsBelongToExperiment
PROPERTIES NoResurrection
CHECK_DEADLOCK FALSE
