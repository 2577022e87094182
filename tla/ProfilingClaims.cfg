CONSTANTS
  Handlers = {h1}
  Workers = {w1, w2}
  MaxRuns = 4
  MaxGen = 1
  MaxCopies = 2
  PlanSize = 2
  StopChoices = {FALSE}
  Patient = TRUE
  Requests = {"generate", "replaceGen", "start", "bulkDelete"}
  Faults = {"crash", "redeliver"}
SPECIFICATION Spec
SYMMETRY Processes
INVARIANTS OneSenderPerRun
PROPERTIES NoActiveRunDeleted
CHECK_DEADLOCK FALSE
