CONSTANTS
  Handlers = {h1}
  Workers = {w1}
  MaxRuns = 3
  MaxGen = 1
  MaxCopies = 2
  PlanSize = 3
  StopChoices = {FALSE}
  Patient = FALSE
  Requests = {"generate", "start"}
  Faults = {}
SPECIFICATION FairSpec
PROPERTIES GenerationDrains
CHECK_DEADLOCK FALSE
