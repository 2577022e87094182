CONSTANTS
  Handlers = {h1}
  Workers = {w1}
  Containers = {"icopa"}
  Icopa = {"icopa"}
  Phases <- MCPhases
  MaxTasks = 2
  MaxEvents = 1
SPECIFICATION FairSpec
INVARIANTS TypeOK AnswersTellOutcome ListedIsRunning
PROPERTIES AnswersSettle
CHECK_DEADLOCK FALSE
