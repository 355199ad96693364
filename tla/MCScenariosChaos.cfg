SPECIFICATION ScenarioSpec
CONSTANTS
  MaxSteps = 7
  Budget = 9
  NoProgressLimit = 3
  Responses <- AllResponses
  Ids <- AllIds
  Args <- AllArgs
  BadArgs = {}
  TaskSizes = {"fits"}
  ResultSizes = {"fits"}
  MaxCrashes = 3
  None = None
  Attempts = 3
CHECK_DEADLOCK FALSE
INVARIANTS
  ChaosExitsZero
