SPECIFICATION Spec
CONSTANTS
  MaxSteps = 3
  Budget = 4
  NoProgressLimit = 2
  Responses <- LoopMenu
  Ids = {"c1", "c2"}
  Args = {"a"}
  BadArgs = {}
  TaskSizes = {"fits"}
  ResultSizes = {"fits"}
  MaxCrashes = 1
  None = None
INVARIANTS
  LastAnswerCounts
