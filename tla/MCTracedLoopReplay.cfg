SPECIFICATION TracedSpec
CONSTANTS
  MaxSteps = 2
  Budget = 9
  NoProgressLimit = 2
  Responses <- TraceMenu
  Ids = {"c1"}
  Args = {"a"}
  BadArgs = {}
  TaskSizes = {"fits", "huge"}
  ResultSizes = {"fits"}
  MaxCrashes = 2
  None = None
  Tears = TRUE
INVARIANTS
  ReplaySucceeds
