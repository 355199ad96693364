SPECIFICATION Spec
CONSTANTS
  MaxSteps = 3
  Budget = 9
  NoProgressLimit = 2
  Responses <- ToolMenu
  Ids = {"c1", "c2"}
  Args = {"a", "bad"}
  BadArgs = {"bad"}
  TaskSizes = {"fits", "huge"}
  ResultSizes = {"fits", "brim", "over"}
  MaxCrashes = 2
  None = None
INVARIANTS
  EveryCallAnswered
  StartsPrecedeResults
PROPERTIES
  ImplementsOutbox
