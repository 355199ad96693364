SPECIFICATION FairSpec
CONSTANTS
  MaxSteps = 3
  Budget = 4
  NoProgressLimit = 3
  Responses <- SizeMenu
  Ids = {"c1", "c2"}
  Args = {"a"}
  BadArgs = {}
  TaskSizes = {"fits"}
  ResultSizes = {"fits", "over"}
  MaxCrashes = 1
  None = None
PROPERTIES
  Termination
