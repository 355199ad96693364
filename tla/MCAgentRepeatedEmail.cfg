SPECIFICATION FairSpec
CONSTANTS
  MaxSteps = 3
  Budget = 4
  NoProgressLimit = 3
  Responses <- MailMenu
  Ids = {"c1", "c2"}
  Args = {"a"}
  BadArgs = {}
  TaskSizes = {"fits"}
  ResultSizes = {"fits"}
  MaxCrashes = 0
  None = None
PROPERTIES
  Termination
