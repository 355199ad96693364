SPECIFICATION FairSpec
CONSTANTS
  MaxSteps = 4
  Budget = 5
  NoProgressLimit = 3
  Responses <- LoopMenu
  Ids = {"c1", "c2"}
  Args = {"a"}
  BadArgs = {}
  TaskSizes = {"fits", "tight"}
  ResultSizes = {"fits"}
  MaxCrashes = 3
  None = None
INVARIANTS
  TypeOK
  CheckpointExplained
  AskedOncePerStep
  CostExact
  BudgetStopsRun
  TerminalRepeatNeverStarts
  CompletedIsHonest
  UncheckedExplained
PROPERTIES
  FinishedFrozen
  Termination
