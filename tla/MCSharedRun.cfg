SPECIFICATION FairSpec
CONSTANTS
  Procs = {"p", "q"}
  MaxSteps = 3
  MaxKills = 1
  None = None
INVARIANTS
  EndsFinished
PROPERTIES
  AllEnd
CHECK_DEADLOCK FALSE
