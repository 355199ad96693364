SPECIFICATION Spec
CONSTANTS
  Procs = {"p", "q"}
  MaxSteps = 3
  MaxKills = 0
  None = None
INVARIANTS
  EmailNotTorn
CHECK_DEADLOCK FALSE
