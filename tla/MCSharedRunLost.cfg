SPECIFICATION Spec
CONSTANTS
  Procs = {"p", "q"}
  MaxSteps = 3
  MaxKills = 1
  None = None
INVARIANTS
  EveryCallAnswered
CHECK_DEADLOCK FALSE
