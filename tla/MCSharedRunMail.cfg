SPECIFICATION Spec
CONSTANTS
  Procs = {"p", "q"}
  MaxSteps = 3
  MaxKills = 0
  None = None
PROPERTIES
  MailBeforeResults
CHECK_DEADLOCK FALSE
