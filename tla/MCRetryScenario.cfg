SPECIFICATION Spec
CONSTANTS
  MaxRetries = 4
  MaxFailures = 2
  Cooldown = 1
  BaseDelay = 1
  None = None
  Tasks = {"t", "u"}
  MaxKills = 2
INVARIANTS
  ScriptMetApart
PROPERTIES
  BothFinish
CHECK_DEADLOCK FALSE
