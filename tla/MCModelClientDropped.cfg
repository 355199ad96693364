SPECIFICATION Spec
CONSTANTS
  MaxRetries = 3
  MaxFailures = 2
  Cooldown = 2
  BaseDelay = 2
  RetryAfters <- HeaderValues
  None = None
INVARIANTS
  EndsLegibly
