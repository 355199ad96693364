SPECIFICATION FairSpec
CONSTANTS
  MaxRetries = 4
  MaxFailures = 3
  Cooldown = 3
  BaseDelay = 2
  RetryAfters <- HeaderValues
  None = None
INVARIANTS
  LoadBounded
  OpenMeansQuiet
  RetriesFaithful
PROPERTIES
  KeepsServing
