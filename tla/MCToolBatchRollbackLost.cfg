SPECIFICATION PhaseSpec
CONSTANTS
  Batches <- PlainBatches
  Ids = {"c1", "c2", "c3", "c4"}
  Paths = {"f", "g"}
  Contents = {"x", "y"}
  Emails = {"m", "bad"}
  BadEmails = {"bad"}
  Faults = {}
  MaxCrashes = 1
  None = None
INVARIANTS
  RolledBackAlways
