SPECIFICATION PhaseSpec
CONSTANTS
  Batches <- TwinReads
  Ids = {"c1", "c2", "c3", "c4"}
  Paths = {"f", "g"}
  Contents = {"x", "y"}
  Emails = {"m", "bad"}
  BadEmails = {"bad"}
  Faults = {}
  MaxCrashes = 0
  None = None
INVARIANTS
  BodyAtMostOnce
