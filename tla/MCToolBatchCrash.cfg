SPECIFICATION FairPhaseSpec
CONSTANTS
  Batches <- MixedBatches
  Ids = {"c1", "c2", "c3", "c4"}
  Paths = {"f", "g"}
  Contents = {"x", "y"}
  Emails = {"m", "bad"}
  BadEmails = {"bad"}
  Faults = {"tear"}
  MaxCrashes = 2
  None = None
INVARIANTS
  AllOrNothing
  SendsFollowSuccess
  ResultMatchesRow
  NothingLost
PROPERTIES
  RecordedNeverRerun
  ImplementsLoop
  BatchCompletes
