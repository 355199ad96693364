SPECIFICATION Spec
CONSTANTS
  Answers <- TestAnswers
  MaxCrashes = 1
  None = None
  NotObject = NotObject
CHECK_DEADLOCK FALSE
INVARIANTS
  ErrorsReturned
