SPECIFICATION Spec
CONSTANTS
  Orders <- OneOrder
  MaxTime = 4
  Close = 4
  Validity = 1
  MaxEvents = 1
  MaxCrashes = 0
CHECK_DEADLOCK FALSE
INVARIANTS RepeatedInvalidationIsAnswered
