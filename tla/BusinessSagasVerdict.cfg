SPECIFICATION BusinessSpec
CONSTANTS
  MaxSteps = 7
  Faults = {"store", "action", "compensation", "partial", "cancel"}
  Estimates = {0, 1, 2}
  MaxCalls = 2
  OtherSteps = 3
  AnswerKey = "output"
INVARIANTS

  RejectedNeverPosted
CHECK_DEADLOCK FALSE
