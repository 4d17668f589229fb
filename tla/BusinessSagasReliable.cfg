SPECIFICATION BusinessSpec
CONSTANTS
  MaxSteps = 7
  Faults = {"action"}
  Estimates = {0, 1, 2}
  MaxCalls = 2
  OtherSteps = 5
  AnswerKey = "result"
PROPERTIES
  KeepsPromise
CHECK_DEADLOCK FALSE
