SPECIFICATION FairBusinessSpec
CONSTANTS
  MaxSteps = 7
  Faults = {"store", "action", "compensation", "partial", "cancel"}
  Estimates = {0, 1, 2}
  MaxCalls = 2
  OtherSteps = 3
  AnswerKey = "result"
INVARIANTS
  BusinessTypeOK
  CompensatedOnce
  StepStatusTruthful
  LeftoversAreMarked
  ChargesAddUp
  
PROPERTIES
  StartsInOrder
  ExecuteEnds
CHECK_DEADLOCK FALSE
