SPECIFICATION FairSpecAll
CONSTANTS
  Parts = {"scheduler", "workforce"}
  Jobs = {j1}
  Tasks = {t1, t2}
  Caps = {1}
  MaxTriggers = 3
  MaxFaults = 1
  MaxRestarts = 1
  MaxSubs = 3
  Roles = 2
  MaxRetries = 2
  Statuses <- Expected
INVARIANTS
  TypesOK
  
  CountIsTheRuns
  CountWithinCap
  WavesFollowDependencies
PROPERTIES
  RunsAreReported
  RunEnds
CHECK_DEADLOCK FALSE
