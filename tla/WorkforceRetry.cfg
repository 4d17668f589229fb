SPECIFICATION SpecAll
CONSTANTS
  Parts = {"workforce"}
  Jobs = {j1}
  Tasks = {t1, t2}
  Caps = {1}
  MaxTriggers = 3
  MaxFaults = 1
  MaxRestarts = 1
  MaxSubs = 2
  Roles = 2
  MaxRetries = 1
  Statuses <- Actual
INVARIANTS
  RetriesOnlyFailures
CHECK_DEADLOCK FALSE
