SPECIFICATION Spec
CONSTANTS
  Workers = {w1, w2}
  Missions = {m1}
  Exercises = {"critical"}
SYMMETRY GateSymmetry
INVARIANTS
  CriticalNeedsApproval
CHECK_DEADLOCK FALSE
