SPECIFICATION Spec
CONSTANTS
  Workers = {w1, w2}
  Missions = {m1, m2}
  Exercises = {"starting", "hooking", "assessing"}
SYMMETRY GateSymmetry
INVARIANTS
  TypeOK
  OnePendingPerWorker
  GateHolds
  EscalationIsAlerted
CHECK_DEADLOCK FALSE
