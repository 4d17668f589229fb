SPECIFICATION LearnSpec
CONSTANTS
  Agents = {"a"}
  Results = {"success", "failure"}
  Complexities = {"simple"}
  Models = {}
  Qualities = {0}
  Costs = {10}
  Flaws = {}
  Window = 2
  Enough = 2
  MaxOutcomes = 6
INVARIANT
  TrendIsOfTheLatest
CHECK_DEADLOCK FALSE
