SPECIFICATION SpecAll
CONSTANTS
  Parts = {"store", "views", "projections"}
  Writers = {w1, w2}
  Aggregates = {a1}
  MaxEvents = 2
  MaxRows = 3
  Agents = {a1}
  Missions = {m1}
  Clients = {c1, c2}
  Known = {k1, k2}
  Tasks = {m1}
  Rebuilders = {r1, r2}
  Limit = 3
  MaxLog = 3
SYMMETRY Symmetry
INVARIANTS
  TypesOK
  NoVersionGaps
  DuplicatesBoundedByWriters
  CheckedEventsStoredOnce
  ViewsAreTrue
  LedgerAddsUp
PROPERTIES
  RebuildsAreExact
CHECK_DEADLOCK FALSE
