\* Three directories, two branches, two row ids, two calls of which one may overlap the other.
SPECIFICATION Spec
SYMMETRY Symmetry
CONSTANTS
  Calls = {c1, c2}
  Paths = {p1, p2, p3}
  Branches = {a, b}
  Rows = {r1, r2}
  Tasks = {t1}
  None = None
  Gone = Gone
  Detached = Detached
  MaxCalls = 3
  MaxMoves = 2
  MaxFaults = 1
CHECK_DEADLOCK FALSE
INVARIANTS
  TypeOK
  SyncedRowsHoldTheirBranch
PROPERTIES
  RowLeavesQuietly
  CreateIsAllOrNothing
