\* A build with overflow checks.
CONSTANTS
  Desc = {"a", "b"}
  Size = 2
  IndexMod = 4
  MaxBatch = 2
  Requests = {2}
  Rooms = {2}
  OverflowChecks = TRUE
SPECIFICATION Spec
INVARIANT ProduceReturns
