\* A caller that asks for more entries than its slice has room for.
CONSTANTS
  Desc = {"a", "b"}
  Size = 2
  IndexMod = 8
  MaxBatch = 2
  Requests = {2}
  Rooms = {1}
  OverflowChecks = FALSE
SPECIFICATION Spec
INVARIANT ReturnsNumberUpdated
