\* A release build whose callers pass slices as long as what they ask for.
CONSTANTS
  Desc = {"a", "b"}
  Size = 2
  IndexMod = 8
  MaxBatch = 3
  Requests = {0, 1, 2, 3}
  Rooms = {3}
  OverflowChecks = FALSE
SPECIFICATION Spec
INVARIANTS RingTypeOK WritesOnlyFreeSlots ReturnsNumberUpdated RefusalsAreHonest
PROPERTY QueueSpec
