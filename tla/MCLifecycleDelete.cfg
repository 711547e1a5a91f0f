CONSTANTS
  Clients = {c1, c2}
  Calls <- DeleteCalls
  Names = {"a", "b"}
  MaxSnapshots = 3
SPECIFICATION Spec
PROPERTY UnforcedNeedsNoSnapshots
CHECK_DEADLOCK FALSE
