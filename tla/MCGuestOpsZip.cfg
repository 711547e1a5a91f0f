CONSTANTS
  Workers = {w1}
  Kinds <- Transfers
SPECIFICATION Spec
INVARIANT ZipDeleted
CHECK_DEADLOCK FALSE
