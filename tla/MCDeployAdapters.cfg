CONSTANTS
  Workers = {w1}
  Requests <- MCRequests
  Nobody = Nobody
SPECIFICATION Spec
INVARIANT CustomizationCompletes
CHECK_DEADLOCK FALSE
