CONSTANTS
  Workers = {w1}
  Kinds <- Scripts
SPECIFICATION FairSpec
PROPERTY TimeoutEndsWait
CHECK_DEADLOCK FALSE
