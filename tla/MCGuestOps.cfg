CONSTANTS
  Workers = {w1}
  Kinds <- AllKinds
SPECIFICATION FairSpec
INVARIANTS
  TypeOK
  SuccessIsReal
  SuccessCleansUp
PROPERTIES
  DeletedOnlyWhenDone
  CancelledTransferReturns
  DeadlineEndsWait
CHECK_DEADLOCK FALSE
