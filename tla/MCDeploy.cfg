CONSTANTS
  Workers = {w1, w2}
  Requests <- MCRequests
  Nobody = Nobody
SPECIFICATION FairSpec
INVARIANTS
  TypeOK
  BootsOnlyComplete
  HardwareFollowsRequest
  SuccessMeansDeployed
  OrphanStaysBare
PROPERTIES
  LateEffects
  ImplementsProvisioning
  CancelledCallReturns
  CustomizationWaitEnds
CHECK_DEADLOCK FALSE
