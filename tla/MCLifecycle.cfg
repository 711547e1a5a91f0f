CONSTANTS
  Clients = {c1, c2}
  Calls <- MCCalls
  Names = {"a", "b"}
  MaxSnapshots = 3
SPECIFICATION Spec
SYMMETRY Symmetry
INVARIANTS
  TypeOK
  EffectsAreAsked
  DeleteAllIsHonest
  ActsOnOutermost
PROPERTIES
  UnforcedSparesTheSeen
  OnlyTheNamedIsLost
CHECK_DEADLOCK FALSE
