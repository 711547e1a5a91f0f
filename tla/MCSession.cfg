CONSTANTS
  Setters = {s1, s2}
  Readers = {r1}
  Names = {"a", "b"}
  MaxConnects = 2
SPECIFICATION FairSpec
INVARIANTS
  TypeOK
  CachedTogether
PROPERTIES
  ImplementsSharedClient
  EveryCallReturns
CHECK_DEADLOCK FALSE
