SPECIFICATION FairSpec
CONSTANTS
  Conns = {c1, c2}
  MaxCalls = 2
  Kinds <- AllKinds
INVARIANTS EndsForOwnCause
PROPERTIES EveryConnServed ServeMuxReturns NoOrphans SessionsReleased
CHECK_DEADLOCK FALSE
