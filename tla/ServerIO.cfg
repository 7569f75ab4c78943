SPECIFICATION FairSpec
CONSTANTS
  Conns = {c1, c2}
  MaxCalls = 2
  Kinds <- IOKinds
PROPERTY ServeMuxAlwaysReturns
CHECK_DEADLOCK FALSE
