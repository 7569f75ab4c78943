SPECIFICATION FairSpec
CONSTANTS
  MaxOpens = 1
  Capacity = 2
  Openers <- OnlyA
  Cancels <- Nobody
  AcceptEnds <- OnlyB
  Writers <- Nobody
  AbortEnds <- OnlyB
  CloseFrom = "read"
PROPERTY OpenReturns
CHECK_DEADLOCK FALSE
