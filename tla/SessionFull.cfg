SPECIFICATION FairSpec
CONSTANTS
  MaxOpens = 2
  Capacity = 1
  Openers <- Both
  Cancels <- Nobody
  AcceptEnds <- Nobody
  Writers <- Nobody
  AbortEnds <- Nobody
  CloseFrom = "read"
PROPERTY PacketsProcessed
CHECK_DEADLOCK FALSE
