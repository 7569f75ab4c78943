SPECIFICATION FairSpec
CONSTANTS
  MaxOpens = 1
  Capacity = 2
  Openers <- OnlyA
  Cancels <- OnlyA
  AcceptEnds <- OnlyB
  Writers <- OnlyB
  AbortEnds <- OnlyB
  CloseFrom = "accepted"
PROPERTIES OpenAnswered CloseFrees PacketsProcessed SessionsEnd
CHECK_DEADLOCK FALSE
