SPECIFICATION Spec
CONSTANTS
  MaxOpens = 1
  Capacity = 3
  Openers <- OnlyA
  Cancels <- Nobody
  AcceptEnds <- OnlyB
  Writers <- Nobody
  AbortEnds <- Nobody
  CloseFrom = "accepted"
INVARIANT FramesReachPeers
CHECK_DEADLOCK FALSE
