SPECIFICATION Spec
CONSTANTS
  MaxOpens = 1
  Capacity = 3
  Openers <- Both
  Cancels <- OnlyA
  AcceptEnds <- Both
  Writers <- OnlyA
  AbortEnds <- Nobody
  CloseFrom = "read"
INVARIANTS ListedAreOpen FramesReachPeers HandshakeAgrees
CHECK_DEADLOCK FALSE
