SPECIFICATION FairSpec
CONSTANTS
  WindowSize = 2
  MaxPacket = 2
  Modulus = 4
  WriteSizes = {3}
  ReadSizes = {2}
  MaxBytes = 3
  Capacity = 3
  WriteEnds <- OnlyA
  EOFEnds <- Both
  CloseEnds <- Both
  AbortEnds <- OnlyB
INVARIANTS FlowControlHolds CreditConserved BytesInOrder EOFMeansComplete
PROPERTIES WriteReturns EOFArrives
CHECK_DEADLOCK FALSE
