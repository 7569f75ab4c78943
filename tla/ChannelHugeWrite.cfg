SPECIFICATION FairSpec
CONSTANTS
  WindowSize = 2
  MaxPacket = 2
  Modulus = 4
  WriteSizes = {4}
  ReadSizes = {2}
  MaxBytes = 4
  Capacity = 3
  WriteEnds <- OnlyA
  EOFEnds <- Nobody
  CloseEnds <- Nobody
  AbortEnds <- Nobody
PROPERTY WriteReturns
CHECK_DEADLOCK FALSE
