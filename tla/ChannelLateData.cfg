SPECIFICATION Spec
CONSTANTS
  WindowSize = 2
  MaxPacket = 2
  Modulus = 4
  WriteSizes = {2}
  ReadSizes = {2}
  MaxBytes = 2
  Capacity = 3
  WriteEnds <- OnlyA
  EOFEnds <- Nobody
  CloseEnds <- OnlyA
  AbortEnds <- Nobody
INVARIANT NoDataAfterClose
CHECK_DEADLOCK FALSE
