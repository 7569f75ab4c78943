SPECIFICATION FairSpec
CONSTANTS
  Readers = {r1}
  Sizes <- ReadSizes
  MaxBytes = 4
  MaxChunk = 2
  MaxElements = 4
PROPERTY ImplementsFairQueue
