SPECIFICATION Spec
CONSTANTS
  Readers = {r1, r2}
  Sizes <- ReadSizes
  MaxBytes = 3
  MaxChunk = 2
  MaxElements = 4
INVARIANT BlockedOnlyWhenEmpty
