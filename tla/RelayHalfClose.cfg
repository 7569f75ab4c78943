SPECIFICATION FairSpec
CONSTANTS
  Window = 1
  Uses <- PlainUses
INVARIANTS HalfCloseKept
CHECK_DEADLOCK FALSE
