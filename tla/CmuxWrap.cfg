SPECIFICATION FairSpec
CONSTANTS
  MaxOpens = 3
  MaxWrites = 1
  IdModulus = 2
  Capacity = 2
  Uses <- WrapUses
INVARIANT DataFaithful
CHECK_DEADLOCK FALSE
