SPECIFICATION FairSpec
CONSTANTS
  MaxOpens = 1
  MaxWrites = 1
  IdModulus = 5
  Capacity = 2
  Uses <- CancelUses
PROPERTY ProcessesPackets
CHECK_DEADLOCK FALSE
