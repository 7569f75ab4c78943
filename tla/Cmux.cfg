SPECIFICATION FairSpec
CONSTANTS
  MaxOpens = 2
  MaxWrites = 1
  IdModulus = 5
  Capacity = 2
  Uses <- SomeUses
INVARIANTS HandshakeAgrees DataFaithful EOFMeansComplete
PROPERTIES PacketsProcessed SessionsEnd
CHECK_DEADLOCK FALSE
