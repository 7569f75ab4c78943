SPECIFICATION FairSpec
CONSTANTS
  Window = 1
  Uses <- AllUses
INVARIANTS Intact EOFMeansComplete
PROPERTIES ChannelsReleased EchoReturns
CHECK_DEADLOCK FALSE
