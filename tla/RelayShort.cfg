SPECIFICATION FairSpec
CONSTANTS
  Window = 1
  Uses <- ShortUses
PROPERTIES EchoReturns
CHECK_DEADLOCK FALSE
