SPECIFICATION FairSpec
CONSTANTS
  Base = 8
  Width = 2
  Senders = {s1, s2}
  Msgs <- AllTypes
  MaxMsgs = 3
  Capacity = 3
  Cuts = {"closed", "reset"}
PROPERTY ImplementsLink
CHECK_DEADLOCK FALSE
