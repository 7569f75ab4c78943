SPECIFICATION FairSpec
CONSTANTS
  Calls <- AllStyles
  Cancels = TRUE
  Aborts = TRUE
  Starves = FALSE
  Mismatch = FALSE
INVARIANTS ReplyFaithful OrderlyCallsHarmless
PROPERTIES CallReturns CancelAborts RespondReleases
CHECK_DEADLOCK FALSE
