SPECIFICATION FairSpec
CONSTANTS
  Calls <- Single
  Cancels = FALSE
  Aborts = FALSE
  Starves = FALSE
  Mismatch = TRUE
PROPERTY RespondReleases
CHECK_DEADLOCK FALSE
