SPECIFICATION Spec
CONSTANTS
  Calls <- Continued
  Cancels = TRUE
  Aborts = FALSE
  Starves = FALSE
  Mismatch = FALSE
INVARIANT ContinuedStaysOpen
CHECK_DEADLOCK FALSE
