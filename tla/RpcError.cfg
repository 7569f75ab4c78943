SPECIFICATION Spec
CONSTANTS
  Calls <- Failing
  Cancels = FALSE
  Aborts = FALSE
  Starves = FALSE
  Mismatch = FALSE
INVARIANT SessionSurvives
CHECK_DEADLOCK FALSE
