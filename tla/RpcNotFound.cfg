SPECIFICATION Spec
CONSTANTS
  Calls <- Unknown
  Cancels = FALSE
  Aborts = FALSE
  Starves = FALSE
  Mismatch = FALSE
INVARIANT SessionSurvives
CHECK_DEADLOCK FALSE
