SPECIFICATION CallbacksSpec
CONSTANTS
  Patterns <- AllPatterns
  Handlers = {"h1", "h2"}
  Selectors <- SomeSelectors
  MaxRegs = 2
  Uses <- SomeUses
INVARIANTS MostSpecificCalled CallbacksReachable PtrsGone OnlySharedPanic
CHECK_DEADLOCK FALSE
