SPECIFICATION CallbacksSpec
CONSTANTS
  Patterns <- AllPatterns
  Handlers = {"h1", "h2"}
  Selectors <- SomeSelectors
  MaxRegs = 2
  Uses <- RemoveUses
INVARIANT MostSpecificCalled
CHECK_DEADLOCK FALSE
