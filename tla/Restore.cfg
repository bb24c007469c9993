SPECIFICATION Spec
CONSTANTS
  MaxWrites = 3
  MaxRestores = 1
  Versioned = {3}
INVARIANTS BundleIsACut AppliedIsWhole FailureChangesNothing
CHECK_DEADLOCK FALSE
