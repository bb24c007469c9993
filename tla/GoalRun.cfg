CONSTANTS
  c1 = c1  c2 = c2  r1 = r1  r2 = r2  b1 = b1  b2 = b2
  Controllers = {c1, c2}
  Runs = {r1, r2}
  Blockers = {b1, b2}
  Crashes = TRUE
  MaxOps = 4
SPECIFICATION Spec
CONSTRAINT Bounds
INVARIANTS
  CheckpointKnowsTheEndAlone
  BlockedHasBlocker
PROPERTIES
  ImplementsLifecycleAlone
CHECK_DEADLOCK FALSE
