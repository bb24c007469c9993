CONSTANTS
  c1 = c1  c2 = c2  s1 = s1  s2 = s2  s3 = s3
  Clients = {c1, c2}
  StepIds = {s1, s2, s3}
  DependsOn <- Chain
  MaxAttempts <- Budget
  Rank <- Order
  NoPlan = NoPlan
  MaxRevisions = 5
SPECIFICATION ServiceSpec
INVARIANTS
  AlwaysAdvised
PROPERTIES
  ImplementsHistory
SYMMETRY ClientSymmetry
CHECK_DEADLOCK FALSE
