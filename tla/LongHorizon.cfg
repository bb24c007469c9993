CONSTANTS
  c1 = c1  c2 = c2  r1 = r1  r2 = r2  s1 = s1  s2 = s2
  Coordinators = {c1, c2}
  Runs = {r1, r2}
  NoRun = NoRun
  StepIds = {s1, s2}
  DependsOn <- Apart
  MaxAttempts <- Budget
  Rank <- Order
  NoPlan = NoPlan
  Operated = TRUE
  Crashes = TRUE
  MaxOps = 4
SPECIFICATION Spec
CONSTRAINT Bounds
ACTION_CONSTRAINT Separate
INVARIANTS
  WorkIsDone
  RunningHasActiveGoalAlone
  FailureBlocksGoalAlone
  AdvanceIsCheckpointedAlone
  PlanEndReachesGoalAlone
SYMMETRY Symmetry
CHECK_DEADLOCK FALSE
