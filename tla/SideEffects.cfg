CONSTANTS
  r1 = r1  r2 = r2  o1 = o1  k1 = k1  k2 = k2
  write = write  post = post  read = read
  Runs = {r1, r2}
  Operators = {o1}
  Keys = {k1, k2}
  NoKey = NoKey
  Reqs = {write, post, read}
  SideEffecting = {write, post}
  Proposals <- Everything
  NoReceipt = NoReceipt
  LiveResolution = TRUE
  MaxCalls <- Uneven
  MaxAttempts = 2
SPECIFICATION Spec
CONSTRAINT Bounds
ACTION_CONSTRAINT PatientAlone
INVARIANTS
  CommittedIsBacked
  CommitEventIsEarned
  AnswerIsTrueAlone
  OneEgoAnswers
  HiddenIsRefused
PROPERTIES
  ImplementsOnceEffectAlone
CHECK_DEADLOCK FALSE
