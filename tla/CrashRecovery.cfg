CONSTANTS
  q1 = q1  q2 = q2  k1 = k1  k2 = k2
  Requests = {q1, q2}
  NoRequest = NoRequest
  Keys = {k1}
  NoKey = NoKey
  Resolutions = {"failed"}
  MaxActions = 1
  MaxRequests = 2
  MaxCrashes = 3
SPECIFICATION FairRunSpec
INVARIANTS
  WorkIsVerifiedFirst
  OneCheckpointPerRequest
  ContextFits
  WarningsSurvive
PROPERTIES
  RecoveryConverges
  PassIsCheckpointed
CHECK_DEADLOCK FALSE
