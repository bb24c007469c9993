CONSTANTS
  q1 = q1  q2 = q2  k1 = k1  k2 = k2
  Requests = {q1, q2}
  NoRequest = NoRequest
  Keys = {k1}
  NoKey = NoKey
  Resolutions = {"failed"}
  MaxActions = 2
  MaxRequests = 2
  MaxCrashes = 1
SPECIFICATION RunSpec
INVARIANTS
  WorkIsVerifiedFirst
CHECK_DEADLOCK FALSE
