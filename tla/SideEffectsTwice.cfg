CONSTANTS
  r1 = r1  r2 = r2  o1 = o1  k1 = k1  k2 = k2
  write = write  post = post  read = read
  Runs = {r1, r2}
  Operators = {o1}
  Keys = {k1}
  NoKey = NoKey
  Reqs = {write, post, read}
  SideEffecting = {write, post}
  Proposals <- OneKey
  NoReceipt = NoReceipt
  LiveResolution = FALSE
  MaxCalls <- Uneven
  MaxAttempts = 1
SPECIFICATION Spec
INVARIANTS
  AtMostOnce
CHECK_DEADLOCK FALSE
