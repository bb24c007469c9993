SPECIFICATION Spec
CONSTANTS
  w1 = w1
  w2 = w2
  Read = Read
  Exec = Exec
  Server = Server
  Threads = {w1, w2}
  MinInterval = 2
  BackoffInitial = 2
  BackoffMax = 4
  TransientInitial = 1
  TransientMax = 2
  RetryAfters = {0, 5}
  MaxStrikes = 2
INVARIANTS SlotsAreSpaced ConversationIsKept CallsAreOffered WaysAgree RepairIsNeeded
PROPERTIES EveryRequestEnds
CHECK_DEADLOCK FALSE
