SPECIFICATION Spec
CONSTANTS
  w1 = w1
  w2 = w2
  a = a
  b = b
  e = e
  f = f
  Callers = {w1, w2}
  Lessons = {a}
  Evidence = {e, f}
  MinSuccesses = 1
  MaxAudit = 3
  NoCandidate = NoCandidate
  NoNote = NoNote
  NoBook = NoBook
SYMMETRY Symmetry
INVARIANTS AuditTellsNote RevokedIsWithdrawn
CHECK_DEADLOCK FALSE
