CONSTANTS
  w1 = w1  w2 = w2  a = a  b = b
  Writers = {w1, w2}
  Contents = {a, b}
  MaxRecords = 2
  MaxItems = 1
  MaxTime = 3
  NoProposal = NoProposal
  NoRecord = NoRecord
SPECIFICATION Spec
INVARIANTS
  ActiveIsIndexed
  SupersedingRetires
PROPERTIES
  NewIsNovel
SYMMETRY Symmetry
CHECK_DEADLOCK FALSE
