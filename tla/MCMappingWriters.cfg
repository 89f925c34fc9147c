SPECIFICATION FileSpec
CONSTANTS
  Process = {p1, p2, p3}
  Garbage = garbage
  Sorted <- InOrder
  m1 = m1
  m2 = m2
  f1 = f1
  f2 = f2
  Mappings <- OnePool
SYMMETRY Interchangeable
CONSTRAINT OthersAreDone
INVARIANTS
  UndisturbedFileIsComplete
