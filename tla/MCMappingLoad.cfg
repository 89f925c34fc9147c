SPECIFICATION FileSpec
CONSTANTS
  Process = {p1}
  Garbage = garbage
  Sorted <- InOrder
  m1 = m1
  m2 = m2
  f1 = f1
  f2 = f2
  Mappings <- EveryMapping
INVARIANTS
  LoadedIsSound
  UndisturbedLoadIsExact
