CONSTANTS
  Models = {1, 2}
  Problems <- MCProblems
  Tiny = 1
  Ceiling = 3
  Unbounded = 4
  FewAgents = 3
  ManyAgents = 6
  Levels = {0, 3, 12}
  TinyBound = 1
SPECIFICATION DivisionSpec
INVARIANTS
  BoundsAreAdmissible
  AverageIsReached
  EveryStructureIsEnumerated
  FoundIsBest
PROPERTY SearchEnds
CHECK_DEADLOCK FALSE
