SPECIFICATION Spec
CONSTANTS
  Worker = {w1}
  Owner = owner
  NoPartition = none
  Partition <- MCPartition
  Coalitions <- MCCoalitions
  Length <- MCLength
  MaxBound <- MCMaxBound
  AvgBound <- MCAvgBound
  Choice <- MCChoice
  Upcoming <- FixedOrder
  Potential <- MCPotential
  StructureValue <- MCStructureValue
  Tiny = 1
  Unbounded = 100000
  QualityNum = 1
  QualityDen = 1
  AgentCount = 3
  CoalitionValue <- TestValues
  TinyBound = 1
INVARIANTS
  TypeOK
  CompletedIsGoodEnough
  BoundIsHonest
  SolutionHasItsValue
  PrunedHoldNoOptimum
  ProgressIsAccounted
PROPERTIES
  BestOnlyImproves
  ImplementsOptimizer
  EverySearchEnds
  SearchIsReported
