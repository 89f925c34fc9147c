SPECIFICATION Spec
CONSTANTS
  Worker = {}
  Owner = owner
  NoPartition = none
  Partition <- MCPartition
  Coalitions <- MCCoalitions
  Length <- MCLength
  MaxBound <- MCMaxBound
  AvgBound <- MCAvgBound
  Choice <- MCChoice
  Upcoming <- AnyOrder
  Potential <- MCPotential
  StructureValue <- MCStructureValue
  Tiny = 1
  Unbounded = 100000
  QualityNum = 5
  QualityDen = 4
  AgentCount = 4
  CoalitionValue <- FourAgentValues
  TinyBound = 1
INVARIANTS
  SearchInvariant
