CONSTANTS
  Model <- ClassesOfAnOntology
  WordSize = 16
  InfiniteAsUnsigned = 0
  Power = 1
  Mass = 2
  Velocity = 3
  Voltage = 4
  Source = 5
  Demand = 6
  Capacity = 7
  TransportMass = 8
  Self = 0
  Ontologies <- MCOntologies
  Pools <- MCPools
  AskedPools <- MCAskedPools
  Requests <- MCRequests
  TeamOntologies <- MCTeamOntologies
  CrewPools <- MCCrewPools
  Chains <- MCChains
  Conditions <- MCConditions
  FurtherConditions <- MCFurtherConditions
  Robots <- MCRobots
  Observed <- MCObserved
  SparsePools <- MCSparsePools
  DividedAgents <- MCDividedAgents
SPECIFICATION Spec
INVARIANT SupportingServesAll
CHECK_DEADLOCK FALSE
