CONSTANTS
  Model = {21, 22, 23, 24}
  Cases <- MCCases
  StatusSamples <- MCStatusSamples
  RequirementSamples <- MCRequirementSamples
  Consumption <- MCConsumption
  Share <- MCShare
  MaxIndexings = 2
SPECIFICATION EvaluationSpec
INVARIANT NothingIsUsedTwice
INVARIANT RedundancyIsReal
INVARIANT MatchersAgree
INVARIANT EnergyIsAccounted
INVARIANT RequirementsReachAgents
PROPERTY ComputationEnds
CHECK_DEADLOCK FALSE
