CONSTANTS
  MaxObjects = 2
  Request <- MCRequest
  StructureCall <- MCStructureCall
  RestrictionCall <- MCRestrictionCall
  RelatedCall <- MCRelatedCall
  RobotCall <- MCRobotCall
  Iri <- MCIri
  Filtered <- MCFiltered
  Connectable <- MCConnectable
  Checks <- MCChecks
  MappingOf <- MCMappingOf
  StructureOf <- MCStructureOf
  RestrictionsOf <- MCRestrictionsOf
  RelatedTo <- MCRelatedTo
  RobotIn <- MCRobotIn
SPECIFICATION Spec
PROPERTY AnswersAreFresh
CHECK_DEADLOCK FALSE
