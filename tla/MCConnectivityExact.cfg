CONSTANTS
  Model = {1, 2, 3, 4}
  Ontologies <- MCOntologies
  Sessions <- MCSessions
SPECIFICATION Spec
INVARIANT UntimedAnswerIsExact
