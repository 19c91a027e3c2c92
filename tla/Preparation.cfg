SPECIFICATION Spec
CONSTANTS
  w1 = w1
  w2 = w2
  a1 = a1
  a2 = a2
  Preparers <- MCPreparers
  OperationIds <- MCOperationIds
  RuleSets <- MCRuleSets
  ValidRulesets <- MCValid
  NoFile = NoFile
INVARIANTS
  CandidatesAreFit
  PreparedIsStored
  RevisionsAreAccounted
