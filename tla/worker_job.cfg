SPECIFICATION Spec
INVARIANTS
  TypeOK
  VerdictTruthful
  Confined
  LevelProven
  Blind
PROPERTIES
  AuditedInDirectory
  RunReturns
