SPECIFICATION Spec
CONSTANTS
  RetryDelay = 3
  Backoff = 1
  ReviveBatch = 1
  ReconcileBatch = 3
  MaxLines = 3
  MaxSkew = 1
  MaxAhead = 1
INVARIANTS
  TypeOK
PROPERTIES
  NeverIdle
  EveryTaskEnds
