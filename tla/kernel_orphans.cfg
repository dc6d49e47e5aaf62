SPECIFICATION Spec
CONSTANTS
  Front <- TwoFronts
  Rank <- RankOfTwo
  ModelFront <- OneModelFront
  JusticeK = 4
  ReviveBatch = 2
  ReconcileBatch = 2
  Quota = 1
  Injected <- NoFailure
  ReplenishFails = FALSE
  MaxGen = 3
  MaxCycle = 7
  MaxEvents = 7
  MaxFaults = 1
  MaxErrors = 1
INVARIANTS
  AtMostOneRunning
