SPECIFICATION Spec
CONSTANTS
  Front <- TwoFronts
  Rank <- RankOfTwo
  ModelFront <- OneModelFront
  JusticeK = 4
  ReviveBatch = 2
  ReconcileBatch = 3
  Quota = 1
  Injected <- AnyFailure
  ReplenishFails = TRUE
  MaxGen = 3
  MaxCycle = 6
  MaxEvents = 4
  MaxFaults = 2
  MaxErrors = 2
INVARIANTS
  TypeOK
  OneHeir
  StepOnce
  RowsBounded
  TelemetryBounded
  FloorKept
  CycleNumbersAdvance
PROPERTIES
  BootLeavesNoOrphan
  KeepsLines
  KeepsJustice
