SPECIFICATION Spec
CONSTANTS
  Front <- AllFronts
  Rank <- CanonicalRank
  JusticeK = 6
  Failing <- FirstFront
  MayFail = FALSE
  MayCrash = FALSE
  MayMisread = FALSE
  Limit = 12
  Depth = 2
PROPERTIES
  EveryoneServed
