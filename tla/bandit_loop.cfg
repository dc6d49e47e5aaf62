SPECIFICATION Spec
CONSTANTS
  Front <- AllFronts
  Rank <- CanonicalRank
  JusticeK = 6
  Failing <- LastFront
  MayFail = TRUE
  MayCrash = TRUE
  MayMisread = TRUE
  Limit = 9
  Depth = 2
PROPERTIES
  EveryoneServed
  JusticeFloor
