SPECIFICATION Spec
CONSTANTS
  Version <- ThreeVersions
  Base = 1
  MaxBackoff = 7
  Threshold = 3
  Window = 7
  Lives <- SomeLives
  Unstartable <- NewestOfThree
INVARIANTS
  TypeOK
PROPERTIES
  DemotionEarned
  SickTargetLeft
  HealthyCoreInTheEnd
  ShutsDown
