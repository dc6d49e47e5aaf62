SPECIFICATION Spec
CONSTANTS
  Page = 2
  MaxLog = 5
  Limits <- NoneOrThree
INVARIANTS
  TypeOK
PROPERTIES
  TimelineExact
  AfterComplete
  InspectNotBehind
