SPECIFICATION Spec
CONSTANTS
  Core = {c1, c2}
  MayOverlap = TRUE
  Known = {1, 2}
  DrainBatch = 2
  MaxItems = 3
INVARIANTS
  TypeOK
  SchemaWhole
  DrainedOnce
PROPERTIES
  EveryItemDrained
