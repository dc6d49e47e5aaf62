SPECIFICATION Spec
INVARIANTS
  TypeOK
  ReadersSeeWhole
PROPERTIES
  VerdictSettles
