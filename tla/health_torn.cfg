SPECIFICATION Spec
INVARIANTS
  PublishedWhole
