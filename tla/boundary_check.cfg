SPECIFICATION Spec
CONSTANTS
  Module <- Eon
  Dotted <- Hosts
  Import <- Imports
  Allowlist <- Allowlists
  External <- Keys
  Size <- Sizes
  Ceiling <- Ceilings
  Package <- Packages
  MaxFiles = 2
INVARIANTS
  GreenIsDeclared
  RedHasCause
CHECK_DEADLOCK FALSE
