SPECIFICATION Spec
CONSTANTS
  Sources <- MCSources
  Tidy <- MCTidy
INVARIANTS
  OpenNames
  OnlyCyclesFreeze
  Agrees
PROPERTIES
  Ends
CHECK_DEADLOCK FALSE
