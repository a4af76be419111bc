\* a file takes the place of a directory of the layer below
SPECIFICATION Spec
CONSTANTS
  Path <- Paths
  Image <- Replacing
INVARIANTS
  NeverFails
CHECK_DEADLOCK FALSE
