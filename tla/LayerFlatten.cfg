\* every supported image of two layers, and three-layer images
SPECIFICATION Spec
CONSTANTS
  Path <- Paths
  Image <- Images
INVARIANTS
  TypeOK
  FlattenCorrect
  NeverFails
PROPERTIES
  FilesWrittenOnce
CHECK_DEADLOCK FALSE
