\* every list of up to four ranges in a sound layer; every odd footer and annotation with two files
SPECIFICATION SteadySpec
CONSTANTS
  NoValue = NoValue
  FooterFrameSize = 2
  MaxTOCSize = 8
  Word = 32
  GapThreshold = 2
  Layers <- AllLayers
INVARIANTS
  LayerTypeOK
  ReadsOwnBytes
  AllRead
  LittleWaste
PROPERTIES
  RangesExact
CHECK_DEADLOCK FALSE
