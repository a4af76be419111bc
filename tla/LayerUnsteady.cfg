\* a request for files whose range is ignored, after the footer's and the table's were honoured
SPECIFICATION LayerSpec
CONSTANTS
  NoValue = NoValue
  FooterFrameSize = 2
  MaxTOCSize = 8
  Word = 32
  GapThreshold = 2
  Layers <- KnownThenMissing
INVARIANTS
  ReadsOwnBytes
CHECK_DEADLOCK FALSE
