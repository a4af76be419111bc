\* two references, one mount at a time, all commands, failures and kills
SPECIFICATION Spec
CONSTANTS
  l1 = l1
  l2 = l2
  Name = {base, app}
  NoImage = NoImage
  Layer = {l1, l2}
  Key = {k1}
  NoKey = NoKey
  Unique = {u1, u2}
  MaxLayers = 2
  MovingTags = FALSE
  Archives <- ImageAndDerived
  Remote <- BaseAndDerived
INVARIANTS
  TypeOK
  ChainSound
  ReportedUnpacked
  SingleKeepsFirst
PROPERTIES
  DeletesOwnChain
  NothingLeftBehind
  RemoveActiveKeepsLayers
SYMMETRY Symmetric
