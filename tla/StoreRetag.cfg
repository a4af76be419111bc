\* a reference that moves to another image while a mount of the first is labelled with it
SPECIFICATION Spec
CONSTANTS
  l1 = l1
  l2 = l2
  Name = {base, app}
  NoImage = NoImage
  Layer = {l1, l2}
  Key = {k1}
  NoKey = NoKey
  Unique = {u1}
  MaxLayers = 2
  MovingTags = TRUE
  Archives <- ImageAndDerived
  Remote <- TwoVersions
INVARIANTS
  ChainSound
