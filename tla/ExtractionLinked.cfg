\* a destination in which an untracked extraction left hard links
SPECIFICATION Spec
CONSTANTS
  f = f
  g = g
  d1 = d1
  d2 = d2
  Proc = {p1, p2}
  Root = {r1}
  DeltaRoot = {r1}
  PlainRoot = {}
  Rel = {f, g, h}
  Digest = {d1}
  NoDigest = NoDigest
  NoFile = NoFile
  Torn = Torn
  Nobody = Nobody
  UserDeletes = {}
  Image <- LinkImages
  Abs <- PairAbs
  Join <- PairJoin
INVARIANTS
  CacheSound
CHECK_DEADLOCK FALSE
